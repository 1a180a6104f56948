------------------------------ MODULE Rfc1813 ------------------------------
(***************************************************************************)
(* The NFSv3 types as RFC 1813 defines them: what a server reads and       *)
(* writes.  The server is not part of the repository.                      *)
(***************************************************************************)
EXTENDS Integers, Sequences

CONSTANTS   \* the types of XdrWire
    u32, u64, boolean, string, opaque, bytes, Words(_), Enum(_), Opt(_),
    TimeHow(_), When(_, _, _), List(_), Struct(_)

NFS3_OK == 0
NFS3ERR_NOENT == 2

\* A result: the status, and one of two arms.
Res(resok, resfail) ==
    Struct(<< <<"status", Enum({NFS3_OK, NFS3ERR_NOENT})>>,
              <<"resok", When("status", {<<NFS3_OK>>}, Struct(resok))>>,
              <<"resfail", When("status", {<<NFS3ERR_NOENT>>},
                                Struct(resfail))>> >>)

verf == Words(2)
nfs_fh3 == opaque
nfstime3 == Struct(<< <<"seconds", u32>>, <<"nseconds", u32>> >>)
specdata3 == Struct(<< <<"specdata1", u32>>, <<"specdata2", u32>> >>)
fattr3 ==
    Struct(<< <<"type", Enum({2})>>, <<"mode", u32>>, <<"nlink", u32>>,
              <<"uid", u32>>, <<"gid", u32>>, <<"size", u64>>, <<"used", u64>>,
              <<"rdev", specdata3>>, <<"fsid", u64>>, <<"fileid", u64>>,
              <<"atime", nfstime3>>, <<"mtime", nfstime3>>,
              <<"ctime", nfstime3>> >>)
post_op_attr == Opt(fattr3)
wcc_attr ==
    Struct(<< <<"size", u64>>, <<"mtime", nfstime3>>, <<"ctime", nfstime3>> >>)
wcc_data == Struct(<< <<"before", Opt(wcc_attr)>>, <<"after", post_op_attr>> >>)
sattr3 ==
    Struct(<< <<"mode", Opt(u32)>>, <<"uid", Opt(u32)>>, <<"gid", Opt(u32)>>,
              <<"size", Opt(u64)>>, <<"atime", TimeHow(nfstime3)>>,
              <<"mtime", TimeHow(nfstime3)>> >>)

diropargs3(dir, name) == << <<dir, nfs_fh3>>, <<name, string>> >>
Attr(name) == << <<name, post_op_attr>> >>
Wcc(name) == << <<name, wcc_data>> >>
NewObject ==
    Res(<< <<"object", Opt(nfs_fh3)>>, <<"obj_attributes", post_op_attr>>,
           <<"dir_wcc", wcc_data>> >>, Wcc("dir_wcc"))
entry3 ==
    << <<"fileid", u64>>, <<"name", string>>, <<"cookie", u64>> >>
entryplus3 ==
    entry3 \o << <<"name_attributes", post_op_attr>>,
                 <<"name_handle", Opt(nfs_fh3)>> >>
DirRes(entry) ==
    Res(<< <<"dir_attributes", post_op_attr>>, <<"cookieverf", verf>>,
           <<"reply", Struct(<< <<"entries", List(Struct(entry))>>,
                                <<"eof", boolean>> >>)>> >>,
        Attr("dir_attributes"))

-----------------------------------------------------------------------------

GETATTR3args == Struct(<< <<"object", nfs_fh3>> >>)
GETATTR3res == Res(<< <<"obj_attributes", fattr3>> >>, <<>>)
SETATTR3args ==
    Struct(<< <<"object", nfs_fh3>>, <<"new_attributes", sattr3>>,
              <<"guard", Opt(nfstime3)>> >>)
SETATTR3res == Res(Wcc("obj_wcc"), Wcc("obj_wcc"))
LOOKUP3args == Struct(diropargs3("what_dir", "what_name"))
LOOKUP3res ==
    Res(<< <<"object", nfs_fh3>> >> \o Attr("obj_attributes")
            \o Attr("dir_attributes"), Attr("dir_attributes"))
ACCESS3args == Struct(<< <<"object", nfs_fh3>>, <<"access", u32>> >>)
ACCESS3res ==
    Res(Attr("obj_attributes") \o << <<"access", u32>> >>,
        Attr("obj_attributes"))
READLINK3args == Struct(<< <<"symlink", nfs_fh3>> >>)
READLINK3res ==
    Res(Attr("symlink_attributes") \o << <<"data", string>> >>,
        Attr("symlink_attributes"))
READ3args ==
    Struct(<< <<"file", nfs_fh3>>, <<"offset", u64>>, <<"count", u32>> >>)
READ3res ==
    Res(Attr("file_attributes") \o
        << <<"count", u32>>, <<"eof", boolean>>, <<"data", bytes>> >>,
        Attr("file_attributes"))
WRITE3args ==
    Struct(<< <<"file", nfs_fh3>>, <<"offset", u64>>, <<"count", u32>>,
              <<"stable", Enum({0, 1, 2})>>, <<"data", bytes>> >>)
WRITE3res ==
    Res(Wcc("file_wcc") \o
        << <<"count", u32>>, <<"committed", Enum({2})>>, <<"verf", verf>> >>,
        Wcc("file_wcc"))
\* The attributes for UNCHECKED and GUARDED, the verifier for EXCLUSIVE.
CREATE3args ==
    Struct(diropargs3("where_dir", "where_name") \o
           << <<"how_mode", Enum({0, 1, 2})>>,
              <<"how_attributes", When("how_mode", {<<0>>, <<1>>}, sattr3)>>,
              <<"how_verf", When("how_mode", {<<2>>}, verf)>> >>)
CREATE3res == NewObject
MKDIR3args ==
    Struct(diropargs3("where_dir", "where_name") \o
           << <<"attributes", sattr3>> >>)
MKDIR3res == NewObject
SYMLINK3args ==
    Struct(diropargs3("where_dir", "where_name") \o
           << <<"symlink_attributes", sattr3>>, <<"symlink_data", string>> >>)
SYMLINK3res == NewObject
\* Attributes for devices (3, 4), sockets and pipes (6, 7); numbers for devices.
MKNOD3args ==
    Struct(diropargs3("where_dir", "where_name") \o
           << <<"what_type", Enum(1 .. 7)>>,
              <<"what_attributes",
                When("what_type", {<<3>>, <<4>>, <<6>>, <<7>>}, sattr3)>>,
              <<"what_spec", When("what_type", {<<3>>, <<4>>}, specdata3)>> >>)
MKNOD3res == NewObject
REMOVE3args == Struct(diropargs3("object_dir", "object_name"))
REMOVE3res == Res(Wcc("dir_wcc"), Wcc("dir_wcc"))
RMDIR3args == Struct(diropargs3("object_dir", "object_name"))
RMDIR3res == Res(Wcc("dir_wcc"), Wcc("dir_wcc"))
RENAME3args ==
    Struct(diropargs3("from_dir", "from_name") \o
           diropargs3("to_dir", "to_name"))
RENAME3res ==
    Res(Wcc("fromdir_wcc") \o Wcc("todir_wcc"),
        Wcc("fromdir_wcc") \o Wcc("todir_wcc"))
LINK3args ==
    Struct(<< <<"file", nfs_fh3>> >> \o diropargs3("link_dir", "link_name"))
LINK3res ==
    Res(Attr("file_attributes") \o Wcc("linkdir_wcc"),
        Attr("file_attributes") \o Wcc("linkdir_wcc"))
READDIR3args ==
    Struct(<< <<"dir", nfs_fh3>>, <<"cookie", u64>>, <<"cookieverf", verf>>,
              <<"count", u32>> >>)
READDIR3res == DirRes(entry3)
READDIRPLUS3args ==
    Struct(<< <<"dir", nfs_fh3>>, <<"cookie", u64>>, <<"cookieverf", verf>>,
              <<"dircount", u32>>, <<"maxcount", u32>> >>)
READDIRPLUS3res == DirRes(entryplus3)
FSSTAT3args == Struct(<< <<"fsroot", nfs_fh3>> >>)
FSSTAT3res ==
    Res(Attr("obj_attributes") \o
        << <<"tbytes", u64>>, <<"fbytes", u64>>, <<"abytes", u64>>,
           <<"tfiles", u64>>, <<"ffiles", u64>>, <<"afiles", u64>>,
           <<"invarsec", u32>> >>, Attr("obj_attributes"))
FSINFO3args == Struct(<< <<"fsroot", nfs_fh3>> >>)
FSINFO3res ==
    Res(Attr("obj_attributes") \o
        << <<"rtmax", u32>>, <<"rtpref", u32>>, <<"rtmult", u32>>,
           <<"wtmax", u32>>, <<"wtpref", u32>>, <<"wtmult", u32>>,
           <<"dtpref", u32>>, <<"maxfilesize", u64>>,
           <<"time_delta_seconds", u32>>, <<"time_delta_nseconds", u32>>,
           <<"properties", u32>> >>, Attr("obj_attributes"))
PATHCONF3args == Struct(<< <<"object", nfs_fh3>> >>)
PATHCONF3res ==
    Res(Attr("obj_attributes") \o
        << <<"info", Struct(<< <<"linkmax", u32>>, <<"name_max", u32>>,
               <<"no_trunc", boolean>>, <<"chown_restricted", boolean>>,
               <<"case_insensitive", boolean>>,
               <<"case_preserving", boolean>> >>)>> >>, Attr("obj_attributes"))
COMMIT3args ==
    Struct(<< <<"file", nfs_fh3>>, <<"offset", u64>>, <<"count", u32>> >>)
COMMIT3res == Res(Wcc("file_wcc") \o << <<"verf", verf>> >>, Wcc("file_wcc"))

-----------------------------------------------------------------------------

args ==
    [GETATTR |-> GETATTR3args, SETATTR |-> SETATTR3args, LOOKUP |-> LOOKUP3args,
     ACCESS |-> ACCESS3args, READLINK |-> READLINK3args, READ |-> READ3args,
     WRITE |-> WRITE3args, CREATE |-> CREATE3args, MKDIR |-> MKDIR3args,
     SYMLINK |-> SYMLINK3args, MKNOD |-> MKNOD3args, REMOVE |-> REMOVE3args,
     RMDIR |-> RMDIR3args, RENAME |-> RENAME3args, LINK |-> LINK3args,
     READDIR |-> READDIR3args, READDIRPLUS |-> READDIRPLUS3args,
     FSSTAT |-> FSSTAT3args, FSINFO |-> FSINFO3args,
     PATHCONF |-> PATHCONF3args, COMMIT |-> COMMIT3args]

res ==
    [GETATTR |-> GETATTR3res, SETATTR |-> SETATTR3res, LOOKUP |-> LOOKUP3res,
     ACCESS |-> ACCESS3res, READLINK |-> READLINK3res, READ |-> READ3res,
     WRITE |-> WRITE3res, CREATE |-> CREATE3res, MKDIR |-> MKDIR3res,
     SYMLINK |-> SYMLINK3res, MKNOD |-> MKNOD3res, REMOVE |-> REMOVE3res,
     RMDIR |-> RMDIR3res, RENAME |-> RENAME3res, LINK |-> LINK3res,
     READDIR |-> READDIR3res, READDIRPLUS |-> READDIRPLUS3res,
     FSSTAT |-> FSSTAT3res, FSINFO |-> FSINFO3res,
     PATHCONF |-> PATHCONF3res, COMMIT |-> COMMIT3res]

=============================================================================
