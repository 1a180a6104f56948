---------------------------- MODULE NfsTypesCpp ----------------------------
(***************************************************************************)
(* The NFSv3 types as nfs3_types.hpp lays them out: serialize and          *)
(* deserialize of each struct, over XdrBuffer.  The native RPC build uses  *)
(* this coding.  The two members of a struct mirror each other; the one    *)
(* struct whose members do not, fsinfo3_resok_property, is used nowhere.   *)
(***************************************************************************)
CONSTANTS   \* the types of XdrWire
    u32, u64, boolean, string, opaque, bytes, dataCount, verfOpaque, Unread,
    Enum(_), Opt(_), Sentinel(_), Bare(_), When(_, _, _), List(_), Struct(_)

NFS3_OK == 0
NFS3ERR_NOENT == 2
EXCLUSIVE == 2

Res(resok) ==
    Struct(<< <<"status", Enum({NFS3_OK, NFS3ERR_NOENT})>>,
              <<"resok", When("status", {<<NFS3_OK>>}, resok)>> >>)

writeverf3 == verfOpaque
createverf3 == verfOpaque
nfs_fh3 == opaque

nfstime3_unread == Struct(<< <<"seconds", u32>>, <<"nseconds", Unread>> >>)
nfstime3 == Struct(<< <<"seconds", u32>>, <<"nseconds", u32>> >>)
specdata3 == Struct(<< <<"specdata1", u32>>, <<"specdata2", u32>> >>)

fattr3 ==
    Struct(<< <<"type", Enum({2})>>, <<"mode", u32>>, <<"nlink", u32>>,
              <<"uid", u32>>, <<"gid", u32>>, <<"size", u64>>, <<"used", u64>>,
              <<"rdev", specdata3>>, <<"fsid", u64>>, <<"fileid", u64>>,
              <<"atime", nfstime3>>, <<"mtime", nfstime3>>,
              <<"ctime", nfstime3>> >>)

post_op_attr == Opt(fattr3)

sattr3 ==
    Struct(<< <<"mode", Sentinel(u32)>>, <<"uid", Sentinel(u32)>>,
              <<"gid", Sentinel(u32)>>, <<"size", Opt(u64)>>,
              <<"atime", Opt(nfstime3)>>, <<"mtime", Opt(nfstime3)>> >>)

wcc_attr ==
    Struct(<< <<"size", u64>>, <<"mtime", nfstime3>>, <<"ctime", nfstime3>> >>)
pre_op_attr == Opt(wcc_attr)
wcc_data == Struct(<< <<"before", pre_op_attr>>, <<"after", post_op_attr>> >>)

-----------------------------------------------------------------------------

SETATTR3args ==
    Struct(<< <<"object", nfs_fh3>>, <<"new_attributes", sattr3>>,
              <<"guard", Opt(nfs_fh3)>> >>)
SETATTR3resok == Struct(<< <<"obj_wcc", wcc_data>> >>)
SETATTR3res == Res(SETATTR3resok)

GETATTR3args == Struct(<< <<"object", nfs_fh3>> >>)
GETATTR3resok == Struct(<< <<"obj_attributes", fattr3>> >>)
GETATTR3res == Res(GETATTR3resok)

LOOKUP3args == Struct(<< <<"what_dir", nfs_fh3>>, <<"what_name", string>> >>)
LOOKUP3resok ==
    Struct(<< <<"object", nfs_fh3>>, <<"obj_attributes", post_op_attr>>,
              <<"dir_attributes", post_op_attr>> >>)
LOOKUP3res == Res(LOOKUP3resok)

createmode3 == Enum({0, 1, EXCLUSIVE})

\* The attributes are sent in every mode, the verifier after them.
CREATE3args ==
    Struct(<< <<"where_dir", nfs_fh3>>, <<"where_name", string>>,
              <<"how_mode", createmode3>>, <<"how_attributes", sattr3>>,
              <<"how_verf", When("how_mode", {<<EXCLUSIVE>>}, createverf3)>> >>)

\* What CREATE, MKDIR, SYMLINK and MKNOD return: the handle last, and no flag
\* to say whether there is one.
NewObject ==
    Struct(<< <<"obj_attributes", post_op_attr>>, <<"dir_wcc", wcc_data>>,
              <<"object", Bare(nfs_fh3)>> >>)
CREATE3resok == NewObject
CREATE3res == Res(CREATE3resok)

READ3args ==
    Struct(<< <<"file", nfs_fh3>>, <<"offset", u64>>, <<"count", u32>> >>)
READ3resok ==
    Struct(<< <<"file_attributes", post_op_attr>>, <<"count", u64>>,
              <<"eof", boolean>>, <<"data", bytes>> >>)
READ3res == Res(READ3resok)

\* The caller sets count to the size of data.
WRITE3args ==
    Struct(<< <<"file", nfs_fh3>>, <<"offset", u64>>, <<"count", dataCount>>,
              <<"stable", Enum({0, 1, 2})>>, <<"data", bytes>> >>)
WRITE3resok ==
    Struct(<< <<"file_attributes", post_op_attr>>, <<"count", u32>>,
              <<"committed", Enum({2})>>, <<"verf", writeverf3>> >>)
WRITE3res == Res(WRITE3resok)

ACCESS3args == Struct(<< <<"object", nfs_fh3>>, <<"access", u32>> >>)
ACCESS3resok ==
    Struct(<< <<"obj_attributes", post_op_attr>>, <<"access", u32>> >>)
ACCESS3res == Res(ACCESS3resok)

READLINK3args == Struct(<< <<"symlink", nfs_fh3>> >>)
READLINK3resok ==
    Struct(<< <<"symlink_attributes", post_op_attr>>, <<"data", string>> >>)
READLINK3res == Res(READLINK3resok)

MKDIR3args ==
    Struct(<< <<"where_dir", nfs_fh3>>, <<"where_name", string>>,
              <<"attributes", sattr3>> >>)
MKDIR3resok == NewObject
MKDIR3res == Res(MKDIR3resok)

SYMLINK3args ==
    Struct(<< <<"where_dir", nfs_fh3>>, <<"where_name", string>>,
              <<"symlink_attributes", sattr3>>, <<"symlink_data", string>> >>)
SYMLINK3resok == NewObject
SYMLINK3res == Res(SYMLINK3resok)

ftype4 == Enum({4, 7})

MKNOD3args ==
    Struct(<< <<"where_dir", nfs_fh3>>, <<"where_name", string>>,
              <<"what_type", ftype4>>, <<"what_attributes", sattr3>> >>)
MKNOD3resok == NewObject
MKNOD3res == Res(MKNOD3resok)

REMOVE3args ==
    Struct(<< <<"object_dir", nfs_fh3>>, <<"object_name", string>> >>)
REMOVE3resok == Struct(<< <<"dir_wcc", wcc_data>> >>)
REMOVE3res == Res(REMOVE3resok)

RMDIR3args ==
    Struct(<< <<"object_dir", nfs_fh3>>, <<"object_name", string>> >>)
RMDIR3resok == Struct(<< <<"dir_wcc", wcc_data>> >>)
RMDIR3res == Res(RMDIR3resok)

RENAME3args ==
    Struct(<< <<"from_dir", nfs_fh3>>, <<"from_name", string>>,
              <<"to_dir", nfs_fh3>>, <<"to_name", string>> >>)
RENAME3resok ==
    Struct(<< <<"fromdir_wcc", wcc_data>>, <<"todir_wcc", wcc_data>> >>)
RENAME3res == Res(RENAME3resok)

LINK3args ==
    Struct(<< <<"file", nfs_fh3>>, <<"link_dir", nfs_fh3>>,
              <<"link_name", string>> >>)
LINK3resok ==
    Struct(<< <<"file_attributes", post_op_attr>>,
              <<"linkdir_wcc", wcc_data>> >>)
LINK3res == Res(LINK3resok)

entry3 ==
    Struct(<< <<"fileid", u64>>, <<"name", string>>, <<"cookie", u64>> >>)
dirlist3 == Struct(<< <<"entries", List(entry3)>>, <<"eof", boolean>> >>)

READDIR3args ==
    Struct(<< <<"dir", nfs_fh3>>, <<"cookie", u64>>, <<"cookieverf", u64>>,
              <<"count", u32>> >>)
READDIR3resok ==
    Struct(<< <<"dir_attributes", post_op_attr>>, <<"cookieverf", u64>>,
              <<"reply", dirlist3>> >>)
READDIR3res == Res(READDIR3resok)

\* The handle before the attributes, and no flag for it.
entryplus3 ==
    Struct(<< <<"fileid", u64>>, <<"name", string>>, <<"cookie", u64>>,
              <<"name_handle", Bare(nfs_fh3)>>,
              <<"name_attributes", post_op_attr>> >>)
dirlistplus3 ==
    Struct(<< <<"entries", List(entryplus3)>>, <<"eof", boolean>> >>)

READDIRPLUS3args ==
    Struct(<< <<"dir", nfs_fh3>>, <<"cookie", u64>>, <<"cookieverf", u64>>,
              <<"dircount", u32>>, <<"maxcount", u32>> >>)
READDIRPLUS3resok ==
    Struct(<< <<"dir_attributes", post_op_attr>>, <<"cookieverf", u64>>,
              <<"reply", dirlistplus3>> >>)
READDIRPLUS3res == Res(READDIRPLUS3resok)

FSSTAT3args == Struct(<< <<"fsroot", nfs_fh3>> >>)
FSSTAT3resok ==
    Struct(<< <<"obj_attributes", post_op_attr>>, <<"tbytes", u64>>,
              <<"fbytes", u64>>, <<"abytes", u64>>, <<"tfiles", u64>>,
              <<"ffiles", u64>>, <<"afiles", u64>>, <<"invarsec", u32>> >>)
FSSTAT3res == Res(FSSTAT3resok)

FSINFO3args == Struct(<< <<"fsroot", nfs_fh3>> >>)

FSINFO3resok ==
    Struct(<< <<"obj_attributes", post_op_attr>>, <<"rtmax", u32>>,
              <<"rtpref", u32>>, <<"rtmult", u32>>, <<"wtmax", u32>>,
              <<"wtpref", u32>>, <<"wtmult", u32>>, <<"dtpref", u32>>,
              <<"maxfilesize", u64>>, <<"time_delta_seconds", u32>>,
              <<"time_delta_nseconds", u32>>, <<"properties", u32>> >>)
FSINFO3res == Res(FSINFO3resok)

PATHCONF3args == Struct(<< <<"object", nfs_fh3>> >>)
pathconf3_resok_info ==
    Struct(<< <<"linkmax", u32>>, <<"name_max", u32>>, <<"no_trunc", boolean>>,
              <<"chown_restricted", boolean>>, <<"case_insensitive", boolean>>,
              <<"case_preserving", boolean>> >>)
PATHCONF3resok ==
    Struct(<< <<"obj_attributes", post_op_attr>>,
              <<"info", pathconf3_resok_info>> >>)
PATHCONF3res == Res(PATHCONF3resok)

COMMIT3args ==
    Struct(<< <<"file", nfs_fh3>>, <<"offset", u64>>, <<"count", u32>> >>)
\* A wcc_data without its first half.
COMMIT3resok ==
    Struct(<< <<"file_wcc", Struct(<< <<"after", post_op_attr>> >>)>>,
              <<"verf", writeverf3>> >>)
COMMIT3res == Res(COMMIT3resok)

-----------------------------------------------------------------------------

args ==
    [GETATTR |-> GETATTR3args, SETATTR |-> SETATTR3args, LOOKUP |-> LOOKUP3args,
     ACCESS |-> ACCESS3args, READLINK |-> READLINK3args, READ |-> READ3args,
     WRITE |-> WRITE3args, CREATE |-> CREATE3args, MKDIR |-> MKDIR3args,
     SYMLINK |-> SYMLINK3args, MKNOD |-> MKNOD3args, REMOVE |-> REMOVE3args,
     RMDIR |-> RMDIR3args, RENAME |-> RENAME3args, LINK |-> LINK3args,
     READDIR |-> READDIR3args, READDIRPLUS |-> READDIRPLUS3args,
     FSSTAT |-> FSSTAT3args, FSINFO |-> FSINFO3args,
     PATHCONF |-> PATHCONF3args, COMMIT |-> COMMIT3args]

res ==
    [GETATTR |-> GETATTR3res, SETATTR |-> SETATTR3res, LOOKUP |-> LOOKUP3res,
     ACCESS |-> ACCESS3res, READLINK |-> READLINK3res, READ |-> READ3res,
     WRITE |-> WRITE3res, CREATE |-> CREATE3res, MKDIR |-> MKDIR3res,
     SYMLINK |-> SYMLINK3res, MKNOD |-> MKNOD3res, REMOVE |-> REMOVE3res,
     RMDIR |-> RMDIR3res, RENAME |-> RENAME3res, LINK |-> LINK3res,
     READDIR |-> READDIR3res, READDIRPLUS |-> READDIRPLUS3res,
     FSSTAT |-> FSSTAT3res, FSINFO |-> FSINFO3res,
     PATHCONF |-> PATHCONF3res, COMMIT |-> COMMIT3res]

=============================================================================
