---------------------------- MODULE NfsXdrTirpc ----------------------------
(***************************************************************************)
(* The filters of nfs3_xdr.cpp, which the libtirpc build hands to          *)
(* clnt_call.  One filter both encodes and decodes.  The limits the        *)
(* filters put on lengths (64, 255, 4096 and 65536 bytes) lie beyond the   *)
(* lengths sampled here.                                                   *)
(***************************************************************************)
CONSTANTS   \* the types of XdrWire
    u32, u64, boolean, string, opaque, bytes, dataCount, Words(_), Enum(_),
    Opt(_), Bare(_), Lost(_), When(_, _, _), List(_), Struct(_)

NFS3_OK == 0
NFS3ERR_NOENT == 2
EXCLUSIVE == 2

\* The head of every result filter.
Res(resok) ==
    Struct(<< <<"status", Enum({NFS3_OK, NFS3ERR_NOENT})>>,
              <<"resok", When("status", {<<NFS3_OK>>}, Struct(resok))>> >>)

specdata3 == Struct(<< <<"specdata1", u32>>, <<"specdata2", u32>> >>)
nfstime3 == Struct(<< <<"seconds", u32>>, <<"nseconds", u32>> >>)
writeverf3 == Words(2)
createverf3 == Words(2)
nfs_fh3 == opaque

fattr3 ==
    Struct(<< <<"type", Enum({2})>>, <<"mode", u32>>, <<"nlink", u32>>,
              <<"uid", u32>>, <<"gid", u32>>, <<"size", u64>>, <<"used", u64>>,
              <<"rdev", specdata3>>, <<"fsid", u64>>, <<"fileid", u64>>,
              <<"atime", nfstime3>>, <<"mtime", nfstime3>>,
              <<"ctime", nfstime3>> >>)

post_op_attr == Opt(fattr3)
wcc_attr ==
    Struct(<< <<"size", u64>>, <<"mtime", nfstime3>>, <<"ctime", nfstime3>> >>)
pre_op_attr == Opt(wcc_attr)
wcc_data == Struct(<< <<"before", pre_op_attr>>, <<"after", post_op_attr>> >>)

\* The flag of a time is 0 or 1, where RFC 1813 has 0, 1 or 2.
sattr3 ==
    Struct(<< <<"mode", Opt(u32)>>, <<"uid", Opt(u32)>>, <<"gid", Opt(u32)>>,
              <<"size", Opt(u64)>>, <<"atime", Opt(nfstime3)>>,
              <<"mtime", Opt(nfstime3)>> >>)

\* Decoding allocates each entry and links it nowhere.
entry3_list ==
    Lost(List(Struct(<< <<"fileid", u64>>, <<"name", string>>,
                        <<"cookie", u64>> >>)))
dirlist3 == Struct(<< <<"entries", entry3_list>>, <<"eof", boolean>> >>)
entryplus3_list ==
    Lost(List(Struct(<< <<"fileid", u64>>, <<"name", string>>,
                        <<"cookie", u64>>, <<"name_handle", Bare(nfs_fh3)>>,
                        <<"name_attributes", post_op_attr>> >>)))
dirlistplus3 == Struct(<< <<"entries", entryplus3_list>>, <<"eof", boolean>> >>)

-----------------------------------------------------------------------------

GETATTR3args == Struct(<< <<"object", nfs_fh3>> >>)
GETATTR3res == Res(<< <<"obj_attributes", fattr3>> >>)

SETATTR3args ==
    Struct(<< <<"object", nfs_fh3>>, <<"new_attributes", sattr3>>,
              <<"guard", Opt(nfs_fh3)>> >>)
SETATTR3res == Res(<< <<"obj_wcc", wcc_data>> >>)

LOOKUP3args == Struct(<< <<"what_dir", nfs_fh3>>, <<"what_name", string>> >>)
LOOKUP3res ==
    Res(<< <<"object", nfs_fh3>>, <<"obj_attributes", post_op_attr>>,
           <<"dir_attributes", post_op_attr>> >>)

ACCESS3args == Struct(<< <<"object", nfs_fh3>>, <<"access", u32>> >>)
ACCESS3res == Res(<< <<"obj_attributes", post_op_attr>>, <<"access", u32>> >>)

READLINK3args == Struct(<< <<"symlink", nfs_fh3>> >>)
READLINK3res ==
    Res(<< <<"symlink_attributes", post_op_attr>>, <<"data", string>> >>)

READ3args ==
    Struct(<< <<"file", nfs_fh3>>, <<"offset", u64>>, <<"count", u32>> >>)
READ3res ==
    Res(<< <<"file_attributes", post_op_attr>>, <<"count", u64>>,
           <<"eof", boolean>>, <<"data", bytes>> >>)

\* Decoding leaves obj->data as it was.
WRITE3args ==
    Struct(<< <<"file", nfs_fh3>>, <<"offset", u64>>, <<"count", dataCount>>,
              <<"stable", Enum({0, 1, 2})>>, <<"data", Lost(bytes)>> >>)
WRITE3res ==
    Res(<< <<"file_attributes", post_op_attr>>, <<"count", u32>>,
           <<"committed", Enum({2})>>, <<"verf", writeverf3>> >>)

CREATE3args ==
    Struct(<< <<"where_dir", nfs_fh3>>, <<"where_name", string>>,
              <<"how_mode", Enum({0, 1, EXCLUSIVE})>>,
              <<"how_attributes", sattr3>>,
              <<"how_verf", When("how_mode", {<<EXCLUSIVE>>}, createverf3)>> >>)
NewObject ==
    << <<"obj_attributes", post_op_attr>>, <<"dir_wcc", wcc_data>>,
       <<"object", Bare(nfs_fh3)>> >>
CREATE3res == Res(NewObject)

MKDIR3args ==
    Struct(<< <<"where_dir", nfs_fh3>>, <<"where_name", string>>,
              <<"attributes", sattr3>> >>)
MKDIR3res == Res(NewObject)

SYMLINK3args ==
    Struct(<< <<"where_dir", nfs_fh3>>, <<"where_name", string>>,
              <<"symlink_attributes", sattr3>>, <<"symlink_data", string>> >>)
SYMLINK3res == Res(NewObject)

MKNOD3args ==
    Struct(<< <<"where_dir", nfs_fh3>>, <<"where_name", string>>,
              <<"what_type", Enum({4, 7})>>, <<"what_attributes", sattr3>> >>)
MKNOD3res == Res(NewObject)

REMOVE3args ==
    Struct(<< <<"object_dir", nfs_fh3>>, <<"object_name", string>> >>)
REMOVE3res == Res(<< <<"dir_wcc", wcc_data>> >>)

RMDIR3args ==
    Struct(<< <<"object_dir", nfs_fh3>>, <<"object_name", string>> >>)
RMDIR3res == Res(<< <<"dir_wcc", wcc_data>> >>)

RENAME3args ==
    Struct(<< <<"from_dir", nfs_fh3>>, <<"from_name", string>>,
              <<"to_dir", nfs_fh3>>, <<"to_name", string>> >>)
RENAME3res == Res(<< <<"fromdir_wcc", wcc_data>>, <<"todir_wcc", wcc_data>> >>)

LINK3args ==
    Struct(<< <<"file", nfs_fh3>>, <<"link_dir", nfs_fh3>>,
              <<"link_name", string>> >>)
LINK3res ==
    Res(<< <<"file_attributes", post_op_attr>>, <<"linkdir_wcc", wcc_data>> >>)

\* cookieverf is eight opaque bytes, copied from and to a uint64_t.
READDIR3args ==
    Struct(<< <<"dir", nfs_fh3>>, <<"cookie", u64>>, <<"cookieverf", Words(2)>>,
              <<"count", u32>> >>)
READDIR3res ==
    Res(<< <<"dir_attributes", post_op_attr>>, <<"cookieverf", Words(2)>>,
           <<"reply", dirlist3>> >>)

READDIRPLUS3args ==
    Struct(<< <<"dir", nfs_fh3>>, <<"cookie", u64>>, <<"cookieverf", Words(2)>>,
              <<"dircount", u32>>, <<"maxcount", u32>> >>)
READDIRPLUS3res ==
    Res(<< <<"dir_attributes", post_op_attr>>, <<"cookieverf", Words(2)>>,
           <<"reply", dirlistplus3>> >>)

FSSTAT3args == Struct(<< <<"fsroot", nfs_fh3>> >>)
FSSTAT3res ==
    Res(<< <<"obj_attributes", post_op_attr>>, <<"tbytes", u64>>,
           <<"fbytes", u64>>, <<"abytes", u64>>, <<"tfiles", u64>>,
           <<"ffiles", u64>>, <<"afiles", u64>>, <<"invarsec", u32>> >>)

FSINFO3args == Struct(<< <<"fsroot", nfs_fh3>> >>)
FSINFO3res ==
    Res(<< <<"obj_attributes", post_op_attr>>, <<"rtmax", u32>>,
           <<"rtpref", u32>>, <<"rtmult", u32>>, <<"wtmax", u32>>,
           <<"wtpref", u32>>, <<"wtmult", u32>>, <<"dtpref", u32>>,
           <<"maxfilesize", u64>>, <<"time_delta_seconds", u32>>,
           <<"time_delta_nseconds", u32>>, <<"properties", u32>> >>)

PATHCONF3args == Struct(<< <<"object", nfs_fh3>> >>)
PATHCONF3res ==
    Res(<< <<"obj_attributes", post_op_attr>>,
           <<"info", Struct(<< <<"linkmax", u32>>, <<"name_max", u32>>,
                <<"no_trunc", boolean>>, <<"chown_restricted", boolean>>,
                <<"case_insensitive", boolean>>,
                <<"case_preserving", boolean>> >>)>> >>)

COMMIT3args ==
    Struct(<< <<"file", nfs_fh3>>, <<"offset", u64>>, <<"count", u32>> >>)
\* A wcc_data without its first half.
COMMIT3res ==
    Res(<< <<"file_wcc", Struct(<< <<"after", post_op_attr>> >>)>>,
           <<"verf", writeverf3>> >>)

-----------------------------------------------------------------------------

args ==
    [GETATTR |-> GETATTR3args, SETATTR |-> SETATTR3args, LOOKUP |-> LOOKUP3args,
     ACCESS |-> ACCESS3args, READLINK |-> READLINK3args, READ |-> READ3args,
     WRITE |-> WRITE3args, CREATE |-> CREATE3args, MKDIR |-> MKDIR3args,
     SYMLINK |-> SYMLINK3args, MKNOD |-> MKNOD3args, REMOVE |-> REMOVE3args,
     RMDIR |-> RMDIR3args, RENAME |-> RENAME3args, LINK |-> LINK3args,
     READDIR |-> READDIR3args, READDIRPLUS |-> READDIRPLUS3args,
     FSSTAT |-> FSSTAT3args, FSINFO |-> FSINFO3args,
     PATHCONF |-> PATHCONF3args, COMMIT |-> COMMIT3args]

res ==
    [GETATTR |-> GETATTR3res, SETATTR |-> SETATTR3res, LOOKUP |-> LOOKUP3res,
     ACCESS |-> ACCESS3res, READLINK |-> READLINK3res, READ |-> READ3res,
     WRITE |-> WRITE3res, CREATE |-> CREATE3res, MKDIR |-> MKDIR3res,
     SYMLINK |-> SYMLINK3res, MKNOD |-> MKNOD3res, REMOVE |-> REMOVE3res,
     RMDIR |-> RMDIR3res, RENAME |-> RENAME3res, LINK |-> LINK3res,
     READDIR |-> READDIR3res, READDIRPLUS |-> READDIRPLUS3res,
     FSSTAT |-> FSSTAT3res, FSINFO |-> FSINFO3res,
     PATHCONF |-> PATHCONF3res, COMMIT |-> COMMIT3res]

=============================================================================
