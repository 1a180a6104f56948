------------------------------ MODULE NfsXdrC ------------------------------
(***************************************************************************)
(* The NFSv3 types as nfs3_xdr.c packs and unpacks them.  Unpacking never  *)
(* fails; a field of kind Local or OptLocal is read into a local variable  *)
(* that holds an indeterminate value when the read finds too few words.    *)
(***************************************************************************)
CONSTANTS   \* the types of XdrWire
    u32, u64, boolean, string, opaque, bytes, dataCount, Unread, Junk,
    Words(_), Local(_), Opt(_), OptLocal(_), Flagged(_, _, _, _),
    When(_, _, _), List(_), Struct(_)

NFS3_OK == 0
NFS3ERR_NOENT == 2
EXCLUSIVE == 2

\* The head of every result.
Res_unread(resok) ==
    Struct(<< <<"status", Unread>>,
              <<"resok", When("status", {<<NFS3_OK>>}, Struct(resok))>> >>)
Res(resok) ==
    Struct(<< <<"status", Local({NFS3_OK, NFS3ERR_NOENT})>>,
              <<"resok", When("status", {<<NFS3_OK>>}, Struct(resok))>> >>)

writeverf3 == Words(2)
nfs_fh3 == opaque
nfstime3 == Struct(<< <<"seconds", u32>>, <<"nseconds", u32>> >>)
specdata3 == Struct(<< <<"specdata1", u32>>, <<"specdata2", u32>> >>)

fattr3 ==
    Struct(<< <<"type", Local({2})>>, <<"mode", u32>>, <<"nlink", u32>>,
              <<"uid", u32>>, <<"gid", u32>>, <<"size", u64>>, <<"used", u64>>,
              <<"rdev", specdata3>>, <<"fsid", u64>>, <<"fileid", u64>>,
              <<"atime", nfstime3>>, <<"mtime", nfstime3>>,
              <<"ctime", nfstime3>> >>)

post_op_attr == Opt(fattr3)
wcc_attr ==
    Struct(<< <<"size", u64>>, <<"mtime", nfstime3>>, <<"ctime", nfstime3>> >>)
pre_op_attr == Opt(wcc_attr)
wcc_data == Struct(<< <<"before", pre_op_attr>>, <<"after", post_op_attr>> >>)

\* A time is set when time_how is 2.
sattr3_time_flag ==
    Struct(<< <<"mode", OptLocal(u32)>>, <<"uid", OptLocal(u32)>>,
              <<"gid", OptLocal(u32)>>, <<"size", OptLocal(u64)>>,
              <<"atime", OptLocal(nfstime3)>>, <<"mtime", OptLocal(nfstime3)>> >>)
sattr3 ==
    Struct(<< <<"mode", OptLocal(u32)>>, <<"uid", OptLocal(u32)>>,
              <<"gid", OptLocal(u32)>>, <<"size", OptLocal(u64)>>,
              <<"atime", Flagged(2, FALSE, TRUE, nfstime3)>>,
              <<"mtime", Flagged(2, FALSE, TRUE, nfstime3)>> >>)

createverf3 == Words(2)

entry3 ==
    Struct(<< <<"fileid", u64>>, <<"name", string>>, <<"cookie", u64>> >>)
dirlist3 == Struct(<< <<"entries", List(entry3)>>, <<"eof", boolean>> >>)
entryplus3 ==
    Struct(<< <<"fileid", u64>>, <<"name", string>>, <<"cookie", u64>>,
              <<"name_attributes", post_op_attr>>,
              <<"name_handle", OptLocal(nfs_fh3)>> >>)
dirlistplus3 ==
    Struct(<< <<"entries", List(entryplus3)>>, <<"eof", boolean>> >>)

-----------------------------------------------------------------------------

GETATTR3args == Struct(<< <<"object", nfs_fh3>> >>)
GETATTR3res == Res(<< <<"obj_attributes", fattr3>> >>)

SETATTR3args ==
    Struct(<< <<"object", nfs_fh3>>, <<"new_attributes", sattr3>>,
              <<"guard", Opt(nfs_fh3)>> >>)
SETATTR3res == Res(<< <<"obj_wcc", wcc_data>> >>)

LOOKUP3args == Struct(<< <<"what_dir", nfs_fh3>>, <<"what_name", string>> >>)
LOOKUP3res ==
    Res(<< <<"object", nfs_fh3>>, <<"obj_attributes", post_op_attr>>,
           <<"dir_attributes", post_op_attr>> >>)

ACCESS3args == Struct(<< <<"object", nfs_fh3>>, <<"access", u32>> >>)
ACCESS3res == Res(<< <<"obj_attributes", post_op_attr>>, <<"access", u32>> >>)

READLINK3args == Struct(<< <<"symlink", nfs_fh3>> >>)
READLINK3res ==
    Res(<< <<"symlink_attributes", post_op_attr>>, <<"data", string>> >>)

READ3args ==
    Struct(<< <<"file", nfs_fh3>>, <<"offset", u64>>, <<"count", u32>> >>)
READ3res ==
    Res(<< <<"file_attributes", post_op_attr>>, <<"count", u32>>,
           <<"eof", boolean>>, <<"data", bytes>> >>)

\* count is the length of data, and data is packed by it.
WRITE3args ==
    Struct(<< <<"file", nfs_fh3>>, <<"offset", u64>>, <<"count", dataCount>>,
              <<"stable", Local({0, 1, 2})>>, <<"data", bytes>> >>)
\* The one result whose failure arm is coded.
WRITE3res_post_op ==
    Res(<< <<"file_wcc", Struct(<< <<"after", post_op_attr>> >>)>>,
           <<"count", u32>>, <<"committed", Local({2})>>,
           <<"verf", writeverf3>> >>)
WRITE3res ==
    Struct(<< <<"status", Local({NFS3_OK, NFS3ERR_NOENT})>>,
              <<"resok", When("status", {<<NFS3_OK>>},
                 Struct(<< <<"file_wcc", wcc_data>>, <<"count", u32>>,
                           <<"committed", Local({2})>>,
                           <<"verf", writeverf3>> >>))>>,
              <<"resfail", When("status", {<<NFS3ERR_NOENT>>, <<Junk>>},
                 Struct(<< <<"file_wcc", wcc_data>> >>))>> >>)

CREATE3args ==
    Struct(<< <<"where_dir", nfs_fh3>>, <<"where_name", string>>,
              <<"how_mode", Local({0, 1, EXCLUSIVE})>>,
              <<"how_verf", When("how_mode", {<<EXCLUSIVE>>}, createverf3)>>,
              <<"how_attributes", When("how_mode", {<<0>>, <<1>>}, sattr3)>> >>)
\* An empty handle is no handle.
NewObject ==
    << <<"object", OptLocal(nfs_fh3)>>, <<"obj_attributes", post_op_attr>>,
       <<"dir_wcc", wcc_data>> >>
CREATE3res == Res(NewObject)

MKDIR3args ==
    Struct(<< <<"where_dir", nfs_fh3>>, <<"where_name", string>>,
              <<"attributes", sattr3>> >>)
MKDIR3res == Res(NewObject)

SYMLINK3args ==
    Struct(<< <<"where_dir", nfs_fh3>>, <<"where_name", string>>,
              <<"symlink_attributes", sattr3>>, <<"symlink_data", string>> >>)
SYMLINK3res == Res(NewObject)

MKNOD3args ==
    Struct(<< <<"where_dir", nfs_fh3>>, <<"where_name", string>>,
              <<"what_type", Local({4, 7})>>, <<"what_attributes", sattr3>> >>)
MKNOD3res == Res(NewObject)

REMOVE3args ==
    Struct(<< <<"object_dir", nfs_fh3>>, <<"object_name", string>> >>)
REMOVE3res == Res(<< <<"dir_wcc", wcc_data>> >>)

RMDIR3args ==
    Struct(<< <<"object_dir", nfs_fh3>>, <<"object_name", string>> >>)
RMDIR3res == Res(<< <<"dir_wcc", wcc_data>> >>)

RENAME3args ==
    Struct(<< <<"from_dir", nfs_fh3>>, <<"from_name", string>>,
              <<"to_dir", nfs_fh3>>, <<"to_name", string>> >>)
RENAME3res == Res(<< <<"fromdir_wcc", wcc_data>>, <<"todir_wcc", wcc_data>> >>)

LINK3args ==
    Struct(<< <<"file", nfs_fh3>>, <<"link_dir", nfs_fh3>>,
              <<"link_name", string>> >>)
LINK3res ==
    Res(<< <<"file_attributes", post_op_attr>>, <<"linkdir_wcc", wcc_data>> >>)

READDIR3args ==
    Struct(<< <<"dir", nfs_fh3>>, <<"cookie", u64>>, <<"cookieverf", u64>>,
              <<"count", u32>> >>)
READDIR3res ==
    Res(<< <<"dir_attributes", post_op_attr>>, <<"cookieverf", u64>>,
           <<"reply", dirlist3>> >>)

READDIRPLUS3args ==
    Struct(<< <<"dir", nfs_fh3>>, <<"cookie", u64>>, <<"cookieverf", u64>>,
              <<"dircount", u32>>, <<"maxcount", u32>> >>)
READDIRPLUS3res ==
    Res(<< <<"dir_attributes", post_op_attr>>, <<"cookieverf", u64>>,
           <<"reply", dirlistplus3>> >>)

FSSTAT3args == Struct(<< <<"fsroot", nfs_fh3>> >>)
FSSTAT3res ==
    Res(<< <<"obj_attributes", post_op_attr>>, <<"tbytes", u64>>,
           <<"fbytes", u64>>, <<"abytes", u64>>, <<"tfiles", u64>>,
           <<"ffiles", u64>>, <<"afiles", u64>>, <<"invarsec", u32>> >>)

FSINFO3args == Struct(<< <<"fsroot", nfs_fh3>> >>)
FSINFO3res ==
    Res(<< <<"obj_attributes", post_op_attr>>, <<"rtmax", u32>>,
           <<"rtpref", u32>>, <<"rtmult", u32>>, <<"wtmax", u32>>,
           <<"wtpref", u32>>, <<"wtmult", u32>>, <<"dtpref", u32>>,
           <<"maxfilesize", u64>>, <<"time_delta_seconds", u32>>,
           <<"time_delta_nseconds", u32>>, <<"properties", u32>> >>)

PATHCONF3args == Struct(<< <<"object", nfs_fh3>> >>)
PATHCONF3res ==
    Res(<< <<"obj_attributes", post_op_attr>>,
           <<"info", Struct(<< <<"linkmax", Local({4})>>, <<"name_max", Local({5})>>,
                <<"no_trunc", boolean>>, <<"chown_restricted", boolean>>,
                <<"case_insensitive", boolean>>,
                <<"case_preserving", boolean>> >>)>> >>)

COMMIT3args ==
    Struct(<< <<"file", nfs_fh3>>, <<"offset", u64>>, <<"count", u32>> >>)
\* A wcc_data without its first half.
COMMIT3res ==
    Res(<< <<"file_wcc", Struct(<< <<"after", post_op_attr>> >>)>>,
           <<"verf", writeverf3>> >>)

-----------------------------------------------------------------------------

args ==
    [GETATTR |-> GETATTR3args, SETATTR |-> SETATTR3args, LOOKUP |-> LOOKUP3args,
     ACCESS |-> ACCESS3args, READLINK |-> READLINK3args, READ |-> READ3args,
     WRITE |-> WRITE3args, CREATE |-> CREATE3args, MKDIR |-> MKDIR3args,
     SYMLINK |-> SYMLINK3args, MKNOD |-> MKNOD3args, REMOVE |-> REMOVE3args,
     RMDIR |-> RMDIR3args, RENAME |-> RENAME3args, LINK |-> LINK3args,
     READDIR |-> READDIR3args, READDIRPLUS |-> READDIRPLUS3args,
     FSSTAT |-> FSSTAT3args, FSINFO |-> FSINFO3args,
     PATHCONF |-> PATHCONF3args, COMMIT |-> COMMIT3args]

res ==
    [GETATTR |-> GETATTR3res, SETATTR |-> SETATTR3res, LOOKUP |-> LOOKUP3res,
     ACCESS |-> ACCESS3res, READLINK |-> READLINK3res, READ |-> READ3res,
     WRITE |-> WRITE3res, CREATE |-> CREATE3res, MKDIR |-> MKDIR3res,
     SYMLINK |-> SYMLINK3res, MKNOD |-> MKNOD3res, REMOVE |-> REMOVE3res,
     RMDIR |-> RMDIR3res, RENAME |-> RENAME3res, LINK |-> LINK3res,
     READDIR |-> READDIR3res, READDIRPLUS |-> READDIRPLUS3res,
     FSSTAT |-> FSSTAT3res, FSINFO |-> FSINFO3res,
     PATHCONF |-> PATHCONF3res, COMMIT |-> COMMIT3res]

=============================================================================
