------------------------------ MODULE FileStore ------------------------------
(***************************************************************************)
(* The local storage provider: uploaded files under their storage keys.    *)
(* A file is written under a temporary name, synced and renamed, so a      *)
(* reader sees all of it or nothing.  Nothing ties it to the database.     *)
(***************************************************************************)
CONSTANT Keys   \* storage keys; every upload draws a new one

VARIABLE files  \* per key: "none", "temp" (being written) or "kept"

FilesTypeOK == files \in [Keys -> {"none", "temp", "kept"}]

NoFiles == files = [k \in Keys |-> "none"]

(* Upload up to the rename: the temporary file is open. *)
Open(k) == files[k] = "none" /\ files' = [files EXCEPT ![k] = "temp"]

(* The copy is complete, of the announced size and synced: renamed. *)
Rename(k) == files[k] = "temp" /\ files' = [files EXCEPT ![k] = "kept"]

(* The copy fails, or its context is cancelled: the temporary file goes. *)
Discard(k) == files[k] = "temp" /\ files' = [files EXCEPT ![k] = "none"]

(* Delete: a missing file is no error; a failing disk leaves it. *)
Delete(k) ==
  \/ files' = [files EXCEPT ![k] = "none"]
  \/ files[k] = "kept" /\ files' = files

(* Download finds the file under its key. *)
Downloadable(k) == files[k] = "kept"
=============================================================================
