------------------------------- MODULE Vaults -------------------------------
(***************************************************************************)
(* The files a node keeps its secrets in: the identity                     *)
(* (core/identity/vault.rs), the API token (core/api_token.rs) and two TLS *)
(* identities, each a certificate and a key (tls.rs of both protocols). A  *)
(* save writes a temporary file, whose name all processes share, and       *)
(* renames it. A secret is the number of the generation it came from.      *)
(***************************************************************************)
EXTENDS Naturals

CONSTANTS Process,       \* processes that use the vaults
          MaxMinted,     \* bound on the secrets generated
          Absent         \* a file that does not exist

VARIABLES file,          \* file[f]: what is stored under the final name
          tmp,           \* tmp[f]: what is stored under the temporary name
          saving,        \* saving[p]: the save that p is in
          minted         \* secrets generated so far

vaultVars == <<file, tmp, saving, minted>>

Vault == {"localsend", "native"}
cert_path == [localsend |-> "localsend_cert", native |-> "native_cert"]
key_path == [localsend |-> "localsend_key", native |-> "native_key"]
File == {"identity", "token", "localsend_cert", "localsend_key", "native_cert", "native_key"}

Empty == 0               \* a file that was created and not yet written
Stored == 0 .. MaxMinted

ASSUME VaultAssumption == MaxMinted \in Nat /\ Absent \notin File /\ Absent \notin Stored

NoSave == [file |-> Absent, value |-> Empty, step |-> "none", handle |-> "none"]
Save == [file : File, value : Stored, step : {"open", "write", "rename"},
         handle : {"none", "tmp", "file", "gone"}]

VaultInit ==
  /\ file = [f \in File |-> Absent]
  /\ tmp = [f \in File |-> Absent]
  /\ saving = [p \in Process |-> NoSave]
  /\ minted = 0

Saves(f, value) == [file |-> f, value |-> value, step |-> "open", handle |-> "none"]

(***************************************************************************)
(* Loading: nothing stored, a secret, or an error                          *)
(***************************************************************************)
\* Mutant: what is stored is not looked at, so that every start makes a new one.
load_ignores(f) == "none"

\* The identity has to be 32 bytes long and the token not blank.
load(f) ==
  IF file[f] = Absent THEN "none" ELSE IF file[f] = Empty THEN "error" ELSE "found"

\* Mutant: only the certificate is asked for.
load_pair_cert(v) == IF file[cert_path[v]] = Absent THEN "none" ELSE "found"

\* A certificate without its key, or the reverse, is an error for good.
load_pair(v) ==
  LET cert == file[cert_path[v]]
      key == file[key_path[v]]
  IN  IF cert = Absent /\ key = Absent THEN "none"
      ELSE IF cert # Absent /\ key # Absent THEN "found"
      ELSE "error"

(***************************************************************************)
(* Saving                                                                  *)
(***************************************************************************)
\* Creates the temporary file or truncates the one that is there.
open_tmp(p) ==
  /\ saving[p].step = "open"
  /\ tmp' = [tmp EXCEPT ![saving[p].file] = Empty]
  /\ saving' = [saving EXCEPT ![p].step = "write", ![p].handle = "tmp"]
  /\ UNCHANGED <<file, minted>>

\* The bytes go to the file that was opened, wherever it is named by now.
write_tmp(p) ==
  LET s == saving[p] IN
  /\ s.step = "write"
  /\ file' = IF s.handle = "file" THEN [file EXCEPT ![s.file] = s.value] ELSE file
  /\ tmp' = IF s.handle = "tmp" THEN [tmp EXCEPT ![s.file] = s.value] ELSE tmp
  /\ saving' = [saving EXCEPT ![p].step = "rename"]
  /\ UNCHANGED minted

\* Another process may have renamed the temporary file away.
Renames(p) == saving[p].step = "rename" /\ tmp[saving[p].file] # Absent
RenameFails(p) == saving[p].step = "rename" /\ tmp[saving[p].file] = Absent

\* Where a handle is after a rename of its name.
Follows == [none |-> "none", tmp |-> "file", file |-> "gone", gone |-> "gone"]

\* What the rename does, and to the handles of others on the same name.
rename_tmp(p, after) ==
  LET f == saving[p].file
      Moved(q) == IF saving[q].file = f THEN [saving[q] EXCEPT !.handle = Follows[@]]
                                        ELSE saving[q]
  IN  /\ Renames(p)
      /\ file' = [file EXCEPT ![f] = tmp[f]]
      /\ tmp' = [tmp EXCEPT ![f] = Absent]
      /\ saving' = [q \in Process |-> IF q = p THEN after ELSE Moved(q)]
=============================================================================
