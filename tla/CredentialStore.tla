--------------------------- MODULE CredentialStore ---------------------------
(***************************************************************************)
(* The credential files windows, callers and daemons share:                *)
(* packages/hunk/src/session/broker/credentials.ts.                        *)
(*                                                                         *)
(* On first use several processes find a file missing, each generates a    *)
(* key, and one of them publishes its own by a hard link.  Processes meet  *)
(* in the file system only, so the grain is the system call.  The file of  *)
(* a role is there or not, and nobody removes it: what readPrivateFile     *)
(* does after its lstat succeeds or fails with it.  Keys are the processes *)
(* that generated them; a damaged file is one parseStored rejects.         *)
(***************************************************************************)
EXTENDS Integers, FiniteSets

CONSTANTS Loader, Role, NoKey, Damaged, MaxKills

ASSUME CredentialAssumption ==
    /\ NoKey \notin Loader /\ Damaged \notin Loader /\ NoKey # Damaged
    /\ MaxKills \in Nat

VARIABLES
    published,   \* [Role -> whose key the file holds, NoKey or Damaged]
    temporary,   \* the temporary files there are, <<loader, role>>
    stage,       \* [Loader -> [Role -> where loadOrCreate is]]
    loadedKey,   \* [Loader -> [Role -> the key it returned]]
    killed,
    faulty       \* <<loader, role>>s whose file system failed them

credentialVars == <<published, temporary, stage, loadedKey, killed, faulty>>

CredentialInit ==
    /\ published \in [Role -> {NoKey, Damaged}]
    /\ temporary = {}
    /\ stage = [l \in Loader |-> [r \in Role |-> "read"]]
    /\ loadedKey = [l \in Loader |-> [r \in Role |-> NoKey]]
    /\ killed = {} /\ faulty = {}

At(l, r, place) == l \notin killed /\ stage[l][r] = place
Moves(l, r, place) == stage' = [stage EXCEPT ![l][r] = place]

(* readPrivateFile and parseStored, at the start and again at the end. *)
ReadStored(l, r, missing) ==
    /\ IF published[r] = NoKey
       THEN Moves(l, r, missing) /\ UNCHANGED loadedKey
       ELSE IF published[r] = Damaged
       THEN Moves(l, r, "failed") /\ UNCHANGED loadedKey
       ELSE /\ Moves(l, r, "loaded")
            /\ loadedKey' = [loadedKey EXCEPT ![l][r] = published[r]]
    /\ UNCHANGED <<published, temporary, killed, faulty>>

FirstRead(l, r) == At(l, r, "read") /\ ReadStored(l, r, "missing")

(* The read failed: only a file that is still missing is made.  (The catch *)
(* clause of loadOrCreate, which asks the file system again.)              *)
AskAgain(l, r) ==
    /\ At(l, r, "missing")
    /\ Moves(l, r, IF published[r] = NoKey THEN "generate" ELSE "failed")
    /\ UNCHANGED <<published, temporary, loadedKey, killed, faulty>>

(* createStored is awaited; then adoptPrivateFile writes the temporary     *)
(* file, completely, ...                                                   *)
WriteTemporary(l, r) ==
    /\ At(l, r, "generate")
    /\ temporary' = temporary \cup {<<l, r>>}
    /\ Moves(l, r, "link")
    /\ UNCHANGED <<published, loadedKey, killed, faulty>>

(* ... links it, which fails if another one was faster, ...                *)
Link_Replaces(l, r) ==
    /\ At(l, r, "link")
    /\ published' = [published EXCEPT ![r] = l]
    /\ Moves(l, r, "linked")
    /\ UNCHANGED <<temporary, loadedKey, killed, faulty>>
Link(l, r) ==
    /\ At(l, r, "link")
    /\ published' = [published EXCEPT ![r] = IF @ = NoKey THEN l ELSE @]
    /\ Moves(l, r, "linked")
    /\ UNCHANGED <<temporary, loadedKey, killed, faulty>>

(* ... and removes it on every path.                                       *)
RemoveTemporary(l, r) ==
    /\ stage[l][r] \in {"linked", "broken"} /\ l \notin killed
    /\ temporary' = temporary \ {<<l, r>>}
    /\ Moves(l, r, IF stage[l][r] = "linked" THEN "reread" ELSE "failed")
    /\ UNCHANGED <<published, loadedKey, killed, faulty>>

LastRead(l, r) == At(l, r, "reread") /\ ReadStored(l, r, "failed")

(* A write, a link or the fsync of the directory fails. *)
FileSystemFails(l, r) ==
    /\ l \notin killed /\ stage[l][r] \in {"generate", "link", "linked"}
    /\ faulty' = faulty \cup {<<l, r>>}
    /\ Moves(l, r, "broken")
    /\ UNCHANGED <<published, temporary, loadedKey, killed>>

(* The process needs its credentials again: a window's next startup        *)
(* attempt, a caller's next command.                                       *)
TriesAgain(l, r) ==
    /\ l \notin killed /\ stage[l][r] \in {"loaded", "failed"}
    /\ Moves(l, r, "read")
    /\ loadedKey' = [loadedKey EXCEPT ![l][r] = NoKey]
    /\ faulty' = faulty \ {<<l, r>>}
    /\ UNCHANGED <<published, temporary, killed>>

Killed(l) ==
    /\ l \notin killed /\ Cardinality(killed) < MaxKills
    /\ killed' = killed \cup {l}
    /\ UNCHANGED <<published, temporary, stage, loadedKey, faulty>>

LoaderStep(l, r) ==
    FirstRead(l, r) \/ AskAgain(l, r) \/ WriteTemporary(l, r) \/ Link(l, r)
      \/ RemoveTemporary(l, r) \/ LastRead(l, r)

CredentialNext ==
    \E l \in Loader :
        Killed(l) \/ \E r \in Role : LoaderStep(l, r) \/ FileSystemFails(l, r) \/ TriesAgain(l, r)

CredentialSpec == CredentialInit /\ [][CredentialNext]_credentialVars

-----------------------------------------------------------------------------
(***************************************************************************)
(* Properties.                                                             *)
(***************************************************************************)

(* Whoever wins, every process that loads a role's credential gets the one *)
(* the file holds, so windows, callers and daemons trust each other; none  *)
(* that is done left a temporary file behind; a file that cannot be        *)
(* read is never replaced; and a process whose file system works fails     *)
(* only when the file is there, so that its next attempt loads it or       *)
(* reports it as damaged (loadOrCreate, adoptPrivateFile).                 *)
CredentialsAgree ==
    /\ \A l \in Loader, r \in Role : stage[l][r] = "loaded" => loadedKey[l][r] = published[r]
    /\ \A t \in temporary : stage[t[1]][t[2]] \notin {"reread", "loaded", "failed"}
    /\ \A r \in Role : published[r] = Damaged => \A l \in Loader : stage[l][r] \in {"read", "failed"}
    /\ \A l \in Loader, r \in Role :
          stage[l][r] = "failed" => <<l, r>> \in faulty \/ published[r] # NoKey
==============================================================================
