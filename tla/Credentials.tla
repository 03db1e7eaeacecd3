---------------------------- MODULE Credentials ----------------------------
(***************************************************************************)
(* The staging location of one process under Relyt-managed staging: the    *)
(* StagingHandle every writer of the process shares, the refresh that      *)
(* re-reads it from the master, and the puts that use it.  A put takes a   *)
(* snapshot of the location and is under way while the operator rotates    *)
(* and revokes keys, and while other refreshes replace the snapshot.       *)
(***************************************************************************)
EXTENDS Integers

CONSTANTS
  Writers,   \* the put stages of the process, one file each
  MaxKey,    \* bound: the keys the operator issues, the first one is 0
  Moves      \* whether the operator may also move the staging location

ASSUME KeyAssumption == MaxKey \in Nat
ASSUME MovesAssumption == Moves \in BOOLEAN
ASSUME WritersAssumption == "periodic" \notin Writers

\* Whoever refreshes: the task of the client, or a put that was denied.
Refreshers == Writers \cup {"periodic"}

Places == {"home", "away"}
Config == [key : 0..MaxKey, place : Places]
Home == [key |-> 0, place |-> "home"]

VARIABLES
  master,    \* what relyt_get_ingest_staging_config returns
  oldest,    \* the oldest key that storage still accepts
  live,      \* StagingHandle.live
  at,        \* where each task is
  snapshot,  \* the location a put is using
  fresh,     \* the location a refresh has read
  stored     \* where the file of a writer has landed

vars == <<master, oldest, live, at, snapshot, fresh, stored>>

NotStored == "nowhere"

Init ==
  /\ master = Home /\ oldest = 0 /\ live = Home
  /\ at = [r \in Refreshers |-> IF r = "periodic" THEN "sleep" ELSE "put"]
  /\ snapshot = [w \in Writers |-> Home]
  /\ fresh = [r \in Refreshers |-> Home]
  /\ stored = [w \in Writers |-> NotStored]

Go(r, step) == at' = [at EXCEPT ![r] = step]

\* A refresh that changed nothing or failed: the put fails and its stage
\* retries after a backoff; the periodic task waits for its next tick.
Unchanged(r) == Go(r, IF r = "periodic" THEN "sleep" ELSE "put")

\* What a refresh has read is gone when it ends.
Forget(r) == fresh' = [fresh EXCEPT ![r] = Home]

-----------------------------------------------------------------------------
\* Mutant: the stage keeps the store it took for the first attempt.
SendKept(w) ==
  /\ at[w] = "put"
  /\ Go(w, "sent")
  /\ UNCHANGED <<master, oldest, live, snapshot, fresh, stored>>

\* An attempt takes the store of the live snapshot.
Send(w) ==
  /\ at[w] = "put"
  /\ snapshot' = [snapshot EXCEPT ![w] = live]
  /\ Go(w, "sent")
  /\ UNCHANGED <<master, oldest, live, fresh, stored>>

Lands(w) ==
  /\ at[w] \in {"sent", "sentAgain"}
  /\ snapshot[w].key >= oldest
  /\ stored' = [stored EXCEPT ![w] = snapshot[w].place]
  /\ snapshot' = [snapshot EXCEPT ![w] = Home]
  /\ Go(w, "landed")
  /\ UNCHANGED <<master, oldest, live, fresh>>

\* The first put of an attempt was denied: refresh the credentials.
Denied(w) ==
  /\ at[w] = "sent"
  /\ snapshot[w].key < oldest
  /\ Go(w, "fetch")
  /\ UNCHANGED <<master, oldest, live, snapshot, fresh, stored>>

\* Any other error, and whatever the second put of an attempt gets.
PutFails(w) ==
  /\ at[w] \in {"sent", "sentAgain"}
  /\ Go(w, "put")
  /\ UNCHANGED <<master, oldest, live, snapshot, fresh, stored>>

put_once(w) == Send(w) \/ Lands(w) \/ Denied(w) \/ PutFails(w)

\* The refresh produced a different location: put again with it.
SendAgain(w) ==
  /\ at[w] = "again"
  /\ snapshot' = [snapshot EXCEPT ![w] = live]
  /\ Go(w, "sentAgain")
  /\ UNCHANGED <<master, oldest, live, fresh, stored>>

-----------------------------------------------------------------------------
(***************************************************************************)
(* refresh_managed_staging: ask the master, compare with the live snapshot,*)
(* install.  Nothing orders two refreshes.                                 *)
(***************************************************************************)
PeriodicTick ==
  /\ at["periodic"] = "sleep"
  /\ Go("periodic", "fetch")
  /\ UNCHANGED <<master, oldest, live, snapshot, fresh, stored>>

fetch_managed_staging(r) ==
  /\ at[r] = "fetch"
  /\ fresh' = [fresh EXCEPT ![r] = master]
  /\ Go(r, "apply")
  /\ UNCHANGED <<master, oldest, live, snapshot, stored>>

\* Mutant: the periodic task ends at its first error.
RefreshFailsForGood(r) ==
  /\ at[r] = "fetch"
  /\ Go(r, IF r = "periodic" THEN "ended" ELSE "put")
  /\ UNCHANGED <<master, oldest, live, snapshot, fresh, stored>>

\* The master cannot be reached, or does not answer.
RefreshFails(r) ==
  /\ at[r] = "fetch"
  /\ Unchanged(r)
  /\ UNCHANGED <<master, oldest, live, snapshot, fresh, stored>>

\* Mutant: whatever the master says is installed.
ApplyAnywhere(r) ==
  /\ at[r] = "apply"
  /\ IF fresh[r] = live
     THEN Unchanged(r) /\ Forget(r)
     ELSE Go(r, "install") /\ UNCHANGED fresh
  /\ UNCHANGED <<master, oldest, live, snapshot, stored>>

\* StagingHandle::apply: another location is refused, the same key is no change.
Apply(r) ==
  /\ at[r] = "apply"
  /\ IF fresh[r].place # live.place \/ fresh[r].key = live.key
     THEN Unchanged(r) /\ Forget(r)
     ELSE Go(r, "install") /\ UNCHANGED fresh
  /\ UNCHANGED <<master, oldest, live, snapshot, stored>>

Install(r) ==
  /\ at[r] = "install"
  /\ live' = fresh[r] /\ Forget(r)
  /\ Go(r, IF r = "periodic" THEN "sleep" ELSE "again")
  /\ UNCHANGED <<master, oldest, snapshot, stored>>

refresh_managed_staging(r) ==
  fetch_managed_staging(r) \/ RefreshFails(r) \/ Apply(r) \/ Install(r)

-----------------------------------------------------------------------------
\* The operator issues a key, and revokes the older ones some time later.
Rotate ==
  /\ master.key < MaxKey
  /\ master' = [master EXCEPT !.key = @ + 1]
  /\ UNCHANGED <<oldest, live, at, snapshot, fresh, stored>>

Revoke ==
  /\ oldest < master.key
  /\ oldest' = master.key
  /\ UNCHANGED <<master, live, at, snapshot, fresh, stored>>

Move ==
  /\ Moves
  /\ \E p \in Places : master' = [master EXCEPT !.place = p]
  /\ UNCHANGED <<oldest, live, at, snapshot, fresh, stored>>

Operator == Rotate \/ Revoke \/ Move

Next ==
  \/ \E w \in Writers : put_once(w) \/ SendAgain(w)
  \/ PeriodicTick
  \/ \E r \in Refreshers : refresh_managed_staging(r)
  \/ Operator

Spec == Init /\ [][Next]_vars

(***************************************************************************)
(* tokio runs every task; a put with a good key and a question to the      *)
(* master succeed in the end if they are repeated.                         *)
(***************************************************************************)
Fairness ==
  /\ \A w \in Writers : WF_vars(put_once(w)) /\ WF_vars(SendAgain(w)) /\ SF_vars(Lands(w))
  /\ WF_vars(PeriodicTick)
  /\ \A r \in Refreshers :
       WF_vars(refresh_managed_staging(r)) /\ SF_vars(fetch_managed_staging(r))

FairSpec == Spec /\ Fairness

-----------------------------------------------------------------------------
CredentialsTypeOK ==
  /\ master \in Config /\ live \in Config
  /\ oldest \in 0..MaxKey
  /\ at \in [Refreshers -> {"sleep", "put", "sent", "fetch", "apply", "install", "again",
                            "sentAgain", "landed"}]
  /\ snapshot \in [Writers -> Config]
  /\ fresh \in [Refreshers -> Config]
  /\ stored \in [Writers -> Places \cup {NotStored}]

(***************************************************************************)
(* StagingHandle, "bucket and prefix are baked into every path and         *)
(* identifier this process has already published": however refreshes race  *)
(* with each other and with a move, every file lands where the process     *)
(* started.                                                                *)
(***************************************************************************)
FilesLandAtHome == \A w \in Writers : stored[w] \in {Home.place, NotStored}

\* The master names the location the process started with, from some time on.
StaysHome == <>[](master.place = Home.place)

(***************************************************************************)
(* put_once and put_stage: a put that is denied lands in the end, with the *)
(* key of its own refresh or of someone else's, also when the refresh it   *)
(* made found nothing new because another writer had been faster.          *)
(***************************************************************************)
DeniedPutLands == StaysHome => \A w \in Writers : <>(stored[w] # NotStored)

(***************************************************************************)
(* spawn_staging_refresh, "a rotation on the Relyt side reaches every      *)
(* writer without a restart": even if a refresh that had read an older key *)
(* installs it over the newest one, the newest comes back to stay.         *)
(***************************************************************************)
RotationArrives == StaysHome => <>[](live.key = master.key)

=============================================================================
