------------------------- MODULE CredentialsProofs -------------------------
(***************************************************************************)
(* Files land where the process started, for any number of writers and     *)
(* keys.  The comparison in apply and the install are two steps, and other *)
(* refreshes install in between; that is harmless because every one of     *)
(* them has compared with the same place.                                  *)
(***************************************************************************)
EXTENDS Credentials, TLAPS

HomeTypeOK ==
  /\ live \in Config /\ master \in Config
  /\ DOMAIN at = Refreshers
  /\ snapshot \in [Writers -> Config]
  /\ fresh \in [Refreshers -> Config]
  /\ DOMAIN stored = Writers

\* Every location that is or will be in use is at home.
InUseAtHome ==
  /\ live.place = "home"
  /\ \A w \in Writers : snapshot[w].place = "home"
  /\ \A r \in Refreshers : at[r] = "install" => fresh[r].place = "home"

HomeInv == HomeTypeOK /\ InUseAtHome /\ FilesLandAtHome

LEMMA HomeIsConfig == Home \in Config /\ Home.place = "home"
  BY KeyAssumption DEF Home, Config, Places

LEMMA HomeInvInit == Init => HomeInv
  <1> SUFFICES ASSUME Init PROVE HomeInv
    OBVIOUS
  <1>1. HomeTypeOK
    BY HomeIsConfig DEF Init, HomeTypeOK
  <1>2. InUseAtHome
    BY HomeIsConfig DEF Init, InUseAtHome
  <1> QED
    BY <1>1, <1>2 DEF Init, HomeInv, FilesLandAtHome

\* The steps of a put.
LEMMA PutKeepsInv ==
  ASSUME HomeInv, NEW w \in Writers, put_once(w) \/ SendAgain(w) PROVE HomeInv'
  <1> USE HomeIsConfig DEF HomeInv, HomeTypeOK, InUseAtHome, FilesLandAtHome, Go, Refreshers
  <1>1. CASE Send(w)
    BY <1>1 DEF Send
  <1>2. CASE Lands(w)
    BY <1>2 DEF Lands
  <1>3. CASE Denied(w)
    BY <1>3 DEF Denied
  <1>4. CASE PutFails(w)
    BY <1>4 DEF PutFails
  <1>5. CASE SendAgain(w)
    BY <1>5 DEF SendAgain
  <1> QED
    BY <1>1, <1>2, <1>3, <1>4, <1>5 DEF put_once

\* The steps of a refresh.
LEMMA RefreshKeepsInv ==
  ASSUME HomeInv, NEW r \in Refreshers, refresh_managed_staging(r) PROVE HomeInv'
  <1> USE HomeIsConfig DEF HomeInv, HomeTypeOK, InUseAtHome, FilesLandAtHome, Go, Unchanged, Forget
  <1>1. CASE fetch_managed_staging(r)
    BY <1>1 DEF fetch_managed_staging
  <1>2. CASE RefreshFails(r)
    BY <1>2 DEF RefreshFails
  <1>3. CASE Apply(r)
    <2>1. CASE fresh[r].place # live.place \/ fresh[r].key = live.key
      BY <1>3, <2>1 DEF Apply
    <2>2. CASE ~(fresh[r].place # live.place \/ fresh[r].key = live.key)
      BY <1>3, <2>2 DEF Apply
    <2> QED
      BY <2>1, <2>2
  <1>4. CASE Install(r)
    BY <1>4 DEF Install
  <1> QED
    BY <1>1, <1>2, <1>3, <1>4 DEF refresh_managed_staging

\* The operator changes what the master says, and nothing else.
LEMMA OperatorKeepsInv == ASSUME HomeInv, Operator PROVE HomeInv'
  <1> USE DEF HomeInv, HomeTypeOK, InUseAtHome, FilesLandAtHome
  <1>1. CASE Rotate
    BY <1>1, KeyAssumption DEF Rotate, Config
  <1>2. CASE Revoke
    BY <1>2 DEF Revoke
  <1>3. CASE Move
    BY <1>3 DEF Move, Config
  <1> QED
    BY <1>1, <1>2, <1>3 DEF Operator

LEMMA HomeInvNext == HomeInv /\ [Next]_vars => HomeInv'
  <1> SUFFICES ASSUME HomeInv, [Next]_vars PROVE HomeInv'
    OBVIOUS
  <1>1. CASE \E w \in Writers : put_once(w) \/ SendAgain(w)
    BY <1>1, PutKeepsInv
  <1>2. CASE PeriodicTick
    BY <1>2 DEF PeriodicTick, Go, HomeInv, HomeTypeOK, InUseAtHome, FilesLandAtHome, Refreshers
  <1>3. CASE \E r \in Refreshers : refresh_managed_staging(r)
    BY <1>3, RefreshKeepsInv
  <1>4. CASE Operator
    BY <1>4, OperatorKeepsInv
  <1>5. CASE UNCHANGED vars
    BY <1>5 DEF vars, HomeInv, HomeTypeOK, InUseAtHome, FilesLandAtHome
  <1> QED
    BY <1>1, <1>2, <1>3, <1>4, <1>5 DEF Next

(***************************************************************************)
(* StagingHandle::apply: however refreshes and moves interleave, every     *)
(* file lands at the location the process started with.                    *)
(***************************************************************************)
THEOREM FilesStayAtHome == Spec => []FilesLandAtHome
  <1>1. HomeInv => FilesLandAtHome
    BY DEF HomeInv
  <1> QED
    BY <1>1, HomeInvInit, HomeInvNext, PTL DEF Spec

=============================================================================
