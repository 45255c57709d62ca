------------------------------- MODULE Intake -------------------------------
(***************************************************************************)
(* The intake of a teen (handle("intake_and_plan") of src/api.py, setup of  *)
(* src/intake.py, I0 of the Validator and the three tables of the store     *)
(* that only an intake writes: profiles, consent records, access tokens).   *)
(*                                                                          *)
(* Request threads run beside each other.  An intake makes two transactions *)
(* and then runs the request graph, and only its answer carries the access  *)
(* token, of which the store keeps a hash: what dies in between is kept.    *)
(***************************************************************************)
EXTENDS Integers, Sequences

CONSTANTS
    Teen, Request,
    ConsentId,
    Setups,       \* the setups callers may send: [teen, thread, age, consents]
    Token,        \* access tokens: secrets.token_urlsafe never returns one twice
    None,
    MaxCrashes    \* bound

Kinds    == {"personal_data", "trusted_adult_authority", "peer_cohort"}
Required == {"personal_data", "trusted_adult_authority"}
ConsentRecord == [id : ConsentId, teen : Teen, kind : Kinds, granted : BOOLEAN]

ASSUME IntakeAssumption ==
    /\ None \notin Teen
    /\ MaxCrashes \in Nat
    /\ \A s \in Setups : s.teen \in Teen /\ s.age \in Int /\ s.consents \in Seq(ConsentRecord)

VARIABLES
    profiles,    \* teen -> its setup: the thread, the age and the consents it came with
    consents,    \* consent id -> [teen, kind, granted]
    access,      \* teen -> the token whose hash is stored
    req,         \* request thread -> where it is, for whom, with which token
    started,     \* the graph threads that were invoked, in order
    held,        \* [teen, token] in answers that arrived
    broken,      \* the teens whose intake died, raised or lost its answer after setup
    crashes

vars == <<profiles, consents, access, req, started, held, broken, crashes>>

Idle == [pc |-> "idle", teen |-> None, token |-> None]

IntakeInit ==
    /\ profiles = <<>> /\ consents = <<>> /\ access = <<>>
    /\ req = [r \in Request |-> Idle]
    /\ started = <<>> /\ held = {} /\ broken = {} /\ crashes = 0

-----------------------------------------------------------------------------
(* I0 takes the last record of a kind.                                       *)
GrantedLast(s, kind) ==
    \E i \in DOMAIN s.consents :
        /\ s.consents[i].kind = kind /\ s.consents[i].granted
        /\ \A j \in DOMAIN s.consents : s.consents[j].kind = kind => j <= i

I0(s) == s.age \in 13..17 /\ \A kind \in Required : GrantedLast(s, kind)

(* What setup_profile asks of its arguments.                                 *)
Acceptable(s) ==
    /\ s.age \in 13..17
    /\ \E i \in DOMAIN s.consents : s.consents[i].kind = "personal_data" /\ s.consents[i].granted
    /\ \A i \in DOMAIN s.consents : s.consents[i].teen = s.teen

(* Mutants: setup replaces a profile; a thread may be shared; a consent id   *)
(* is taken whoever owns it.                                                *)
FreeToReplace(s) ==
    /\ \A t \in DOMAIN profiles \ {s.teen} : profiles[t].thread # s.thread
    /\ \A i \in DOMAIN s.consents :
          LET id == s.consents[i].id
          IN  id \in DOMAIN consents => consents[id].teen = s.teen
FreeOfTeen(s) ==
    /\ s.teen \notin DOMAIN profiles
    /\ \A i \in DOMAIN s.consents :
          LET id == s.consents[i].id
          IN  id \in DOMAIN consents => consents[id].teen = s.teen
FreeOfOwner(s) ==
    /\ s.teen \notin DOMAIN profiles
    /\ \A t \in DOMAIN profiles : profiles[t].thread # s.thread

(* What the transaction asks of the tables, or it rolls back: no profile of  *)
(* the teen, a thread of its own, no consent id of another teen.             *)
Free(s) ==
    /\ s.teen \notin DOMAIN profiles
    /\ \A t \in DOMAIN profiles : profiles[t].thread # s.thread
    /\ \A i \in DOMAIN s.consents :
          LET id == s.consents[i].id
          IN  id \in DOMAIN consents => consents[id].teen = s.teen

(* The upserts of a list of consents: a row keeps the kind it was inserted   *)
(* with and takes the grant of the last record of its id.                    *)
Named(s)     == {s.consents[i].id : i \in DOMAIN s.consents}
FirstOf(s, id) == CHOOSE i \in DOMAIN s.consents :
                    /\ s.consents[i].id = id
                    /\ \A j \in DOMAIN s.consents : s.consents[j].id = id => i <= j
LastOf(s, id)  == CHOOSE i \in DOMAIN s.consents :
                    /\ s.consents[i].id = id
                    /\ \A j \in DOMAIN s.consents : s.consents[j].id = id => j <= i
Filed(s, id) ==
    [teen    |-> s.teen,
     kind    |-> IF id \in DOMAIN consents THEN consents[id].kind
                 ELSE s.consents[FirstOf(s, id)].kind,
     granted |-> s.consents[LastOf(s, id)].granted]

SetsUp(r, s) ==
    /\ req[r] = Idle
    /\ I0(s) /\ Acceptable(s) /\ Free(s)
    /\ profiles' = [t \in DOMAIN profiles \cup {s.teen} |->
                        IF t = s.teen THEN s ELSE profiles[t]]
    /\ consents' = [id \in DOMAIN consents \cup Named(s) |->
                        IF id \in Named(s) THEN Filed(s, id) ELSE consents[id]]
    /\ req' = [req EXCEPT ![r] = [pc |-> "token", teen |-> s.teen, token |-> None]]
    /\ UNCHANGED <<access, started, held, broken, crashes>>

(* The caller gets a refusal, by I0 or by an exception after the rollback.   *)
RefusesSetup(r, s) ==
    /\ req[r] = Idle
    /\ ~(I0(s) /\ Acceptable(s) /\ Free(s))
    /\ UNCHANGED vars

Unused(k) == /\ \A t \in DOMAIN access : access[t] # k
             /\ \A h \in held : h.token # k

SetsToken(r) ==
    /\ req[r].pc = "token"
    /\ \E k \in Token :
          /\ Unused(k)
          /\ access' = [t \in DOMAIN access \cup {req[r].teen} |->
                            IF t = req[r].teen THEN k ELSE access[t]]
          /\ req' = [req EXCEPT ![r] = [pc |-> "invoke", teen |-> req[r].teen, token |-> k]]
    /\ UNCHANGED <<profiles, consents, started, held, broken, crashes>>

(* The graph runs on the thread of the setup; it returns with some outcome   *)
(* or raises.  Its steps are the module Pipeline.                            *)
InvokesGraph(r) ==
    /\ req[r].pc = "invoke"
    /\ started' = Append(started, profiles[req[r].teen].thread)
    /\ req' = [req EXCEPT ![r].pc = "graph"]
    /\ UNCHANGED <<profiles, consents, access, held, broken, crashes>>

(* Mutant: the token is part of the answer only when there is a plan.        *)
AnswersWithPlan(r) ==
    /\ req[r].pc = "graph"
    /\ \E viable \in BOOLEAN :
          held' = IF viable THEN held \cup {[teen |-> req[r].teen, token |-> req[r].token]} ELSE held
    /\ req' = [req EXCEPT ![r] = Idle]
    /\ UNCHANGED <<profiles, consents, access, started, broken, crashes>>

Answers(r) ==
    /\ req[r].pc = "graph"
    /\ held' = held \cup {[teen |-> req[r].teen, token |-> req[r].token]}
    /\ req' = [req EXCEPT ![r] = Idle]
    /\ UNCHANGED <<profiles, consents, access, started, broken, crashes>>

(* The graph raises, or the answer does not reach the caller.                *)
FailsToAnswer(r) ==
    /\ req[r].pc = "graph"
    /\ broken' = broken \cup {req[r].teen}
    /\ req' = [req EXCEPT ![r] = Idle]
    /\ UNCHANGED <<profiles, consents, access, started, held, crashes>>

(* The process dies and is started again: the tables stay.                   *)
Crash ==
    /\ crashes < MaxCrashes
    /\ crashes' = crashes + 1
    /\ broken' = broken \cup {req[r].teen : r \in {q \in Request : req[q] # Idle}}
    /\ req' = [r \in Request |-> Idle]
    /\ UNCHANGED <<profiles, consents, access, started, held>>

IntakeStep(r) ==
    \/ \E s \in Setups : SetsUp(r, s) \/ RefusesSetup(r, s)
    \/ SetsToken(r) \/ InvokesGraph(r) \/ Answers(r) \/ FailsToAnswer(r)

IntakeNext == Crash \/ \E r \in Request : IntakeStep(r)
IntakeSpec == IntakeInit /\ [][IntakeNext]_vars

-----------------------------------------------------------------------------
(* Properties *)

(* The tables, the requests and the record of what happened have their type. *)
IntakeTypeOK ==
    /\ DOMAIN profiles \subseteq Teen
    /\ \A t \in DOMAIN profiles : profiles[t] \in Setups /\ profiles[t].teen = t
    /\ DOMAIN access \subseteq DOMAIN profiles
    /\ \A t \in DOMAIN access : access[t] \in Token
    /\ \A id \in DOMAIN consents : consents[id].teen \in DOMAIN profiles
    /\ \A r \in Request :
          \/ req[r] = Idle
          \/ /\ req[r] = [pc |-> req[r].pc, teen |-> req[r].teen, token |-> req[r].token]
             /\ req[r].pc \in {"token", "invoke", "graph"}
             /\ req[r].teen \in DOMAIN profiles
    /\ broken \subseteq Teen
    /\ crashes \in 0..MaxCrashes

(* authorize_profile_access: what the attendance operation asks first.       *)
Authorized(t, k) == t \in DOMAIN access /\ access[t] = k

(* A token that reached its caller opens that teen's profile for ever and no *)
(* other, however many intakes of the teen are sent again or run beside it:  *)
(* set_profile_access_token would overwrite it.                              *)
HeldTokenOpens ==
    \A h \in held : \A t \in Teen : Authorized(t, h.token) <=> t = h.teen

(* A stored profile whose adult holds no token is one that an intake is      *)
(* still working on, or whose intake failed after its setup; every other     *)
(* profile can be reached, though a setup can never be repeated.             *)
LockedOutOnlyByFailure ==
    \A t \in DOMAIN profiles :
        \/ \E h \in held : h.teen = t
        \/ \E r \in Request : req[r].teen = t
        \/ t \in broken

(* The required consents that I0 saw are on file as long as the profile is,  *)
(* unless one id was sent for two consents: no later setup, of whichever     *)
(* teen, withdraws or takes them over.                                       *)
ConsentsOnFile ==
    \A t \in DOMAIN profiles :
        LET given == profiles[t].consents
        IN  (\A i, j \in DOMAIN given : given[i].id = given[j].id => i = j) =>
                \A kind \in Required : \E id \in DOMAIN consents :
                    consents[id] = [teen |-> t, kind |-> kind, granted |-> TRUE]

(* No thread is invoked twice, by a repeated setup, after a crash or for     *)
(* another teen: a second run would continue the first one's checkpoint and  *)
(* append to its bookings.                                                   *)
ThreadsRunOnce ==
    \A i, j \in DOMAIN started : started[i] = started[j] => i = j
=============================================================================
