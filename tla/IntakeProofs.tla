---------------------------- MODULE IntakeProofs ----------------------------
(* The properties of Intake hold for any teens, setups, tokens and request    *)
(* threads, and for any number of crashes.                                   *)
EXTENDS Intake, TLAPS

(* One request at most works on a teen's intake.                             *)
OneIntakePerTeen ==
    \A r, q \in Request : req[r] # Idle /\ req[r].teen = req[q].teen => r = q

(* A request has set no token before it holds one, and what it holds is what *)
(* is stored; no answer of its teen can have arrived before its own.          *)
RequestHoldsStored ==
    \A r \in Request : req[r] # Idle =>
        /\ \A h \in held : h.teen # req[r].teen
        /\ IF req[r].pc = "token" THEN req[r].teen \notin DOMAIN access
           ELSE Authorized(req[r].teen, req[r].token)

TokensApart  == \A t, u \in DOMAIN access : access[t] = access[u] => t = u
HeldIsStored == \A h \in held : h.teen \in Teen /\ Authorized(h.teen, h.token)

ThreadsApart ==
    \A t, u \in DOMAIN profiles : profiles[t].thread = profiles[u].thread => t = u

(* Only threads of profiles were started, and none whose intake has yet to    *)
(* start it.                                                                 *)
StartedByProfile ==
    \A i \in DOMAIN started :
        \E t \in DOMAIN profiles :
            /\ started[i] = profiles[t].thread
            /\ \A r \in Request : req[r].teen = t => req[r].pc = "graph"

Threads == {s.thread : s \in Setups}

IntakeInv ==
    /\ IntakeTypeOK
    /\ DOMAIN req = Request
    /\ started \in Seq(Threads)
    /\ OneIntakePerTeen
    /\ RequestHoldsStored
    /\ TokensApart /\ HeldIsStored
    /\ ThreadsApart /\ StartedByProfile /\ ThreadsRunOnce
    /\ LockedOutOnlyByFailure
    /\ ConsentsOnFile
-----------------------------------------------------------------------------
LEMMA IntakeStarts == IntakeInit => IntakeInv
<1> SUFFICES ASSUME IntakeInit PROVE IntakeInv
  OBVIOUS
<1>1. DOMAIN profiles = {} /\ DOMAIN consents = {} /\ DOMAIN access = {} /\ DOMAIN started = {}
  BY DEF IntakeInit
<1>2. \A r \in Request : req[r] = Idle
  BY DEF IntakeInit
<1>3. IntakeTypeOK
  BY <1>1, <1>2, IntakeAssumption DEF IntakeInit, IntakeTypeOK
<1>4. started \in Seq(Threads)
  BY DEF IntakeInit
<1> QED
  BY <1>1, <1>2, <1>3, <1>4 DEF IntakeInit, IntakeInv, OneIntakePerTeen, RequestHoldsStored,
     TokensApart, HeldIsStored, ThreadsApart, StartedByProfile, ThreadsRunOnce,
     LockedOutOnlyByFailure, ConsentsOnFile

(* I0 passed on consents of distinct ids: each required one is filed as it    *)
(* was given.                                                                *)
LEMMA GrantsAreFiled ==
    ASSUME NEW s \in Setups, I0(s), NEW kind \in Required,
           \A i, j \in DOMAIN s.consents : s.consents[i].id = s.consents[j].id => i = j,
           \A id \in Named(s) : id \notin DOMAIN consents
    PROVE  \E id \in Named(s) :
              Filed(s, id) = [teen |-> s.teen, kind |-> kind, granted |-> TRUE]
<1>1. s.consents \in Seq(ConsentRecord)
  BY IntakeAssumption
<1>2. PICK i \in DOMAIN s.consents : s.consents[i].kind = kind /\ s.consents[i].granted
  BY DEF I0, GrantedLast
<1>3. i \in Int /\ s.consents[i] \in ConsentRecord
  BY <1>1, <1>2
<1> DEFINE id == s.consents[i].id
<1>4. \A j \in DOMAIN s.consents : s.consents[j].id = id => j = i
  BY <1>2
<1>5. FirstOf(s, id) = i
  <2>1. \E j \in DOMAIN s.consents :
            /\ s.consents[j].id = id
            /\ \A k \in DOMAIN s.consents : s.consents[k].id = id => j <= k
    BY <1>2, <1>3, <1>4
  <2> QED
    BY <2>1, <1>4 DEF FirstOf
<1>6. LastOf(s, id) = i
  <2>1. \E j \in DOMAIN s.consents :
            /\ s.consents[j].id = id
            /\ \A k \in DOMAIN s.consents : s.consents[k].id = id => k <= j
    BY <1>2, <1>3, <1>4
  <2> QED
    BY <2>1, <1>4 DEF LastOf
<1>7. id \in Named(s)
  BY <1>2 DEF Named
<1>8. s.consents[i].granted = TRUE
  BY <1>2, <1>3 DEF ConsentRecord
<1> QED
  BY <1>2, <1>5, <1>6, <1>7, <1>8 DEF Filed

LEMMA SetUpKeeps ==
    ASSUME IntakeInv, NEW r \in Request, NEW s \in Setups, SetsUp(r, s)
    PROVE  IntakeInv'
<1> DEFINE t == s.teen
<1>1. /\ t \in Teen /\ t # None
      /\ t \notin DOMAIN profiles
      /\ \A u \in DOMAIN profiles : profiles[u].thread # s.thread
  BY IntakeAssumption DEF SetsUp, Free
<1>2. /\ DOMAIN profiles' = DOMAIN profiles \cup {t}
      /\ profiles'[t] = s
      /\ \A u \in DOMAIN profiles : profiles'[u] = profiles[u]
  BY <1>1 DEF SetsUp
<1>3. \A id \in Named(s) : id \notin DOMAIN consents
  BY <1>1 DEF SetsUp, Free, Named, IntakeInv, IntakeTypeOK
<1>4. /\ DOMAIN consents' = DOMAIN consents \cup Named(s)
      /\ \A id \in Named(s) : consents'[id] = Filed(s, id)
      /\ \A id \in DOMAIN consents : consents'[id] = consents[id]
  BY <1>3 DEF SetsUp
<1>5. /\ DOMAIN req' = Request
      /\ req'[r] = [pc |-> "token", teen |-> t, token |-> None]
      /\ \A q \in Request \ {r} : req'[q] = req[q]
  BY DEF SetsUp, IntakeInv
<1>6. req[r] = Idle /\ req[r].teen = None
  BY DEF SetsUp, Idle
<1>7. UNCHANGED <<access, started, held, broken, crashes>>
  BY DEF SetsUp
<1>8. \A q \in Request : req[q].teen # t
  BY <1>1 DEF IntakeInv, IntakeTypeOK, Idle
<1>9. t \notin DOMAIN access /\ \A h \in held : h.teen # t
  BY <1>1 DEF IntakeInv, IntakeTypeOK, HeldIsStored, Authorized
<1>10. IntakeTypeOK'
  <2>1. \A id \in DOMAIN consents' : consents'[id].teen \in DOMAIN profiles'
    BY <1>2, <1>4 DEF IntakeInv, IntakeTypeOK, Filed
  <2>2. \A q \in Request :
            \/ req'[q] = Idle
            \/ /\ req'[q] = [pc |-> req'[q].pc, teen |-> req'[q].teen, token |-> req'[q].token]
               /\ req'[q].pc \in {"token", "invoke", "graph"}
               /\ req'[q].teen \in DOMAIN profiles'
    BY <1>2, <1>5 DEF IntakeInv, IntakeTypeOK
  <2> QED
    BY <2>1, <2>2, <1>1, <1>2, <1>7 DEF IntakeInv, IntakeTypeOK, Idle
<1>11. started' \in Seq(Threads)
  BY <1>7 DEF IntakeInv
<1>12. OneIntakePerTeen'
  BY <1>5, <1>8 DEF IntakeInv, OneIntakePerTeen, Idle
<1>13. RequestHoldsStored'
  BY <1>5, <1>7, <1>9 DEF IntakeInv, RequestHoldsStored, Authorized, Idle
<1>14. TokensApart' /\ HeldIsStored'
  BY <1>7 DEF IntakeInv, TokensApart, HeldIsStored, Authorized
<1>15. ThreadsApart'
  BY <1>1, <1>2 DEF IntakeInv, ThreadsApart
<1>16. StartedByProfile' /\ ThreadsRunOnce'
  <2>1. ASSUME NEW i \in DOMAIN started
        PROVE  \E u \in DOMAIN profiles' :
                  /\ started[i] = profiles'[u].thread
                  /\ \A q \in Request : req'[q].teen = u => req'[q].pc = "graph"
    <3>1. PICK u \in DOMAIN profiles :
              /\ started[i] = profiles[u].thread
              /\ \A q \in Request : req[q].teen = u => req[q].pc = "graph"
      BY DEF IntakeInv, StartedByProfile
    <3>2. \A q \in Request : req'[q].teen = u => req'[q].pc = "graph"
      BY <3>1, <1>1, <1>5
    <3> QED
      BY <3>1, <3>2, <1>2
  <2> QED
    BY <2>1, <1>7 DEF IntakeInv, StartedByProfile, ThreadsRunOnce
<1>17. LockedOutOnlyByFailure'
  BY <1>2, <1>5, <1>6, <1>7, IntakeAssumption DEF IntakeInv, IntakeTypeOK, LockedOutOnlyByFailure
<1>18. ConsentsOnFile'
  <2>1. ASSUME NEW u \in DOMAIN profiles', NEW kind \in Required,
               \A i, j \in DOMAIN profiles'[u].consents :
                  profiles'[u].consents[i].id = profiles'[u].consents[j].id => i = j
        PROVE  \E id \in DOMAIN consents' :
                  consents'[id] = [teen |-> u, kind |-> kind, granted |-> TRUE]
    <3>1. CASE u = t
      <4>1. PICK id \in Named(s) :
                Filed(s, id) = [teen |-> t, kind |-> kind, granted |-> TRUE]
        BY <2>1, <3>1, <1>2, <1>3, GrantsAreFiled DEF SetsUp
      <4> QED
        BY <4>1, <3>1, <1>4
    <3>2. CASE u \in DOMAIN profiles
      <4>1. PICK id \in DOMAIN consents :
                consents[id] = [teen |-> u, kind |-> kind, granted |-> TRUE]
        BY <2>1, <3>2, <1>2 DEF IntakeInv, ConsentsOnFile
      <4> QED
        BY <4>1, <1>4
    <3> QED
      BY <3>1, <3>2, <1>2
  <2> QED
    BY <2>1 DEF ConsentsOnFile
<1> QED
  BY <1>5, <1>10, <1>11, <1>12, <1>13, <1>14, <1>15, <1>16, <1>17, <1>18 DEF IntakeInv

LEMMA TokenKeeps ==
    ASSUME IntakeInv, NEW r \in Request, SetsToken(r)
    PROVE  IntakeInv'
<1> DEFINE t == req[r].teen
<1>1. PICK k \in Token :
          /\ Unused(k)
          /\ access' = [u \in DOMAIN access \cup {t} |-> IF u = t THEN k ELSE access[u]]
          /\ req' = [req EXCEPT ![r] = [pc |-> "invoke", teen |-> req[r].teen, token |-> k]]
  BY DEF SetsToken
<1>2. /\ req[r] # Idle /\ req[r].pc = "token"
      /\ t \in DOMAIN profiles /\ t \in Teen
      /\ t \notin DOMAIN access /\ \A h \in held : h.teen # t
  BY DEF SetsToken, Idle, IntakeInv, IntakeTypeOK, RequestHoldsStored
<1>3. /\ DOMAIN access' = DOMAIN access \cup {t} /\ access'[t] = k
      /\ \A u \in DOMAIN access : access'[u] = access[u] /\ access[u] # k
  BY <1>1, <1>2 DEF Unused
<1>4. /\ DOMAIN req' = Request
      /\ req'[r] = [pc |-> "invoke", teen |-> t, token |-> k]
      /\ \A q \in Request \ {r} : req'[q] = req[q] /\ req[q].teen # t
  BY <1>1, <1>2 DEF IntakeInv, IntakeTypeOK, OneIntakePerTeen
<1>5. UNCHANGED <<profiles, consents, started, held, broken, crashes>>
  BY DEF SetsToken
<1>6. IntakeTypeOK'
  <2>1. \A q \in Request :
            \/ req'[q] = Idle
            \/ /\ req'[q] = [pc |-> req'[q].pc, teen |-> req'[q].teen, token |-> req'[q].token]
               /\ req'[q].pc \in {"token", "invoke", "graph"}
               /\ req'[q].teen \in DOMAIN profiles'
    BY <1>2, <1>4, <1>5 DEF IntakeInv, IntakeTypeOK
  <2> QED
    BY <2>1, <1>2, <1>3, <1>5 DEF IntakeInv, IntakeTypeOK
<1>7. OneIntakePerTeen'
  BY <1>4 DEF IntakeInv, OneIntakePerTeen
<1>8. RequestHoldsStored'
  BY <1>2, <1>3, <1>4, <1>5 DEF IntakeInv, RequestHoldsStored, Authorized
<1>9. TokensApart' /\ HeldIsStored'
  BY <1>3, <1>5 DEF IntakeInv, TokensApart, HeldIsStored, Authorized
<1>10. StartedByProfile'
  <2>1. ASSUME NEW i \in DOMAIN started
        PROVE  \E u \in DOMAIN profiles :
                  /\ started[i] = profiles[u].thread
                  /\ \A q \in Request : req'[q].teen = u => req'[q].pc = "graph"
    <3>1. PICK u \in DOMAIN profiles :
              /\ started[i] = profiles[u].thread
              /\ \A q \in Request : req[q].teen = u => req[q].pc = "graph"
      BY DEF IntakeInv, StartedByProfile
    <3>2. u # t
      BY <3>1, <1>2
    <3> QED
      BY <3>1, <3>2, <1>4
  <2> QED
    BY <2>1, <1>5 DEF StartedByProfile
<1>11. LockedOutOnlyByFailure'
  BY <1>4, <1>5 DEF IntakeInv, LockedOutOnlyByFailure
<1> QED
  BY <1>4, <1>5, <1>6, <1>7, <1>8, <1>9, <1>10, <1>11
     DEF IntakeInv, ThreadsApart, ThreadsRunOnce, ConsentsOnFile

LEMMA InvokeKeeps ==
    ASSUME IntakeInv, NEW r \in Request, InvokesGraph(r)
    PROVE  IntakeInv'
<1> DEFINE t == req[r].teen
           x == profiles[t].thread
<1>1. /\ req[r] # Idle /\ req[r].pc = "invoke"
      /\ req[r] = [pc |-> "invoke", teen |-> t, token |-> req[r].token]
      /\ t \in DOMAIN profiles /\ profiles[t] \in Setups
  BY DEF InvokesGraph, Idle, IntakeInv, IntakeTypeOK
<1>2. /\ DOMAIN req' = Request
      /\ req'[r] = [pc |-> "graph", teen |-> t, token |-> req[r].token]
      /\ \A q \in Request \ {r} : req'[q] = req[q] /\ req[q].teen # t
  BY <1>1 DEF InvokesGraph, IntakeInv, OneIntakePerTeen
<1>3. UNCHANGED <<profiles, consents, access, held, broken, crashes>>
  BY DEF InvokesGraph
<1>4. x \in Threads /\ started \in Seq(Threads)
  BY <1>1 DEF Threads, IntakeInv
<1>5. /\ started' \in Seq(Threads)
      /\ DOMAIN started = 1..Len(started) /\ Len(started) \in Nat
      /\ DOMAIN started' = 1..(Len(started) + 1)
      /\ \A i \in DOMAIN started : started'[i] = started[i]
      /\ started'[Len(started) + 1] = x
  BY <1>4 DEF InvokesGraph
<1>6. \A i \in DOMAIN started : started[i] # x
  <2> SUFFICES ASSUME NEW i \in DOMAIN started, started[i] = x
               PROVE  FALSE
    OBVIOUS
  <2>1. PICK u \in DOMAIN profiles :
            /\ started[i] = profiles[u].thread
            /\ \A q \in Request : req[q].teen = u => req[q].pc = "graph"
    BY DEF IntakeInv, StartedByProfile
  <2>2. u = t
    BY <2>1, <1>1 DEF IntakeInv, ThreadsApart
  <2> QED
    BY <2>1, <2>2, <1>1
<1>7. IntakeTypeOK'
  <2>1. \A q \in Request :
            \/ req'[q] = Idle
            \/ /\ req'[q] = [pc |-> req'[q].pc, teen |-> req'[q].teen, token |-> req'[q].token]
               /\ req'[q].pc \in {"token", "invoke", "graph"}
               /\ req'[q].teen \in DOMAIN profiles'
    BY <1>1, <1>2, <1>3 DEF IntakeInv, IntakeTypeOK
  <2> QED
    BY <2>1, <1>3 DEF IntakeInv, IntakeTypeOK
<1>8. OneIntakePerTeen'
  BY <1>2 DEF IntakeInv, OneIntakePerTeen
<1>9. RequestHoldsStored'
  BY <1>1, <1>2, <1>3 DEF IntakeInv, RequestHoldsStored, Authorized
<1>10. ThreadsRunOnce'
  BY <1>5, <1>6 DEF IntakeInv, ThreadsRunOnce
<1>11. StartedByProfile'
  <2>1. ASSUME NEW i \in DOMAIN started'
        PROVE  \E u \in DOMAIN profiles :
                  /\ started'[i] = profiles[u].thread
                  /\ \A q \in Request : req'[q].teen = u => req'[q].pc = "graph"
    <3>1. CASE i = Len(started) + 1
      BY <3>1, <1>1, <1>2, <1>5
    <3>2. CASE i \in DOMAIN started
      <4>1. PICK u \in DOMAIN profiles :
                /\ started[i] = profiles[u].thread
                /\ \A q \in Request : req[q].teen = u => req[q].pc = "graph"
        BY <3>2 DEF IntakeInv, StartedByProfile
      <4> QED
        BY <4>1, <3>2, <1>2, <1>5
    <3> QED
      BY <3>1, <3>2, <1>5
  <2> QED
    BY <2>1, <1>3 DEF StartedByProfile
<1>12. LockedOutOnlyByFailure'
  BY <1>2, <1>3 DEF IntakeInv, LockedOutOnlyByFailure
<1> QED
  BY <1>2, <1>3, <1>5, <1>7, <1>8, <1>9, <1>10, <1>11, <1>12
     DEF IntakeInv, TokensApart, HeldIsStored, Authorized, ThreadsApart, ConsentsOnFile

(* A request ends, alone or with the process: what it leaves behind.          *)
LEMMA EndKeeps ==
    ASSUME IntakeInv,
           UNCHANGED <<profiles, consents, access, started>>,
           crashes' \in 0..MaxCrashes,
           DOMAIN req' = Request,
           \A q \in Request : req'[q] \in {req[q], Idle},
           broken \subseteq broken', broken' \subseteq Teen,
           held \subseteq held',
           \A h \in held' \ held : /\ h.teen \in Teen /\ Authorized(h.teen, h.token)
                                  /\ \A q \in Request : req'[q].teen # h.teen,
           \A q \in Request : req[q] # Idle /\ req'[q] = Idle =>
                req[q].teen \in broken' \/ \E h \in held' : h.teen = req[q].teen
    PROVE  IntakeInv'
<1>1. Idle.teen = None /\ None \notin DOMAIN profiles
  BY IntakeAssumption DEF Idle, IntakeInv, IntakeTypeOK
<1>2. IntakeTypeOK'
  BY DEF IntakeInv, IntakeTypeOK
<1>3. OneIntakePerTeen'
  BY <1>1 DEF IntakeInv, IntakeTypeOK, OneIntakePerTeen
<1>4. RequestHoldsStored'
  BY DEF IntakeInv, RequestHoldsStored, Authorized
<1>5. TokensApart' /\ HeldIsStored'
  BY DEF IntakeInv, TokensApart, HeldIsStored, Authorized
<1>6. StartedByProfile'
  <2>1. ASSUME NEW i \in DOMAIN started
        PROVE  \E u \in DOMAIN profiles :
                  /\ started[i] = profiles[u].thread
                  /\ \A q \in Request : req'[q].teen = u => req'[q].pc = "graph"
    <3>1. PICK u \in DOMAIN profiles :
              /\ started[i] = profiles[u].thread
              /\ \A q \in Request : req[q].teen = u => req[q].pc = "graph"
      BY DEF IntakeInv, StartedByProfile
    <3> QED
      BY <3>1, <1>1
  <2> QED
    BY <2>1 DEF StartedByProfile
<1>7. LockedOutOnlyByFailure'
  <2> SUFFICES ASSUME NEW t \in DOMAIN profiles
               PROVE  \/ \E h \in held' : h.teen = t
                      \/ \E q \in Request : req'[q].teen = t
                      \/ t \in broken'
    BY DEF LockedOutOnlyByFailure
  <2>1. CASE \E q \in Request : req[q].teen = t
    <3>1. PICK q \in Request : req[q].teen = t
      BY <2>1
    <3>2. req[q] # Idle
      BY <3>1, <1>1
    <3> QED
      BY <3>1, <3>2
  <2>2. CASE ~ \E q \in Request : req[q].teen = t
    BY <2>2 DEF IntakeInv, LockedOutOnlyByFailure
  <2> QED
    BY <2>1, <2>2
<1> QED
  BY <1>2, <1>3, <1>4, <1>5, <1>6, <1>7
     DEF IntakeInv, ThreadsApart, ThreadsRunOnce, ConsentsOnFile

LEMMA AnswerKeeps ==
    ASSUME IntakeInv, NEW r \in Request, Answers(r) \/ FailsToAnswer(r)
    PROVE  IntakeInv'
<1> DEFINE t == req[r].teen
<1>1. /\ req[r] # Idle /\ req[r].pc = "graph"
      /\ t \in DOMAIN profiles /\ t \in Teen /\ t # None
      /\ Authorized(t, req[r].token)
  BY IntakeAssumption DEF Answers, FailsToAnswer, Idle, IntakeInv, IntakeTypeOK, RequestHoldsStored
<1>2. /\ DOMAIN req' = Request /\ req'[r] = Idle
      /\ \A q \in Request \ {r} : req'[q] = req[q] /\ req[q].teen # t
  BY <1>1 DEF Answers, FailsToAnswer, IntakeInv, OneIntakePerTeen
<1>3. \A q \in Request : req'[q].teen # t
  BY <1>1, <1>2 DEF Idle
<1>4. /\ UNCHANGED <<profiles, consents, access, started>>
      /\ crashes' \in 0..MaxCrashes
  BY DEF Answers, FailsToAnswer, IntakeInv, IntakeTypeOK
<1>5. CASE Answers(r)
  <2>1. held' = held \cup {[teen |-> t, token |-> req[r].token]} /\ broken' = broken
    BY <1>5 DEF Answers
  <2>2. broken' \subseteq Teen
    BY <2>1 DEF IntakeInv, IntakeTypeOK
  <2>3. \A h \in held' \ held : h.teen = t /\ h.token = req[r].token
    BY <2>1
  <2>4. \E h \in held' : h.teen = t
    <3>1. [teen |-> t, token |-> req[r].token].teen = t
      OBVIOUS
    <3> QED
      BY <2>1, <3>1
  <2> QED
    BY <1>1, <1>2, <1>3, <1>4, <2>1, <2>2, <2>3, <2>4, EndKeeps
<1>6. CASE FailsToAnswer(r)
  <2>1. held' = held /\ broken' = broken \cup {t}
    BY <1>6 DEF FailsToAnswer
  <2>2. broken' \subseteq Teen
    BY <2>1, <1>1 DEF IntakeInv, IntakeTypeOK
  <2> QED
    BY <1>2, <1>4, <2>1, <2>2, EndKeeps
<1> QED
  BY <1>5, <1>6

LEMMA CrashKeeps == IntakeInv /\ Crash => IntakeInv'
<1> SUFFICES ASSUME IntakeInv, Crash
             PROVE  IntakeInv'
  OBVIOUS
<1>1. /\ UNCHANGED <<profiles, consents, access, started, held>>
      /\ DOMAIN req' = Request /\ \A q \in Request : req'[q] = Idle
      /\ broken' = broken \cup {req[q].teen : q \in {u \in Request : req[u] # Idle}}
  BY DEF Crash
<1>2. crashes' \in 0..MaxCrashes
  BY IntakeAssumption DEF Crash, IntakeInv, IntakeTypeOK
<1>3. broken' \subseteq Teen
  BY <1>1 DEF IntakeInv, IntakeTypeOK
<1> QED
  BY <1>1, <1>2, <1>3, EndKeeps

LEMMA IntakeStepKeeps == IntakeInv /\ [IntakeNext]_vars => IntakeInv'
<1> SUFFICES ASSUME IntakeInv, [IntakeNext]_vars
             PROVE  IntakeInv'
  OBVIOUS
<1>1. CASE Crash
  BY <1>1, CrashKeeps
<1>2. CASE UNCHANGED vars
  BY <1>2 DEF vars, IntakeInv, IntakeTypeOK, OneIntakePerTeen, RequestHoldsStored, TokensApart,
     HeldIsStored, Authorized, ThreadsApart, StartedByProfile, ThreadsRunOnce,
     LockedOutOnlyByFailure, ConsentsOnFile
<1>3. ASSUME NEW r \in Request, IntakeStep(r)
      PROVE  IntakeInv'
  <2>1. ASSUME NEW s \in Setups, SetsUp(r, s) \/ RefusesSetup(r, s)
        PROVE  IntakeInv'
    BY <2>1, <1>2, SetUpKeeps DEF RefusesSetup
  <2> QED
    BY <1>3, <2>1, TokenKeeps, InvokeKeeps, AnswerKeeps DEF IntakeStep
<1> QED
  BY <1>1, <1>2, <1>3 DEF IntakeNext

(* The invariant of the intake and its three tables: whichever setups arrive, *)
(* in whatever interleaving, with crashes between any two transactions.      *)
THEOREM IntakeInvariant == IntakeSpec => []IntakeInv
  BY IntakeStarts, IntakeStepKeeps, PTL DEF IntakeSpec

(* The tables and requests keep their type.                                  *)
THEOREM IntakeTyped == IntakeSpec => []IntakeTypeOK
<1>1. IntakeInv => IntakeTypeOK
  BY DEF IntakeInv
<1> QED
  BY <1>1, IntakeInvariant, PTL

(* A token that was handed out opens its teen's profile and no other: setup   *)
(* refuses a second intake before set_profile_access_token would replace it. *)
THEOREM HeldTokensOpen == IntakeSpec => []HeldTokenOpens
<1>1. IntakeInv => HeldTokenOpens
  BY DEF IntakeInv, TokensApart, HeldIsStored, HeldTokenOpens, Authorized
<1> QED
  BY <1>1, IntakeInvariant, PTL

(* Only a failed intake leaves a profile that nobody can open.               *)
THEOREM LockedOutByFailure == IntakeSpec => []LockedOutOnlyByFailure
<1>1. IntakeInv => LockedOutOnlyByFailure
  BY DEF IntakeInv
<1> QED
  BY <1>1, IntakeInvariant, PTL

(* The consents an intake was admitted with stay on file.                    *)
THEOREM ConsentsStayOnFile == IntakeSpec => []ConsentsOnFile
<1>1. IntakeInv => ConsentsOnFile
  BY DEF IntakeInv
<1> QED
  BY <1>1, IntakeInvariant, PTL

(* No checkpoint thread is run for two intakes.                              *)
THEOREM ThreadsAreRunOnce == IntakeSpec => []ThreadsRunOnce
<1>1. IntakeInv => ThreadsRunOnce
  BY DEF IntakeInv
<1> QED
  BY <1>1, IntakeInvariant, PTL
=============================================================================
