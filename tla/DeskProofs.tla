------------------------------- MODULE DeskProofs -------------------------------
(***************************************************************************)
(* The window as it stands before a user: leaving it, the boxes of its     *)
(* open card, the rows of its lists, and the files it was told to keep.    *)
(***************************************************************************)
EXTENDS Leaving, Editors, FreeSelect, SequenceTheorems, WellFoundedInduction, TLAPS

(***************************************************************************)
(* An installer that does not take is not started again by every exit:     *)
(* proved for any clock, any number of releases, sessions and kills.  What *)
(* makes it true is that a try is stamped before the exit it is for, saved *)
(* by that exit, and only ever followed by tries of the same version a     *)
(* week later or of a later one.                                           *)
(***************************************************************************)

\* What poll makes of each answer, field by field.
LEMMA AnsweredIs ==
    /\ answer = None =>
          /\ Answered.st = status /\ Answered.att = attempt /\ Answered.req = request
          /\ Answered.inst = ready /\ Answered.iwr = installWhenReady /\ Answered.go = FALSE
    /\ answer # None /\ ~answer.ok =>
          /\ Answered.st = [s |-> "failed", v |-> None] /\ Answered.att = attempt
          /\ Answered.req = request /\ Answered.inst = ready /\ Answered.go = FALSE
    /\ answer # None /\ answer.ok /\ answer.of = "check" =>
          /\ Answered.att = attempt /\ Answered.inst = ready
          /\ Answered.iwr = installWhenReady /\ Answered.go = FALSE
          /\ \/ Answered.st = [s |-> "uptodate", v |-> None] /\ Answered.req = request
             \/ /\ answer.v # None /\ MayAutoInstall(attempt, answer.v, clock)
                /\ Answered.st = [s |-> "downloading", v |-> answer.v]
                /\ Answered.req = [of |-> "download", v |-> answer.v]
             \/ /\ answer.v # None /\ Answered.req = request
                /\ Answered.st = [s |-> "available", v |-> answer.v]
    /\ answer # None /\ answer.ok /\ answer.of # "check" =>
          /\ Answered.st = [s |-> "ready", v |-> answer.v] /\ Answered.req = request
          /\ Answered.inst = answer.v /\ Answered.go = installWhenReady
          /\ Answered.att = IF installWhenReady THEN attempt ELSE [v |-> answer.v, at |-> clock]
<1>1. ASSUME answer = None
      PROVE  /\ Answered.st = status /\ Answered.att = attempt /\ Answered.req = request
             /\ Answered.inst = ready /\ Answered.iwr = installWhenReady /\ Answered.go = FALSE
    BY <1>1 DEF Answered
<1>2. ASSUME answer # None, ~answer.ok
      PROVE  /\ Answered.st = [s |-> "failed", v |-> None] /\ Answered.att = attempt
             /\ Answered.req = request /\ Answered.inst = ready /\ Answered.go = FALSE
    BY <1>2 DEF Answered
<1>3. ASSUME answer # None, answer.ok, answer.of = "check"
      PROVE  /\ Answered.att = attempt /\ Answered.inst = ready
             /\ Answered.iwr = installWhenReady /\ Answered.go = FALSE
             /\ \/ Answered.st = [s |-> "uptodate", v |-> None] /\ Answered.req = request
                \/ /\ answer.v # None /\ MayAutoInstall(attempt, answer.v, clock)
                   /\ Answered.st = [s |-> "downloading", v |-> answer.v]
                   /\ Answered.req = [of |-> "download", v |-> answer.v]
                \/ /\ answer.v # None /\ Answered.req = request
                   /\ Answered.st = [s |-> "available", v |-> answer.v]
  <2>1. CASE answer.v = None
      BY <1>3, <2>1 DEF Answered
  <2>2. CASE /\ answer.v # None
             /\ mode = "automatic" /\ AutomaticPossible /\ MayAutoInstall(attempt, answer.v, clock)
      BY <1>3, <2>2 DEF Answered
  <2>3. CASE /\ answer.v # None
             /\ ~(mode = "automatic" /\ AutomaticPossible /\ MayAutoInstall(attempt, answer.v, clock))
      BY <1>3, <2>3 DEF Answered
  <2> QED BY <2>1, <2>2, <2>3
<1>4. ASSUME answer # None, answer.ok, answer.of # "check"
      PROVE  /\ Answered.st = [s |-> "ready", v |-> answer.v] /\ Answered.req = request
             /\ Answered.inst = answer.v /\ Answered.go = installWhenReady
             /\ Answered.att = IF installWhenReady THEN attempt ELSE [v |-> answer.v, at |-> clock]
    BY <1>4 DEF Answered
<1> QED BY <1>1, <1>2, <1>3, <1>4

\* The status a frame comes to before it looks whether a check is due.
StatusAfter(ok) == IF Answered.go /\ ~ok THEN [s |-> "failed", v |-> None] ELSE Answered.st
CheckAsked == status' = [s |-> "checking", v |-> None] /\ request' = [of |-> "check", v |-> None]

\* What a frame does to the updater, and what the exit it may be granted does on top.
LEMMA FrameDoes ==
    ASSUME NEW landed, NEW planned, NEW ok, Frame(landed, planned, ok)
    PROVE  /\ up /\ clock' = clock /\ newest' = newest /\ answer' = None
           /\ attempt' = Answered.att /\ ready' = Answered.inst /\ installWhenReady' = Answered.iwr
           /\ \/ status' = StatusAfter(ok) /\ request' = Answered.req
              \/ ~Busy(StatusAfter(ok)) /\ StatusAfter(ok).s # "ready" /\ CheckAsked
           /\ byUser' = IF Answered.go /\ ok THEN byUser \cup {Answered.inst} ELSE byUser
           /\ \/ UNCHANGED <<stored, tooSoon, lastAuto>>
              \/ /\ ~up' /\ stored'.attempt = Answered.att
                 /\ \/ UNCHANGED <<tooSoon, lastAuto>>
                    \/ /\ StatusAfter(ok).s = "ready" /\ status' = StatusAfter(ok)
                       /\ Answered.inst \notin byUser' /\ Answered.att # None
                       /\ tooSoon' = \/ tooSoon
                                     \/ /\ lastAuto[Answered.inst] # None
                                        /\ Answered.att.at \in lastAuto[Answered.inst] ..
                                                    (lastAuto[Answered.inst] + RetryAfter - 1)
                       /\ lastAuto' = [lastAuto EXCEPT ![Answered.inst] =
                                        IF Answered.att.at <= clock THEN Answered.att.at ELSE None]
<1> DEFINE a == Answered
           st1 == StatusAfter(ok)
           granted == asked /\ job = "none"
           due == /\ mode # "manual" /\ ~Busy(st1) /\ st1.s # "ready" /\ CheckDue(lastCheck, clock)
           exit == granted /\ OnExit(st1, a.inst)
<1>1. /\ up /\ clock' = clock /\ newest' = newest /\ answer' = None
      /\ attempt' = a.att /\ ready' = a.inst /\ installWhenReady' = a.iwr
    BY Zenon DEF Frame
<1>2. /\ status' = IF due THEN [s |-> "checking", v |-> None] ELSE st1
      /\ request' = IF due THEN [of |-> "check", v |-> None] ELSE a.req
      /\ byUser' = IF a.go /\ ok THEN byUser \cup {a.inst} ELSE byUser
    BY Zenon DEF Frame, StatusAfter
<1>3. ASSUME ~granted
      PROVE  UNCHANGED <<stored, tooSoon, lastAuto>>
    BY <1>3, Zenon DEF Frame
<1>4. ASSUME granted
      PROVE  /\ up' = FALSE /\ stored' = Saved
             /\ IF exit /\ a.inst \notin byUser' /\ a.att # None
                THEN /\ tooSoon' = \/ tooSoon
                                   \/ /\ lastAuto[a.inst] # None
                                      /\ a.att.at \in lastAuto[a.inst] .. (lastAuto[a.inst] + RetryAfter - 1)
                     /\ lastAuto' = [lastAuto EXCEPT ![a.inst] =
                                       IF a.att.at <= clock THEN a.att.at ELSE None]
                ELSE UNCHANGED <<tooSoon, lastAuto>>
    BY <1>4, Zenon DEF Frame, StatusAfter
<1>5. granted => stored'.attempt = a.att
    BY <1>1, <1>4 DEF Saved
<1>6. \/ status' = st1 /\ request' = a.req
      \/ ~Busy(st1) /\ st1.s # "ready" /\ CheckAsked
    BY <1>2 DEF CheckAsked
<1>7. exit => st1.s = "ready" /\ status' = st1
    BY <1>2 DEF OnExit
<1> HIDE DEF a, st1, granted, due, exit
<1>8. CASE ~granted
    BY <1>1, <1>2, <1>3, <1>6, <1>8 DEF a, st1
<1>9. CASE granted /\ UNCHANGED <<tooSoon, lastAuto>>
    BY <1>1, <1>2, <1>4, <1>5, <1>6, <1>9 DEF a, st1
<1>10. CASE granted /\ exit /\ a.inst \notin byUser' /\ a.att # None
    BY <1>1, <1>2, <1>4, <1>5, <1>6, <1>7, <1>10, Zenon DEF a, st1
<1> QED BY <1>4, <1>8, <1>9, <1>10

\* A version a check finds may be tried, where the rule says so and the tries are kept.
LEMMA WhatMayBeTried ==
    ASSUME LeavingTypeOK, TriesAreKept, NEW v \in Versions, MayAutoInstall(attempt, v, clock),
           attempt # None => attempt.v <= v, lastAuto[v] # None
    PROVE  clock >= lastAuto[v] + RetryAfter
<1>1. /\ attempt # None /\ attempt.v >= v
      /\ attempt.v = v => attempt.at \in lastAuto[v] .. clock
    BY DEF TriesAreKept
<1>2. /\ attempt \in Tries /\ lastAuto[v] \in Int /\ clock \in Int /\ RetryAfter \in Int
      /\ v \in Int /\ attempt.v \in Int /\ attempt.at \in Int
    BY <1>1, LeavingAssumption DEF LeavingTypeOK, Tries, Versions
<1>3. attempt.v = v /\ attempt.at \in lastAuto[v] .. clock
    BY <1>1, <1>2
<1>4. clock - attempt.at >= RetryAfter \/ attempt.at > clock
    BY <1>1, <1>3 DEF MayAutoInstall
<1> QED BY <1>2, <1>3, <1>4

\* A frame, and the exit it may be granted.
LEMMA FrameKeeps ==
    ASSUME LeavingInv, NEW landed, NEW planned, NEW ok \in BOOLEAN, Frame(landed, planned, ok)
    PROVE  LeavingInv'
<1> DEFINE att == Answered.att
           inst == Answered.inst
           st == StatusAfter(ok)
           req == Answered.req
           Exits == /\ ~up' /\ stored'.attempt = att
                    /\ st.s = "ready" /\ status' = st /\ inst \notin byUser' /\ att # None
                    /\ tooSoon' = \/ tooSoon
                                  \/ /\ lastAuto[inst] # None
                                     /\ att.at \in lastAuto[inst] .. (lastAuto[inst] + RetryAfter - 1)
                    /\ lastAuto' = [lastAuto EXCEPT ![inst] = IF att.at <= clock THEN att.at ELSE None]
<1>p. /\ LeavingTypeOK /\ OneAtATime /\ NewsIsNewest /\ FetchedInTime
      /\ TriesAreKept /\ WaitingIsStamped /\ tooSoon = FALSE
    BY DEF LeavingInv, NotEveryExit
<1>f. /\ up /\ clock' = clock /\ newest' = newest /\ answer' = None
      /\ attempt' = att /\ ready' = inst /\ installWhenReady' = Answered.iwr
      /\ \/ status' = st /\ request' = req
         \/ ~Busy(st) /\ st.s # "ready" /\ CheckAsked
      /\ byUser' = IF Answered.go /\ ok THEN byUser \cup {inst} ELSE byUser
      /\ \/ UNCHANGED <<stored, tooSoon, lastAuto>>
         \/ ~up' /\ stored'.attempt = att /\ UNCHANGED <<tooSoon, lastAuto>>
         \/ Exits
    BY FrameDoes, Zenon
<1>n. ASSUME answer = None
      PROVE  /\ att = attempt /\ st = status /\ req = request /\ inst = ready
             /\ Answered.iwr = installWhenReady /\ Answered.go = FALSE
    BY <1>n, AnsweredIs DEF StatusAfter
<1>x. ASSUME answer # None, ~answer.ok
      PROVE  st.s = "failed" /\ att = attempt /\ req = request /\ request = None /\ Answered.go = FALSE
    BY <1>x, <1>p, AnsweredIs DEF StatusAfter, OneAtATime
<1>c. ASSUME answer # None, answer.ok, answer.of = "check"
      PROVE  /\ att = attempt /\ Answered.iwr = installWhenReady /\ request = None
             /\ \/ st.s = "uptodate" /\ req = request
                \/ /\ answer.v # None /\ MayAutoInstall(attempt, answer.v, clock)
                   /\ st.s = "downloading" /\ req = [of |-> "download", v |-> answer.v]
                \/ answer.v # None /\ req = request /\ st.s = "available" /\ st.v = answer.v
    BY <1>c, <1>p, AnsweredIs DEF StatusAfter, OneAtATime
<1>d. ASSUME answer # None, answer.ok, answer.of # "check"
      PROVE  /\ req = request /\ request = None /\ inst = answer.v /\ MayBeTried(answer.v)
             /\ \/ ~installWhenReady /\ st.s = "ready" /\ att = [v |-> answer.v, at |-> clock]
                \/ /\ installWhenReady /\ att = attempt
                   /\ \/ st.s = "failed"
                      \/ st.s = "ready" /\ inst \in byUser'
  <2>1. request = None /\ answer.of = "download"
      BY <1>d, <1>p DEF OneAtATime
  <2>2. MayBeTried(answer.v)
      BY <1>d, <1>f, <1>p, <2>1 DEF FetchedInTime
  <2>3. /\ Answered.st.s = "ready" /\ req = request /\ inst = answer.v
        /\ Answered.go = installWhenReady
        /\ att = IF installWhenReady THEN attempt ELSE [v |-> answer.v, at |-> clock]
      BY <1>d, AnsweredIs
  <2>4. CASE ~installWhenReady
      BY <2>1, <2>2, <2>3, <2>4 DEF StatusAfter
  <2>5. CASE installWhenReady
    <3>1. CASE ok
        BY <1>f, <2>1, <2>2, <2>3, <2>5, <3>1 DEF StatusAfter
    <3>2. CASE ~ok
        BY <1>f, <2>1, <2>2, <2>3, <2>5, <3>2 DEF StatusAfter
    <3> QED BY <3>1, <3>2
  <2> QED BY <2>4, <2>5
<1> HIDE DEF att, inst, st, req
<1>1. \/ att = attempt
      \/ /\ answer # None /\ ~installWhenReady /\ MayBeTried(answer.v)
         /\ att = [v |-> answer.v, at |-> clock]
    BY <1>n, <1>x, <1>c, <1>d
<1>2. att \in Tries \cup {None} /\ (att # None => att.v <= newest)
  <2>1. CASE att = attempt
      BY <1>p, <2>1 DEF LeavingTypeOK
  <2>2. CASE MayBeTried(answer.v) /\ att = [v |-> answer.v, at |-> clock]
      BY <1>p, <2>2 DEF LeavingTypeOK, MayBeTried, Offered, Tries
  <2> QED BY <1>1, <2>1, <2>2
<1>3. ASSUME st.s = "ready", inst \notin byUser'
      PROVE  /\ inst \in Versions /\ att # None /\ att.v = inst
             /\ lastAuto[inst] # None => att.at >= lastAuto[inst] + RetryAfter
  <2>1. CASE answer = None
    <3>1. /\ status.s = "ready" /\ inst = ready /\ att = attempt /\ byUser' = byUser
        BY <1>3, <1>f, <1>n, <2>1
    <3> QED BY <1>3, <1>f, <1>p, <3>1 DEF WaitingIsStamped
  <2>2. CASE answer # None /\ ~answer.ok
      BY <1>3, <1>x, <2>2
  <2>3. CASE answer # None /\ answer.ok /\ answer.of = "check"
      BY <1>3, <1>c, <2>3
  <2>4. CASE answer # None /\ answer.ok /\ answer.of # "check"
    <3>1. /\ inst = answer.v /\ MayBeTried(inst) /\ ~installWhenReady
          /\ att = [v |-> inst, at |-> clock]
        BY <1>3, <1>d, <2>4
    <3>2. inst \in Versions /\ (lastAuto[inst] # None => clock >= lastAuto[inst] + RetryAfter)
        BY <3>1 DEF MayBeTried, Offered
    <3>3. att \in Tries
        BY <1>p, <3>1, <3>2 DEF Tries, LeavingTypeOK
    <3> QED BY <3>1, <3>2, <3>3, LeavingAssumption DEF Tries, Versions
  <2> QED BY <2>1, <2>2, <2>3, <2>4
<1>4. ASSUME NEW v \in Versions, lastAuto[v] # None
      PROVE  /\ lastAuto[v] \in Int /\ lastAuto[v] <= clock /\ att # None /\ att.v >= v
             /\ att.v = v => att.at \in lastAuto[v] .. clock
  <2>1. /\ lastAuto[v] <= clock /\ attempt # None /\ attempt.v >= v
        /\ attempt.v = v => attempt.at \in lastAuto[v] .. clock
      BY <1>4, <1>p DEF TriesAreKept
  <2>2. /\ lastAuto[v] \in Int /\ clock \in Int /\ v \in Int
        /\ attempt \in Tries /\ attempt.v \in Int /\ attempt.at \in Int
      BY <1>4, <1>p, <2>1, LeavingAssumption DEF LeavingTypeOK, Tries, Versions
  <2>3. CASE att = attempt
      BY <2>1, <2>2, <2>3
  <2>4. CASE ~installWhenReady /\ MayBeTried(answer.v) /\ att = [v |-> answer.v, at |-> clock]
    <3>1. answer.v \in Versions /\ answer.v \in Int /\ attempt.v <= answer.v
        BY <2>1, <2>4, LeavingAssumption DEF MayBeTried, Offered, Versions
    <3>2. att.v = answer.v /\ att.at = clock
        BY <2>4
    <3>3. att \in Tries
        BY <1>p, <2>4, <3>1 DEF Tries, LeavingTypeOK
    <3>4. att # None
        BY <3>3, LeavingAssumption DEF Tries, Versions
    <3> QED BY <2>1, <2>2, <3>1, <3>2, <3>4
  <2> QED BY <1>1, <2>3, <2>4
<1>5. Exits => inst \in Versions /\ att \in Tries /\ att.at \in Int /\ att.v = inst
    BY <1>2, <1>3 DEF Tries
<1>6. LeavingTypeOK'
  <2>1. lastAuto' \in [Versions -> Int \cup {None}]
    <3>1. CASE UNCHANGED lastAuto
        BY <1>p, <3>1 DEF LeavingTypeOK
    <3>2. CASE Exits
        BY <1>p, <1>5, <3>2 DEF LeavingTypeOK
    <3> QED BY <1>f, <3>1, <3>2
  <2>2. stored'.attempt = stored.attempt \/ stored'.attempt = att
      BY <1>f
  <2> QED BY <1>f, <1>p, <1>2, <2>1, <2>2 DEF LeavingTypeOK, Versions, Tries
<1>7. NotEveryExit'
  <2>1. CASE UNCHANGED tooSoon
      BY <1>p, <2>1 DEF NotEveryExit
  <2>2. CASE Exits
    <3>1. lastAuto[inst] # None => lastAuto[inst] \in Int /\ att.at >= lastAuto[inst] + RetryAfter
        BY <1>3, <1>4, <2>2
    <3>2. ~(lastAuto[inst] # None /\ att.at \in lastAuto[inst] .. (lastAuto[inst] + RetryAfter - 1))
        BY <1>5, <2>2, <3>1, LeavingAssumption
    <3> QED BY <1>p, <2>2, <3>2 DEF NotEveryExit
  <2> QED BY <1>f, <2>1, <2>2
<1>8. TriesAreKept'
  <2> SUFFICES ASSUME NEW v \in Versions, lastAuto'[v] # None
               PROVE  /\ lastAuto'[v] <= clock'
                      /\ \A a \in {attempt', stored'.attempt} :
                            /\ a # None /\ a.v >= v
                            /\ a.v = v => a.at \in lastAuto'[v] .. clock'
      BY DEF TriesAreKept, Versions
  <2>1. CASE UNCHANGED lastAuto
    <3>1. lastAuto[v] # None
        BY <2>1
    <3>2. stored'.attempt = stored.attempt \/ stored'.attempt = att
        BY <1>f
    <3> QED BY <1>f, <1>p, <1>4, <2>1, <3>1, <3>2 DEF TriesAreKept
  <2>2. CASE Exits
    <3>1. stored'.attempt = att /\ attempt' = att /\ clock' = clock /\ clock \in Int
        BY <1>f, <1>p, <2>2 DEF LeavingTypeOK
    <3>2. CASE v = inst
      <4>1. lastAuto'[v] = IF att.at <= clock THEN att.at ELSE None
          BY <1>p, <1>5, <2>2, <3>2 DEF LeavingTypeOK
      <4>2. lastAuto'[v] = att.at /\ att.at <= clock
          BY <4>1
      <4>3. v \in Int
          BY LeavingAssumption DEF Versions
      <4> QED BY <1>5, <2>2, <3>1, <3>2, <4>2, <4>3
    <3>3. CASE v # inst
      <4>1. lastAuto'[v] = lastAuto[v]
          BY <1>p, <1>5, <2>2, <3>3 DEF LeavingTypeOK
      <4> QED BY <1>4, <3>1, <4>1
    <3> QED BY <3>2, <3>3
  <2> QED BY <1>f, <2>1, <2>2
<1>9. OneAtATime'
  <2>1. CASE CheckAsked
      BY <1>f, <2>1 DEF OneAtATime, CheckAsked
  <2>2. CASE status' = st /\ request' = req
    <3>1. CASE answer = None
        BY <1>f, <1>n, <1>p, <2>2, <3>1 DEF OneAtATime
    <3>2. CASE answer # None
      <4>1. req # None => req.of = "download" /\ st.s = "downloading"
        <5>1. CASE ~answer.ok
            BY <1>x, <3>2, <5>1
        <5>2. CASE answer.ok /\ answer.of = "check"
            BY <1>c, <3>2, <5>2
        <5>3. CASE answer.ok /\ answer.of # "check"
            BY <1>d, <3>2, <5>3
        <5> QED BY <5>1, <5>2, <5>3
      <4> QED BY <1>f, <2>2, <4>1 DEF OneAtATime
    <3> QED BY <3>1, <3>2
  <2> QED BY <1>f, <2>1, <2>2
<1>10. NewsIsNewest'
  <2>1. st.s = "available" => Offered(st.v)
    <3>1. CASE answer = None
        BY <1>n, <1>p, <3>1 DEF NewsIsNewest
    <3>2. CASE answer # None /\ ~answer.ok
        BY <1>x, <3>2
    <3>3. CASE answer # None /\ answer.ok /\ answer.of = "check"
        BY <1>c, <1>p, <3>3 DEF NewsIsNewest
    <3>4. CASE answer # None /\ answer.ok /\ answer.of # "check"
        BY <1>d, <3>4
    <3> QED BY <3>1, <3>2, <3>3, <3>4
  <2>2. status'.s = "available" => status' = st
      BY <1>f DEF CheckAsked
  <2> QED BY <1>f, <2>1, <2>2 DEF NewsIsNewest, Offered, Versions
<1>11. FetchedInTime'
  <2>1. SUFFICES ASSUME up', request' # None, request'.of = "download"
                 PROVE  MayBeTried(request.v)'
      BY <1>f DEF FetchedInTime
  <2>2. request' = req /\ lastAuto' = lastAuto /\ clock' = clock /\ newest' = newest
      BY <1>f, <2>1 DEF CheckAsked
  <2>3. CASE answer = None
    <3>1. MayBeTried(request.v) /\ request' = request
        BY <1>f, <1>n, <1>p, <2>1, <2>2, <2>3 DEF FetchedInTime
    <3>2. attempt' = attempt /\ installWhenReady' = installWhenReady
        BY <1>f, <1>n, <2>3
    <3> QED BY <2>2, <3>1, <3>2 DEF MayBeTried, Offered, Versions
  <2>4. CASE answer # None
    <3>1. /\ answer.ok /\ answer.of = "check" /\ answer.v # None
          /\ MayAutoInstall(attempt, answer.v, clock)
          /\ req = [of |-> "download", v |-> answer.v] /\ att = attempt
      <4>1. req # None
          BY <2>1, <2>2
      <4>2. answer.ok
          BY <1>x, <2>4, <4>1
      <4>3. answer.of = "check"
          BY <1>d, <2>4, <4>1, <4>2
      <4> QED BY <1>c, <2>4, <4>1, <4>2, <4>3
    <3>2. Offered(answer.v) /\ (attempt # None => attempt.v <= answer.v)
        BY <1>p, <2>4, <3>1 DEF NewsIsNewest
    <3>3. lastAuto[answer.v] # None => clock >= lastAuto[answer.v] + RetryAfter
        BY <1>p, <3>1, <3>2, WhatMayBeTried DEF Offered
    <3>4. request'.v = answer.v /\ attempt' = attempt
        BY <1>f, <2>2, <3>1
    <3> QED BY <2>2, <3>2, <3>3, <3>4 DEF MayBeTried, Offered, Versions
  <2> QED BY <2>3, <2>4
<1>12. WaitingIsStamped'
  <2>1. SUFFICES ASSUME up', status'.s = "ready", ready' \notin byUser'
                 PROVE  /\ ready' \in Versions /\ attempt' # None /\ attempt'.v = ready'
                        /\ lastAuto'[ready'] # None => attempt'.at >= lastAuto'[ready'] + RetryAfter
      BY DEF WaitingIsStamped, Versions
  <2>2. status' = st /\ lastAuto' = lastAuto /\ ready' = inst /\ attempt' = att
      BY <1>f, <2>1 DEF CheckAsked
  <2> QED BY <1>3, <2>1, <2>2
<1> QED BY <1>6, <1>7, <1>8, <1>9, <1>10, <1>11, <1>12 DEF LeavingInv

-----------------------------------------------------------------------------
\* What the invariant looks at; a step that leaves it alone keeps the invariant.
Watched == <<up, status, request, answer, installWhenReady, ready, attempt, stored.attempt,
             clock, newest, byUser, lastAuto, tooSoon>>
LEMMA QuietKeeps == LeavingInv /\ UNCHANGED Watched => LeavingInv'
<1> SUFFICES ASSUME LeavingInv, UNCHANGED Watched
             PROVE  LeavingInv'
    OBVIOUS
<1> USE DEF Watched
<1>1. LeavingTypeOK' /\ TriesAreKept'
    BY DEF LeavingInv, LeavingTypeOK, TriesAreKept, Versions, Tries
<1>2. OneAtATime' /\ NewsIsNewest' /\ NotEveryExit'
    BY DEF LeavingInv, OneAtATime, NewsIsNewest, NotEveryExit, Offered, Versions
<1>3. FetchedInTime' /\ WaitingIsStamped'
    BY DEF LeavingInv, FetchedInTime, WaitingIsStamped, MayBeTried, Offered, Versions
<1> QED BY <1>1, <1>2, <1>3 DEF LeavingInv

\* No request and no answer is out where the status says that none is awaited.
LEMMA NothingOut ==
    OneAtATime /\ status.s \notin {"checking", "downloading"} => request = None /\ answer = None
    BY DEF OneAtATime

\* The user has a check made, or an update fetched or installed.
LEMMA RequestsKeep ==
    ASSUME LeavingInv, NEW ok \in BOOLEAN, ChecksNow \/ InstallsNow(ok)
    PROVE  LeavingInv'
<1>p. /\ LeavingTypeOK /\ OneAtATime /\ NewsIsNewest /\ FetchedInTime
      /\ TriesAreKept /\ WaitingIsStamped /\ NotEveryExit
    BY DEF LeavingInv
<1>1. CASE ChecksNow
  <2>1. request = None /\ answer = None
      BY <1>1, <1>p, NothingOut DEF ChecksNow, Busy
  <2>2. /\ status' = [s |-> "checking", v |-> None] /\ request' = [of |-> "check", v |-> None]
        /\ UNCHANGED <<up, attempt, installWhenReady, ready, answer, stored, clock, newest,
                       byUser, lastAuto, tooSoon>>
      BY <1>1 DEF ChecksNow, window, outside, ghosts
  <2>3. LeavingTypeOK' /\ TriesAreKept' /\ NotEveryExit'
      BY <2>2, <1>p DEF LeavingTypeOK, TriesAreKept, NotEveryExit, Versions, Tries
  <2>4. OneAtATime' /\ NewsIsNewest'
      BY <2>1, <2>2, <1>p DEF OneAtATime, NewsIsNewest
  <2>5. FetchedInTime' /\ WaitingIsStamped'
      BY <2>1, <2>2 DEF FetchedInTime, WaitingIsStamped
  <2> QED BY <2>3, <2>4, <2>5 DEF LeavingInv
<1>2. ASSUME InstallsNow(ok)
      PROVE  LeavingInv'
  <2>1. /\ status.s \in {"available", "ready"}
        /\ UNCHANGED <<up, attempt, ready, answer, stored, clock, newest, lastAuto, tooSoon>>
      BY <1>2 DEF InstallsNow, Is
  <2>2. request = None /\ answer = None
      BY <2>1, <1>p, NothingOut
  <2>3. LeavingTypeOK' /\ TriesAreKept' /\ NotEveryExit'
      BY <2>1, <1>p DEF LeavingTypeOK, TriesAreKept, NotEveryExit, Versions, Tries
  <2>4. CASE /\ status.s = "available" /\ installWhenReady' = TRUE
             /\ status' = [s |-> "downloading", v |-> status.v]
             /\ request' = [of |-> "download", v |-> status.v]
    <3>1. OneAtATime' /\ NewsIsNewest' /\ WaitingIsStamped'
        BY <2>1, <2>2, <2>4 DEF OneAtATime, NewsIsNewest, WaitingIsStamped
    <3>2. Offered(status.v)
        BY <2>4, <1>p DEF NewsIsNewest
    <3>3. FetchedInTime'
        BY <2>1, <2>2, <2>4, <3>2 DEF FetchedInTime, MayBeTried, Offered, Versions
    <3> QED BY <2>3, <3>1, <3>3 DEF LeavingInv
  <2>5. CASE /\ status.s = "ready" /\ UNCHANGED <<installWhenReady, request>>
             /\ byUser' = IF ok THEN byUser \cup {ready} ELSE byUser
             /\ status' = IF ok THEN status ELSE [s |-> "failed", v |-> None]
    <3>1. OneAtATime' /\ FetchedInTime' /\ NewsIsNewest'
        BY <2>1, <2>2, <2>5 DEF OneAtATime, FetchedInTime, NewsIsNewest
    <3>2. status'.s = "ready" => ready' \in byUser'
        BY <2>1, <2>5
    <3>3. WaitingIsStamped'
        BY <3>2 DEF WaitingIsStamped
    <3> QED BY <2>3, <3>1, <3>3 DEF LeavingInv
  <2>6. \/ /\ status.s = "available" /\ installWhenReady' = TRUE
           /\ status' = [s |-> "downloading", v |-> status.v]
           /\ request' = [of |-> "download", v |-> status.v]
        \/ /\ status.s = "ready" /\ UNCHANGED <<installWhenReady, request>>
           /\ byUser' = IF ok THEN byUser \cup {ready} ELSE byUser
           /\ status' = IF ok THEN status ELSE [s |-> "failed", v |-> None]
      BY <1>2, Zenon DEF InstallsNow, Is
  <2> QED BY <2>4, <2>5, <2>6
<1> QED BY <1>1, <1>2

\* The worker answers.
LEMMA WorkerKeeps ==
    ASSUME LeavingInv, NEW ok, Worker(ok)
    PROVE  LeavingInv'
<1>p. /\ LeavingTypeOK /\ OneAtATime /\ NewsIsNewest /\ FetchedInTime
      /\ TriesAreKept /\ WaitingIsStamped /\ NotEveryExit
    BY DEF LeavingInv
<1>1. /\ up /\ request # None /\ request' = None
      /\ answer'.of = request.of
      /\ answer'.v = IF request.of = "download" THEN request.v
                     ELSE IF newest > build THEN newest ELSE None
      /\ UNCHANGED <<up, attempt, status, installWhenReady, ready, stored, clock, newest,
                     byUser, lastAuto, tooSoon>>
    BY DEF Worker, window, outside, ghosts
<1>2. LeavingTypeOK' /\ TriesAreKept' /\ NotEveryExit'
    BY <1>1, <1>p DEF LeavingTypeOK, TriesAreKept, NotEveryExit, Versions, Tries
<1>3. OneAtATime'
    BY <1>1, <1>p DEF OneAtATime
<1>4. NewsIsNewest'
  <2>1. Offered(newest) /\ (attempt # None => attempt.v <= newest)
      BY <1>p, LeavingAssumption DEF LeavingTypeOK, Offered, Versions
  <2>2. answer'.of = "check" => answer'.v \in {newest, None}
      BY <1>1
  <2>3. status'.s = "available" => Offered(status'.v)
      BY <1>1, <1>p DEF NewsIsNewest
  <2> QED BY <1>1, <2>1, <2>2, <2>3 DEF NewsIsNewest, Offered, Versions
<1>5. FetchedInTime'
  <2>1. request.of = "download" => MayBeTried(request.v) /\ answer'.v = request.v
      BY <1>1, <1>p DEF FetchedInTime
  <2> QED BY <1>1, <2>1 DEF FetchedInTime, MayBeTried, Offered, Versions
<1>6. WaitingIsStamped'
    BY <1>1, <1>p DEF WaitingIsStamped, Versions
<1> QED BY <1>2, <1>3, <1>4, <1>5, <1>6 DEF LeavingInv

\* The settings are saved, and the program ends and starts.
LEMMA SessionsKeep ==
    ASSUME LeavingInv, Saves \/ Starts \/ Killed
    PROVE  LeavingInv'
<1>p. /\ LeavingTypeOK /\ OneAtATime /\ NewsIsNewest /\ FetchedInTime
      /\ TriesAreKept /\ WaitingIsStamped /\ NotEveryExit
    BY DEF LeavingInv
<1>1. CASE Saves
  <2>1. /\ stored'.attempt = attempt
        /\ UNCHANGED <<up, status, request, answer, installWhenReady, ready, attempt, clock,
                       newest, byUser, lastAuto, tooSoon>>
      BY <1>1 DEF Saves, window, updater, ghosts
  <2>2. LeavingTypeOK' /\ TriesAreKept'
      BY <2>1, <1>p DEF LeavingTypeOK, TriesAreKept, Versions, Tries
  <2>3. OneAtATime' /\ NewsIsNewest' /\ NotEveryExit'
      BY <2>1, <1>p DEF OneAtATime, NewsIsNewest, NotEveryExit, Offered, Versions
  <2>4. FetchedInTime' /\ WaitingIsStamped'
      BY <2>1, <1>p DEF FetchedInTime, WaitingIsStamped, MayBeTried, Offered, Versions
  <2> QED BY <2>2, <2>3, <2>4 DEF LeavingInv
<1>2. CASE Starts
  <2>1. /\ attempt' = stored.attempt /\ status' = Idle /\ request' = None /\ answer' = None
        /\ UNCHANGED <<stored, clock, newest, lastAuto, tooSoon>>
      BY <1>2 DEF Starts, outside
  <2>2. LeavingTypeOK' /\ TriesAreKept'
      BY <2>1, <1>p DEF LeavingTypeOK, TriesAreKept, Versions, Tries
  <2>3. OneAtATime' /\ NewsIsNewest' /\ NotEveryExit'
      BY <2>1, <1>p DEF OneAtATime, NewsIsNewest, NotEveryExit, Idle
  <2>4. FetchedInTime' /\ WaitingIsStamped'
      BY <2>1 DEF FetchedInTime, WaitingIsStamped, Idle
  <2> QED BY <2>2, <2>3, <2>4 DEF LeavingInv
<1>3. CASE Killed
  <2>1. /\ up' = FALSE
        /\ UNCHANGED <<status, request, answer, attempt, stored, clock, newest, lastAuto, tooSoon>>
      BY <1>3 DEF Killed, updater, outside, ghosts
  <2>2. LeavingTypeOK' /\ TriesAreKept'
      BY <2>1, <1>p DEF LeavingTypeOK, TriesAreKept, Versions, Tries
  <2>3. OneAtATime' /\ NewsIsNewest' /\ NotEveryExit'
      BY <2>1, <1>p DEF OneAtATime, NewsIsNewest, NotEveryExit, Offered, Versions
  <2>4. FetchedInTime' /\ WaitingIsStamped'
      BY <2>1 DEF FetchedInTime, WaitingIsStamped
  <2> QED BY <2>2, <2>3, <2>4 DEF LeavingInv
<1> QED BY <1>1, <1>2, <1>3

\* Time passes, the clock is set, a release comes out.
LEMMA TimeKeeps ==
    ASSUME LeavingInv, NEW t \in Clocks, NEW w \in Versions, Ticks(t, w)
    PROVE  LeavingInv'
<1>p. /\ LeavingTypeOK /\ OneAtATime /\ NewsIsNewest /\ FetchedInTime
      /\ TriesAreKept /\ WaitingIsStamped /\ NotEveryExit
    BY DEF LeavingInv
<1>1. /\ clock' = t /\ newest' = w /\ w >= newest
      /\ lastAuto' = IF t < clock THEN [v \in Versions |-> None] ELSE lastAuto
      /\ UNCHANGED <<up, status, request, answer, installWhenReady, ready, attempt, stored,
                     byUser, tooSoon>>
    BY DEF Ticks, window, updater
<1>2. /\ t \in Int /\ clock \in Int /\ w \in Int /\ newest \in Int
      /\ \A v \in Versions : v \in Int
    BY <1>p, LeavingAssumption DEF LeavingTypeOK, Versions
<1>3. ASSUME NEW v \in Versions, lastAuto'[v] # None
      PROVE  lastAuto'[v] = lastAuto[v] /\ lastAuto[v] \in Int /\ t >= clock
    BY <1>1, <1>2, <1>3, <1>p DEF LeavingTypeOK
<1>4. LeavingTypeOK'
  <2>1. \A a \in Tries : a.v \in Int
      BY <1>2 DEF Tries
  <2>2. lastAuto' \in [Versions -> Int \cup {None}]
      BY <1>1, <1>p DEF LeavingTypeOK
  <2>3. /\ attempt # None => attempt.v <= w
        /\ stored.attempt # None => stored.attempt.v <= w
      BY <1>1, <1>2, <1>p, <2>1 DEF LeavingTypeOK
  <2> QED BY <1>1, <1>2, <1>p, <2>2, <2>3 DEF LeavingTypeOK, Versions, Tries
<1>5. TriesAreKept'
  <2> SUFFICES ASSUME NEW v \in Versions, lastAuto'[v] # None, NEW a \in {attempt, stored.attempt}
               PROVE  /\ lastAuto'[v] <= clock' /\ a # None /\ a.v >= v
                      /\ a.v = v => a.at \in lastAuto'[v] .. clock'
      BY <1>1 DEF TriesAreKept, Versions
  <2>1. lastAuto'[v] = lastAuto[v] /\ lastAuto[v] \in Int /\ t >= clock /\ lastAuto[v] # None
      BY <1>3
  <2>2. /\ lastAuto[v] <= clock /\ a # None /\ a.v >= v
        /\ a.v = v => a.at \in lastAuto[v] .. clock
      BY <1>p, <2>1 DEF TriesAreKept
  <2> QED BY <1>1, <1>2, <2>1, <2>2
<1>6. ASSUME NEW v, MayBeTried(v)
      PROVE  MayBeTried(v)'
  <2>1. v \in Versions /\ v \in Int /\ v <= w
    <3>1. v \in Versions /\ v <= newest
        BY <1>6, Zenon DEF MayBeTried, Offered
    <3> QED BY <1>1, <1>2, <3>1
  <2>2. ASSUME ~installWhenReady, lastAuto'[v] # None
        PROVE  clock' >= lastAuto'[v] + RetryAfter
    <3>1. lastAuto'[v] = lastAuto[v] /\ lastAuto[v] \in Int /\ t >= clock /\ lastAuto[v] # None
        BY <1>3, <2>1, <2>2
    <3>2. clock >= lastAuto[v] + RetryAfter
        BY <1>6, <2>2, <3>1 DEF MayBeTried
    <3> QED BY <1>1, <1>2, <3>1, <3>2, LeavingAssumption
  <2> QED BY <1>1, <1>6, <2>1, <2>2 DEF MayBeTried, Offered, Versions
<1>7. FetchedInTime'
    BY <1>1, <1>6, <1>p DEF FetchedInTime
<1>8. NewsIsNewest'
  <2>1. ASSUME NEW v, Offered(v)
        PROVE  Offered(v)'
      BY <1>1, <1>2, <2>1 DEF Offered, Versions
  <2> QED BY <1>1, <1>p, <2>1 DEF NewsIsNewest
<1>9. WaitingIsStamped'
    BY <1>1, <1>3, <1>p DEF WaitingIsStamped, Versions
<1>10. OneAtATime' /\ NotEveryExit'
    BY <1>1, <1>p DEF OneAtATime, NotEveryExit
<1> QED BY <1>4, <1>5, <1>7, <1>8, <1>9, <1>10 DEF LeavingInv

LEMMA LeavingStarts == Init => LeavingInv
<1> SUFFICES ASSUME Init
             PROVE  LeavingInv
    OBVIOUS
<1>1. /\ clock \in Int /\ newest \in Versions /\ attempt = None /\ stored.attempt = None
      /\ status = Idle /\ request = None /\ answer = None /\ tooSoon = FALSE
      /\ lastAuto = [v \in Versions |-> None]
    BY LeavingAssumption DEF Init
<1>2. LeavingTypeOK /\ TriesAreKept /\ NotEveryExit
    BY <1>1 DEF LeavingTypeOK, TriesAreKept, NotEveryExit
<1>3. OneAtATime /\ NewsIsNewest /\ FetchedInTime /\ WaitingIsStamped
    BY <1>1 DEF OneAtATime, NewsIsNewest, FetchedInTime, WaitingIsStamped, Idle
<1> QED BY <1>2, <1>3 DEF LeavingInv

LEMMA LeavingSteps == LeavingInv /\ [Next]_vars => LeavingInv'
<1> SUFFICES ASSUME LeavingInv, [Next]_vars
             PROVE  LeavingInv'
    OBVIOUS
<1>1. CASE \E landed, planned, ok \in BOOLEAN : Frame(landed, planned, ok)
    BY <1>1, FrameKeeps
<1>2. CASE AsksClose \/ PressesRename \/ PressesUndo
    BY <1>2, QuietKeeps
       DEF AsksClose, PressesRename, PressesUndo, Watched, updater, outside, ghosts
<1>3. ASSUME NEW m, SetsMode(m)
      PROVE  LeavingInv'
    BY <1>3, QuietKeeps DEF SetsMode, Watched, window, outside, ghosts
<1>4. ASSUME NEW ok, InstallerEnds(ok)
      PROVE  LeavingInv'
    BY <1>4, QuietKeeps DEF InstallerEnds, Watched, window, updater, ghosts
<1>5. CASE UNCHANGED vars
    BY <1>5, QuietKeeps DEF vars, Watched, window, updater, outside, ghosts
<1>6. CASE ChecksNow \/ \E ok \in BOOLEAN : InstallsNow(ok)
    BY <1>6, RequestsKeep
<1>7. CASE \E ok \in BOOLEAN : Worker(ok)
    BY <1>7, WorkerKeeps
<1>8. CASE Saves \/ Starts \/ Killed
    BY <1>8, SessionsKeep
<1>9. CASE \E t \in Clocks, v \in Versions : Ticks(t, v)
    BY <1>9, TimeKeeps
<1> QED BY <1>1, <1>2, <1>3, <1>4, <1>5, <1>6, <1>7, <1>8, <1>9 DEF Next

\* In every state of every run, over any number of sessions: what was tried on a way out
\* is in the settings, a request and its answer are never out together, and an installer
\* that waits was stamped for.
THEOREM LeavingInductive == Spec => []LeavingInv
<1> QED BY LeavingStarts, LeavingSteps, PTL DEF Spec

\* An installer that does not take is not started again by every exit (update.rs,
\* may_auto_install; app.rs, on_exit): a week lies between two tries of one version.
THEOREM NotEveryExitHolds == Spec => []NotEveryExit
<1>1. LeavingInv => NotEveryExit
    BY DEF LeavingInv
<1> QED BY <1>1, LeavingInductive, PTL

-----------------------------------------------------------------------------
(***************************************************************************)
(* The keys of a list's rows.  A key is given once; a frame that draws the *)
(* list finds under each key what was typed into the row it drew there     *)
(* last, or gives every row a key nothing was ever typed under.            *)
(***************************************************************************)

\* What a row is, and the texts that rows are made of.
LEMMA RowIs ==
    /\ \A r \in Row : r.id \in Nat
    /\ \A n \in Nat, t \in Words : [id |-> n, text |-> t] \in Row
BY DEF Row
LEMMA TextsAre ==
    /\ <<Empty>> \in Seq(Words) /\ Len(<<Empty>>) = 1 /\ <<"a">> \in Seq(Words) /\ Len(<<"a">>) = 1
    /\ <<"a", "a">> \in Seq(Words) /\ Len(<<"a", "a">>) = 2
BY DEF Words
LEMMA NoKeys == ASSUME NEW m PROVE KeysUpTo(<<>>, m) /\ Len(<<>>) = 0
BY DEF KeysUpTo

\* The keys there are, and from there on keys past the last ever given.
LEMMA GrownIs ==
    ASSUME NEW from \in Nat, NEW len \in Nat, NEW kept, KeysUpTo(kept, from), Len(kept) <= len
    PROVE  /\ NextMark(kept, from, len) \in Nat /\ from <= NextMark(kept, from, len)
           /\ KeysUpTo(GrownTo(kept, from, len), NextMark(kept, from, len))
           /\ Len(GrownTo(kept, from, len)) = len
           /\ \A i \in 1..len : IF i <= Len(kept) THEN GrownTo(kept, from, len)[i] = kept[i]
                                ELSE GrownTo(kept, from, len)[i] >= from
<1> DEFINE g == GrownTo(kept, from, len)
           next == NextMark(kept, from, len)
<1>0. /\ kept \in Seq(Nat) /\ \A i \in DOMAIN kept : kept[i] < from
      /\ \A i, j \in DOMAIN kept : kept[i] = kept[j] => i = j
    BY Zenon DEF KeysUpTo
<1>1. next \in Nat /\ from <= next /\ Len(kept) \in Nat /\ next = from + len - Len(kept)
    BY <1>0 DEF NextMark
<1>2. \A i \in 1..len : g[i] = IF i <= Len(kept) THEN kept[i] ELSE from + i - Len(kept) - 1
    BY <1>0 DEF GrownTo
<1>3. \A i \in 1..Len(kept) : kept[i] \in Nat /\ kept[i] < from
    BY <1>0, <1>1
<1>4. \A i \in 1..len : g[i] \in Nat /\ g[i] < next
    BY <1>1, <1>2, <1>3
<1>5. g \in Seq(Nat) /\ Len(g) = len
    BY <1>1, <1>4 DEF GrownTo
<1> HIDE DEF g, next
<1>6. ASSUME NEW i \in 1..len, NEW j \in 1..len, g[i] = g[j]
      PROVE  i = j
  <2>1. CASE i <= Len(kept) /\ j <= Len(kept)
    <3>1. i \in DOMAIN kept /\ j \in DOMAIN kept
        BY <1>0, <1>1, <2>1
    <3>2. kept[i] = kept[j]
        BY <1>2, <1>6, <2>1
    <3> QED BY <1>0, <3>1, <3>2, Zenon
  <2>2. CASE i <= Len(kept) /\ j > Len(kept)
    <3>1. g[i] < from
        BY <1>1, <1>2, <1>3, <2>2
    <3>2. g[j] >= from
        BY <1>1, <1>2, <2>2
    <3> QED BY <1>4, <1>6, <3>1, <3>2
  <2>3. CASE i > Len(kept) /\ j <= Len(kept)
    <3>1. g[j] < from
        BY <1>1, <1>2, <1>3, <2>3
    <3>2. g[i] >= from
        BY <1>1, <1>2, <2>3
    <3> QED BY <1>4, <1>6, <3>1, <3>2
  <2>4. CASE i > Len(kept) /\ j > Len(kept)
      BY <1>1, <1>2, <1>6, <2>4
  <2> QED BY <1>1, <2>1, <2>2, <2>3, <2>4
<1>7. KeysUpTo(g, next)
  <2>1. DOMAIN g = 1..len
      BY <1>5
  <2> QED BY <1>4, <1>5, <1>6, <2>1, Zenon DEF KeysUpTo
<1>8. \A i \in 1..len : IF i <= Len(kept) THEN g[i] = kept[i] ELSE g[i] >= from
    BY <1>1, <1>2
<1> QED BY <1>1, <1>5, <1>7, <1>8, Zenon DEF g, next

\* A list of rows and keys that is drawn from the rows and their keys as a frame finds them:
\* none comes twice, each under the key it had.
DrawnFrom(from, left, ks) ==
    /\ left \in Seq(Row) /\ ks \in Seq(Nat) /\ Len(ks) = Len(left)
    /\ from \in [1..Len(left) -> 1..Len(rows)] /\ \A i, j \in 1..Len(left) : from[i] = from[j] => i = j
    /\ \A j \in 1..Len(left) : left[j] = rows[from[j]] /\ ks[j] = Fitted[from[j]]

\* The parts of the invariant that are of a sort.
LEMMA ListInvIs ==
    ASSUME ListInv, EditorsAssumption
    PROVE  /\ rows \in Seq(Row) /\ Len(rows) \in Nat /\ drawn \in Seq(Nat) /\ laidRows \in Nat
           /\ mark \in Nat /\ MaxKeys \in Nat /\ mark <= MaxKeys
           /\ KeysUpTo(keys, mark) /\ keys \in Seq(Nat) /\ BlankFrom(history, mark)
           /\ ~missed => OfTheirRows(history, keys, drawn)
<1>1. /\ rows \in Seq(Row) /\ drawn \in Seq(Nat) /\ laidRows \in Nat /\ mark \in Nat /\ mark <= MaxKeys
      /\ KeysUpTo(keys, mark) /\ BlankFrom(history, mark) /\ (~missed => OfTheirRows(history, keys, drawn))
    BY Zenon DEF ListInv
<1>2. MaxKeys \in Nat
    BY Zenon DEF EditorsAssumption
<1>3. keys \in Seq(Nat)
    BY <1>1, Zenon DEF KeysUpTo
<1>4. Len(rows) \in Nat
  <2>1. rows \in Seq(Row)
      BY <1>1, Zenon
  <2> QED BY <2>1
<1> QED BY <1>1, <1>2, <1>3, <1>4, Zenon

LEMMA IdsAre ==
    ASSUME NEW list \in Seq(Row)
    PROVE  IdsOf(list) \in Seq(Nat) /\ Len(IdsOf(list)) = Len(list) /\ \A i \in 1..Len(list) : IdsOf(list)[i] = list[i].id
<1>1. \A i \in DOMAIN list : list[i].id \in Nat
    BY RowIs
<1> QED BY <1>1 DEF IdsOf

\* The list was put in another's place behind the frame's back.
Behind == Len(keys) = Len(rows) /\ IdsOf(rows) # drawn

\* What a frame finds: keys that fit, under each of which only its own row was typed in.
LEMMA FittedIs ==
    ASSUME ListInv, EditorsAssumption
    PROVE  /\ FittedMark \in Nat /\ mark <= FittedMark /\ KeysUpTo(Fitted, FittedMark) /\ Len(Fitted) = Len(rows)
           /\ FittedMark <= MaxKeys /\ ~missed /\ ~Behind => OfTheirRows(history, Fitted, IdsOf(rows))
<1>1. /\ Len(rows) \in Nat /\ rows \in Seq(Row) /\ mark \in Nat /\ KeysUpTo(keys, mark) /\ MaxKeys \in Nat
      /\ ~missed => OfTheirRows(history, keys, drawn)
    BY ListInvIs, Zenon
<1>2. CASE Len(keys) = Len(rows)
  <2>1. FittedMark = mark /\ Fitted = keys
      BY <1>2, Zenon DEF Fitted, FittedMark
  <2>2. mark <= mark
      BY <1>1
  <2> QED BY <1>1, <1>2, <2>1, <2>2, Zenon DEF Behind
<1>3. CASE Len(keys) # Len(rows)
  <2> DEFINE none == <<>>
             n == Len(rows)
             g == GrownTo(none, mark, n)
             m == NextMark(none, mark, n)
  <2>1. KeysUpTo(none, mark) /\ Len(none) = 0
      BY NoKeys, Zenon
  <2>2. FittedMark = m /\ Fitted = g
      BY <1>3, Zenon DEF Fitted, FittedMark
  <2>3. n \in Nat
      BY <1>1, Zenon
  <2> HIDE DEF none, n
  <2>6. Len(none) <= n
      BY <2>1, <2>3
  <2>7. /\ m \in Nat /\ mark <= m /\ KeysUpTo(g, m) /\ Len(g) = n
        /\ \A i \in 1..n : IF i <= Len(none) THEN g[i] = none[i] ELSE g[i] >= mark
      BY <1>1, <2>1, <2>3, <2>6, GrownIs, Zenon
  <2> HIDE DEF g, m
  <2>8. \A i \in 1..n : g[i] >= mark
      BY <2>1, <2>7
  <2>4. /\ FittedMark \in Nat /\ mark <= FittedMark /\ KeysUpTo(Fitted, FittedMark) /\ Len(Fitted) = Len(rows)
        /\ \A i \in 1..Len(rows) : Fitted[i] >= mark
      BY <2>2, <2>7, <2>8, Zenon DEF n
  <2>5. ASSUME FittedMark <= MaxKeys, NEW i \in DOMAIN Fitted
        PROVE  history[Fitted[i]] = {}
    <3>1. Fitted \in Seq(Nat) /\ Fitted[i] < FittedMark
        BY <2>4, Zenon DEF KeysUpTo
    <3>2. Fitted[i] \in Keys /\ Fitted[i] >= mark
        BY <1>1, <2>1, <2>4, <2>5, <3>1 DEF Keys
    <3> QED BY <3>2, ListInvIs, Zenon DEF BlankFrom
  <2>9. FittedMark <= MaxKeys => OfTheirRows(history, Fitted, IdsOf(rows))
      BY <2>5 DEF OfTheirRows
  <2> QED BY <2>4, <2>9, Zenon
<1> QED BY <1>2, <1>3, Zenon

\* A frame that draws keeps what the keys stand for, if those it leaves are of their rows.
LEMMA DrawsKeeps ==
    ASSUME EditorsAssumption, laidRows' \in Nat,
           NEW left \in Seq(Row), NEW m \in Nat, NEW ks, KeysUpTo(ks, m), Draws(left, ks, m),
           BlankFrom(history', m), ~missed' => OfTheirRows(history', ks, IdsOf(left))
    PROVE  ListInv'
<1>1. rows' = left /\ keys' = ks /\ mark' = m /\ drawn' = IdsOf(left) /\ m <= MaxKeys
    BY Zenon DEF Draws
<1>2. IdsOf(left) \in Seq(Nat)
    BY IdsAre, Zenon
<1> QED BY <1>1, <1>2, Zenon DEF ListInv

\* What a frame that draws has found.
LEMMA DrawsFinds ==
    ASSUME ListInv, EditorsAssumption, NEW left, NEW ks, NEW m, Draws(left, ks, m), m \in Nat, FittedMark <= m
    PROVE  /\ FittedMark <= MaxKeys
           /\ ~missed' => OfTheirRows(history, Fitted, IdsOf(rows))
<1>1. m <= MaxKeys /\ missed' = (missed \/ Behind)
    BY Zenon DEF Draws, Behind
<1>2. FittedMark <= MaxKeys
    BY <1>1, ListInvIs, FittedIs
<1> QED BY <1>1, <1>2, FittedIs, Zenon

\* Keys further on are blank, too.
LEMMA BlankOn ==
    ASSUME ListInv, EditorsAssumption, NEW m \in Nat, mark <= m
    PROVE  BlankFrom(history, m)
<1>1. history \in [Keys -> SUBSET Nat] /\ \A k \in Keys : k >= mark => history[k] = {}
    BY ListInvIs, Zenon DEF BlankFrom
<1>2. mark \in Nat
    BY ListInvIs, Zenon
<1>3. \A k \in Keys : k >= m => k >= mark
    BY <1>2 DEF Keys
<1> QED BY <1>1, <1>3, Zenon DEF BlankFrom

\* The new rows, and a list with one row less.
LEMMA NewRowsAre ==
    ASSUME NEW texts \in Seq(Words), laidRows \in Nat
    PROVE  NewRows(texts) \in Seq(Row) /\ Len(NewRows(texts)) = Len(texts)
<1>1. \A i \in DOMAIN texts : texts[i] \in Words /\ laidRows + i \in Nat
    OBVIOUS
<1>2. \A i \in DOMAIN texts : [id |-> laidRows + i, text |-> texts[i]] \in Row
    BY <1>1, RowIs
<1> QED BY <1>2 DEF NewRows

Without(s, i) == SubSeq(s, 1, i - 1) \o SubSeq(s, i + 1, Len(s))
LEMMA WithoutIs ==
    ASSUME NEW S, NEW s \in Seq(S), NEW i \in 1..Len(s)
    PROVE  /\ Without(s, i) \in Seq(S) /\ Len(Without(s, i)) = Len(s) - 1
           /\ \A j \in 1..(Len(s) - 1) : Without(s, i)[j] = s[IF j < i THEN j ELSE j + 1]
<1> DEFINE a == SubSeq(s, 1, i - 1)
           b == SubSeq(s, i + 1, Len(s))
<1>1. a \in Seq(S) /\ Len(a) = i - 1 /\ \A j \in 1..(i - 1) : a[j] = s[j]
    OBVIOUS
<1>2. b \in Seq(S) /\ Len(b) = Len(s) - i /\ \A j \in 1..(Len(s) - i) : b[j] = s[j + i]
    OBVIOUS
<1>3. Without(s, i) = a \o b
    BY DEF Without
<1> HIDE DEF a, b
<1>4. Without(s, i) \in Seq(S) /\ Len(Without(s, i)) = Len(s) - 1
    BY <1>1, <1>2, <1>3
<1>5. \A j \in 1..(Len(s) - 1) : Without(s, i)[j] = IF j < i THEN a[j] ELSE b[j - i + 1]
    BY <1>1, <1>2, <1>3
<1> QED BY <1>1, <1>2, <1>4, <1>5

\* A frame that leaves some of its rows, in any order, each under its key.
LEMMA RearrangedKeeps ==
    ASSUME ListInv, EditorsAssumption, history' = history, laidRows' = laidRows,
           NEW left, NEW ks, Draws(left, ks, FittedMark), NEW from, DrawnFrom(from, left, ks)
    PROVE  ListInv'
<1>0. /\ left \in Seq(Row) /\ ks \in Seq(Nat) /\ Len(ks) = Len(left)
      /\ from \in [1..Len(left) -> 1..Len(rows)] /\ \A i, j \in 1..Len(left) : from[i] = from[j] => i = j
      /\ \A j \in 1..Len(left) : left[j] = rows[from[j]] /\ ks[j] = Fitted[from[j]]
    BY Zenon DEF DrawnFrom
<1>1. /\ rows \in Seq(Row) /\ laidRows \in Nat /\ Len(rows) \in Nat
      /\ FittedMark \in Nat /\ mark <= FittedMark /\ KeysUpTo(Fitted, FittedMark) /\ Len(Fitted) = Len(rows)
    BY ListInvIs, FittedIs, Zenon
<1>2. /\ Fitted \in Seq(Nat) /\ \A i \in DOMAIN Fitted : Fitted[i] < FittedMark
      /\ \A i, j \in DOMAIN Fitted : Fitted[i] = Fitted[j] => i = j
    BY <1>1, Zenon DEF KeysUpTo
<1>3. DOMAIN ks = 1..Len(left) /\ DOMAIN Fitted = 1..Len(rows)
    BY <1>0, <1>1, <1>2
<1>4. \A j \in 1..Len(left) : from[j] \in DOMAIN Fitted
    BY <1>0, <1>3
<1>5. KeysUpTo(ks, FittedMark)
  <2>1. \A j \in DOMAIN ks : ks[j] < FittedMark
    <3> SUFFICES ASSUME NEW j \in DOMAIN ks PROVE ks[j] < FittedMark
        OBVIOUS
    <3>1. ks[j] = Fitted[from[j]] /\ from[j] \in DOMAIN Fitted
        BY <1>0, <1>3, <1>4, Zenon
    <3> QED BY <1>2, <3>1, Zenon
  <2>2. ASSUME NEW j \in DOMAIN ks, NEW k \in DOMAIN ks, ks[j] = ks[k]
        PROVE  j = k
    <3>1. /\ ks[j] = Fitted[from[j]] /\ from[j] \in DOMAIN Fitted /\ j \in 1..Len(left)
          /\ ks[k] = Fitted[from[k]] /\ from[k] \in DOMAIN Fitted /\ k \in 1..Len(left)
        BY <1>0, <1>3, <1>4, Zenon
    <3>2. Fitted[from[j]] = Fitted[from[k]]
        BY <2>2, <3>1, Zenon
    <3>3. from[j] = from[k]
        BY <1>2, <3>1, <3>2, Zenon
    <3> QED BY <1>0, <3>1, <3>3, Zenon
  <2> QED BY <1>0, <2>1, <2>2, Zenon DEF KeysUpTo
<1>6. BlankFrom(history', FittedMark)
    BY <1>1, BlankOn, Zenon
<1>7. ASSUME ~missed'
      PROVE  OfTheirRows(history', ks, IdsOf(left))
  <2>1. FittedMark <= FittedMark
      BY <1>1
  <2>2. OfTheirRows(history, Fitted, IdsOf(rows))
      BY <1>1, <1>7, <2>1, DrawsFinds, Zenon
  <2>3. \A i \in DOMAIN Fitted : history[Fitted[i]] \subseteq {IdsOf(rows)[i]}
      BY <1>1, <2>2, IdsAre, Zenon DEF OfTheirRows
  <2>4. ASSUME NEW j \in DOMAIN ks
        PROVE  history[ks[j]] \subseteq {IdsOf(left)[j]}
    <3>1. from[j] \in DOMAIN Fitted /\ left[j] = rows[from[j]] /\ ks[j] = Fitted[from[j]]
        BY <1>0, <1>3, <1>4, Zenon
    <3>2. IdsOf(left)[j] = left[j].id /\ IdsOf(rows)[from[j]] = rows[from[j]].id
        BY <1>0, <1>1, <1>3, <1>4, <3>1, IdsAre, Zenon
    <3>3. history[Fitted[from[j]]] \subseteq {IdsOf(rows)[from[j]]}
        BY <2>3, <3>1, Zenon
    <3>4. IdsOf(left)[j] = IdsOf(rows)[from[j]]
        BY <3>1, <3>2, Zenon
    <3> QED BY <3>1, <3>3, <3>4, Zenon
  <2> QED BY <2>4, Zenon DEF OfTheirRows
<1>8. laidRows' \in Nat
    BY <1>1, Zenon
<1> QED BY <1>0, <1>1, <1>5, <1>6, <1>7, <1>8, DrawsKeeps, Zenon

LEMMA ListStarts == ASSUME EditorsAssumption PROVE ListInit => ListInv
<1> SUFFICES ASSUME ListInit PROVE ListInv
    OBVIOUS
<1>1. MaxKeys \in Nat
    BY Zenon DEF EditorsAssumption
<1>2. rows \in Seq(Row) /\ drawn \in Seq(Nat) /\ laidRows \in Nat /\ mark \in Nat /\ mark <= MaxKeys /\ Len(keys) = 0
    BY <1>1 DEF ListInit
<1>3. KeysUpTo(keys, mark)
    BY NoKeys, Zenon DEF ListInit
<1>4. BlankFrom(history, mark)
    BY DEF ListInit, BlankFrom
<1>5. OfTheirRows(history, keys, drawn)
    BY DEF ListInit, OfTheirRows
<1> QED BY <1>2, <1>3, <1>4, <1>5, Zenon DEF ListInv

LEMMA TypesKeeps ==
    ASSUME EditorsAssumption, ListInv, TypesInRow
    PROVE  ListInv'
<1>1. PICK i \in DOMAIN rows, t \in Words :
           /\ Draws([rows EXCEPT ![i] = [id |-> rows[i].id, text |-> t]], Fitted, FittedMark)
           /\ history' = [history EXCEPT ![Fitted[i]] = @ \cup {rows[i].id}]
    BY Zenon DEF TypesInRow
<1>2. /\ rows \in Seq(Row) /\ laidRows \in Nat /\ Len(rows) \in Nat /\ mark \in Nat /\ MaxKeys \in Nat
      /\ FittedMark \in Nat /\ mark <= FittedMark /\ KeysUpTo(Fitted, FittedMark) /\ Len(Fitted) = Len(rows)
    BY ListInvIs, FittedIs, Zenon
<1>3. /\ Fitted \in Seq(Nat) /\ \A k \in DOMAIN Fitted : Fitted[k] < FittedMark
      /\ \A k, j \in DOMAIN Fitted : Fitted[k] = Fitted[j] => k = j
    BY <1>2, Zenon DEF KeysUpTo
<1> DEFINE left == [rows EXCEPT ![i] = [id |-> rows[i].id, text |-> t]]
<1>4. rows[i] \in Row /\ rows[i].id \in Nat /\ [id |-> rows[i].id, text |-> t] \in Row
    BY <1>2, RowIs
<1>5. left \in Seq(Row) /\ Len(left) = Len(rows) /\ \A j \in 1..Len(rows) : left[j].id = rows[j].id
    BY <1>2, <1>4
<1>6. Draws(left, Fitted, FittedMark)
    BY <1>1, Zenon
<1> HIDE DEF left
<1>7. FittedMark <= FittedMark
    BY <1>2
<1>8. FittedMark <= MaxKeys /\ (~missed' => OfTheirRows(history, Fitted, IdsOf(rows)))
    BY <1>2, <1>6, <1>7, DrawsFinds, Zenon
<1>9. DOMAIN Fitted = 1..Len(rows) /\ DOMAIN rows = 1..Len(rows) /\ (\A j \in 1..Len(rows) : Fitted[j] \in Keys)
    BY <1>2, <1>3, <1>8 DEF Keys
<1>10. BlankFrom(history, FittedMark)
    BY <1>2, BlankOn, Zenon
<1>11. /\ history \in [Keys -> SUBSET Nat] /\ \A k \in Keys : k >= FittedMark => history[k] = {}
    BY <1>10, Zenon DEF BlankFrom
<1>12. history' \in [Keys -> SUBSET Nat]
    BY <1>1, <1>4, <1>9, <1>11
<1>13. ASSUME NEW k \in Keys, k >= FittedMark
       PROVE  history'[k] = {}
  <2>1. k # Fitted[i]
      BY <1>2, <1>3, <1>9, <1>13 DEF Keys
  <2> QED BY <1>1, <1>11, <1>13, <2>1
<1>14. BlankFrom(history', FittedMark)
    BY <1>12, <1>13, Zenon DEF BlankFrom
<1>15. ASSUME ~missed', NEW j \in DOMAIN Fitted
       PROVE  history'[Fitted[j]] \subseteq {IdsOf(left)[j]}
  <2>1. history[Fitted[j]] \subseteq {IdsOf(rows)[j]}
      BY <1>2, <1>8, <1>15, IdsAre, Zenon DEF OfTheirRows
  <2>2. IdsOf(rows)[j] = rows[j].id /\ IdsOf(left)[j] = rows[j].id
      BY <1>2, <1>5, <1>9, IdsAre, Zenon
  <2>3. CASE j = i
      BY <1>1, <1>9, <1>11, <2>1, <2>2, <2>3
  <2>4. CASE j # i
    <3>1. Fitted[j] # Fitted[i]
        BY <1>3, <1>9, <2>4, Zenon
    <3> QED BY <1>1, <1>9, <1>11, <2>1, <2>2, <3>1
  <2> QED BY <2>3, <2>4
<1>16. ~missed' => OfTheirRows(history', Fitted, IdsOf(left))
    BY <1>15, Zenon DEF OfTheirRows
<1>17. laidRows' \in Nat
    BY <1>2, Zenon DEF TypesInRow
<1> QED BY <1>2, <1>5, <1>6, <1>14, <1>16, <1>17, DrawsKeeps, Zenon

LEMMA AddsKeeps ==
    ASSUME EditorsAssumption, ListInv, AddsRows
    PROVE  ListInv'
<1>1. PICK texts \in {<<Empty>>, <<"a", "a">>} :
           /\ Lays(Len(texts), Len(rows))
           /\ Draws(rows \o NewRows(texts), GrownTo(Fitted, FittedMark, Len(rows) + Len(texts)),
                    NextMark(Fitted, FittedMark, Len(rows) + Len(texts)))
    BY Zenon DEF AddsRows
<1>2. history' = history
    BY Zenon DEF AddsRows
<1>3. texts \in Seq(Words) /\ Len(texts) \in Nat
    BY TextsAre
<1>4. /\ rows \in Seq(Row) /\ laidRows \in Nat /\ Len(rows) \in Nat /\ mark \in Nat /\ MaxKeys \in Nat
      /\ FittedMark \in Nat /\ mark <= FittedMark /\ KeysUpTo(Fitted, FittedMark) /\ Len(Fitted) = Len(rows)
    BY ListInvIs, FittedIs, Zenon
<1> DEFINE new == NewRows(texts)
           len == Len(rows) + Len(texts)
           left == rows \o new
           ks == GrownTo(Fitted, FittedMark, len)
           m == NextMark(Fitted, FittedMark, len)
<1>5. new \in Seq(Row) /\ Len(new) = Len(texts)
    BY <1>3, <1>4, NewRowsAre, Zenon
<1>6. Draws(left, ks, m)
    BY <1>1, Zenon
<1>7. laidRows' \in Nat
    BY <1>1, <1>3, <1>4 DEF Lays
<1> HIDE DEF new
<1>8. len \in Nat /\ Len(Fitted) <= len
    BY <1>3, <1>4
<1>9. left \in Seq(Row) /\ Len(left) = len /\ \A j \in 1..Len(rows) : left[j] = rows[j]
    BY <1>3, <1>4, <1>5
<1> HIDE DEF left, len
<1>10. /\ m \in Nat /\ FittedMark <= m /\ KeysUpTo(ks, m) /\ Len(ks) = len
       /\ \A i \in 1..len : IF i <= Len(Fitted) THEN ks[i] = Fitted[i] ELSE ks[i] >= FittedMark
    BY <1>4, <1>8, GrownIs, ZenonT(30)
<1> HIDE DEF ks, m
<1>11. mark <= m
    BY <1>4, <1>10
<1>12. BlankFrom(history', m)
    BY <1>2, <1>10, <1>11, BlankOn, Zenon
<1>13. ASSUME ~missed', NEW j \in DOMAIN ks
       PROVE  history'[ks[j]] \subseteq {IdsOf(left)[j]}
  <2>1. ks \in Seq(Nat) /\ ks[j] < m
      BY <1>10, Zenon DEF KeysUpTo
  <2>2. ks[j] \in Keys /\ j \in 1..len
    <3>1. m <= MaxKeys
        BY <1>6, Zenon DEF Draws
    <3> QED BY <1>4, <1>10, <2>1, <3>1 DEF Keys
  <2>3. CASE j <= Len(rows)
    <3>1. Fitted \in Seq(Nat)
        BY <1>4, Zenon DEF KeysUpTo
    <3>2. j \in 1..Len(rows) /\ j \in DOMAIN Fitted /\ ks[j] = Fitted[j]
        BY <1>4, <1>8, <1>10, <2>2, <2>3, <3>1
    <3>3. OfTheirRows(history, Fitted, IdsOf(rows))
        BY <1>6, <1>10, <1>13, DrawsFinds, Zenon
    <3>4. history[Fitted[j]] \subseteq {IdsOf(rows)[j]}
        BY <1>4, <3>2, <3>3, IdsAre, Zenon DEF OfTheirRows
    <3>5. IdsOf(rows)[j] = rows[j].id /\ IdsOf(left)[j] = left[j].id /\ left[j] = rows[j]
        BY <1>4, <1>9, <2>2, <3>2, IdsAre, Zenon
    <3> QED BY <1>2, <3>2, <3>4, <3>5, Zenon
  <2>4. CASE j > Len(rows)
    <3>1. ks[j] >= FittedMark
        BY <1>4, <1>10, <2>2, <2>4
    <3>2. BlankFrom(history, FittedMark)
        BY <1>4, BlankOn, Zenon
    <3>3. history[ks[j]] = {}
        BY <2>2, <3>1, <3>2, Zenon DEF BlankFrom
    <3> QED BY <1>2, <3>3
  <2> QED BY <1>4, <2>2, <2>3, <2>4
<1>14. ~missed' => OfTheirRows(history', ks, IdsOf(left))
    BY <1>13, Zenon DEF OfTheirRows
<1> QED BY <1>6, <1>7, <1>9, <1>10, <1>12, <1>14, DrawsKeeps, Zenon

LEMMA RemovesKeeps ==
    ASSUME EditorsAssumption, ListInv, RemovesRow
    PROVE  ListInv'
<1>1. PICK i \in DOMAIN rows : Draws(Without(rows, i), Without(Fitted, i), FittedMark)
    BY Zenon DEF RemovesRow, Without
<1>2. history' = history /\ laidRows' = laidRows
    BY Zenon DEF RemovesRow
<1>3. /\ rows \in Seq(Row) /\ Len(rows) \in Nat /\ Len(Fitted) = Len(rows)
      /\ KeysUpTo(Fitted, FittedMark)
    BY ListInvIs, FittedIs, Zenon
<1>4. Fitted \in Seq(Nat)
    BY <1>3, Zenon DEF KeysUpTo
<1> DEFINE left == Without(rows, i)
           ks == Without(Fitted, i)
           from == [j \in 1..(Len(rows) - 1) |-> IF j < i THEN j ELSE j + 1]
<1>5. i \in 1..Len(rows) /\ i \in 1..Len(Fitted)
    BY <1>3
<1>6. /\ left \in Seq(Row) /\ Len(left) = Len(rows) - 1
      /\ \A j \in 1..(Len(rows) - 1) : left[j] = rows[IF j < i THEN j ELSE j + 1]
    BY <1>3, <1>5, WithoutIs, Zenon
<1>7. /\ ks \in Seq(Nat) /\ Len(ks) = Len(Fitted) - 1
      /\ \A j \in 1..(Len(Fitted) - 1) : ks[j] = Fitted[IF j < i THEN j ELSE j + 1]
    BY <1>4, <1>5, WithoutIs, Zenon
<1>8. Draws(left, ks, FittedMark)
    BY <1>1, Zenon
<1> HIDE DEF left, ks
<1>9. from \in [1..(Len(rows) - 1) -> 1..Len(rows)]
    BY <1>3, <1>5
<1>10. \A j, k \in 1..(Len(rows) - 1) : from[j] = from[k] => j = k
    BY <1>3, <1>5
<1>11. \A j \in 1..(Len(rows) - 1) : from[j] = IF j < i THEN j ELSE j + 1
    OBVIOUS
<1> HIDE DEF from
<1>12. \A j \in 1..(Len(rows) - 1) : left[j] = rows[from[j]] /\ ks[j] = Fitted[from[j]]
    BY <1>3, <1>6, <1>7, <1>11, Zenon
<1>13. DrawnFrom(from, left, ks)
    BY <1>3, <1>6, <1>7, <1>9, <1>10, <1>12, Zenon DEF DrawnFrom
<1> QED BY <1>2, <1>8, <1>13, RearrangedKeeps, Zenon

LEMMA SwapsKeeps ==
    ASSUME EditorsAssumption, ListInv, SwapsRows
    PROVE  ListInv'
<1> DEFINE Swapped(s, i) == [s EXCEPT ![i] = s[i + 1], ![i + 1] = s[i]]
<1>1. PICK i \in DOMAIN rows : i < Len(rows) /\ Draws(Swapped(rows, i), Swapped(Fitted, i), FittedMark)
    BY Zenon DEF SwapsRows
<1>2. history' = history /\ laidRows' = laidRows
    BY Zenon DEF SwapsRows
<1>3. /\ rows \in Seq(Row) /\ Len(rows) \in Nat /\ Len(Fitted) = Len(rows)
      /\ KeysUpTo(Fitted, FittedMark)
    BY ListInvIs, FittedIs, Zenon
<1>4. Fitted \in Seq(Nat)
    BY <1>3, Zenon DEF KeysUpTo
<1> DEFINE left == Swapped(rows, i)
           ks == Swapped(Fitted, i)
           from == [j \in 1..Len(rows) |-> IF j = i THEN i + 1 ELSE IF j = i + 1 THEN i ELSE j]
<1>5. left \in Seq(Row) /\ Len(left) = Len(rows)
    BY <1>1, <1>3
<1>6. ks \in Seq(Nat) /\ Len(ks) = Len(rows)
    BY <1>1, <1>3, <1>4
<1>7. Draws(left, ks, FittedMark)
    BY <1>1, Zenon
<1>8. \A j \in 1..Len(rows) : left[j] = rows[from[j]]
    BY <1>1, <1>3
<1>9. \A j \in 1..Len(rows) : ks[j] = Fitted[from[j]]
    BY <1>1, <1>3, <1>4
<1> HIDE DEF left, ks
<1>10. from \in [1..Len(rows) -> 1..Len(rows)] /\ \A j, k \in 1..Len(rows) : from[j] = from[k] => j = k
    BY <1>1, <1>3
<1> HIDE DEF from
<1>11. DrawnFrom(from, left, ks)
    BY <1>5, <1>6, <1>8, <1>9, <1>10, Zenon DEF DrawnFrom
<1> QED BY <1>2, <1>7, <1>11, RearrangedKeeps, Zenon

LEMMA RestoresKeeps ==
    ASSUME EditorsAssumption, ListInv, RestoresDefaults
    PROVE  ListInv'
<1> DEFINE two == <<"a", "a">>
           none == <<>>
<1>1. Draws(NewRows(two), none, FittedMark) /\ Lays(2, 0) /\ history' = history
    BY Zenon DEF RestoresDefaults
<1>2. two \in Seq(Words) /\ Len(two) = 2 /\ KeysUpTo(none, FittedMark) /\ Len(none) = 0
    BY TextsAre, NoKeys, Zenon
<1> HIDE DEF two, none
<1>3. laidRows \in Nat /\ FittedMark \in Nat /\ mark <= FittedMark
    BY ListInvIs, FittedIs, Zenon
<1>4. NewRows(two) \in Seq(Row) /\ Len(NewRows(two)) = 2
    BY <1>2, <1>3, NewRowsAre, Zenon
<1>5. BlankFrom(history', FittedMark)
    BY <1>1, <1>3, BlankOn, Zenon
<1>6. OfTheirRows(history', none, IdsOf(NewRows(two)))
  <2>1. Len(IdsOf(NewRows(two))) = 2
      BY <1>4, IdsAre, Zenon
  <2> QED BY <1>2, <2>1 DEF OfTheirRows
<1>7. laidRows' \in Nat
    BY <1>1, <1>3 DEF Lays
<1> QED BY <1>1, <1>2, <1>3, <1>4, <1>5, <1>6, <1>7, DrawsKeeps, Zenon

\* A list that changes while it is not drawn is still a list.
LEMMA UndrawnKeeps ==
    ASSUME EditorsAssumption, ListInv, TidiesRows \/ AddsFromOutside \/ AnotherList
    PROVE  ListInv'
<1>1. rows \in Seq(Row) /\ laidRows \in Nat /\ Len(rows) \in Nat
    BY ListInvIs, Zenon
<1>2. UNCHANGED <<keys, mark, history, drawn, missed>>
    BY Zenon DEF TidiesRows, AddsFromOutside, AnotherList
<1>3. rows' \in Seq(Row) /\ laidRows' \in Nat
  <2>1. CASE TidiesRows
    <3>1. PICK n \in 0..(Len(rows) - 1) :
               \E order \in Bijection(1..n, {i \in DOMAIN rows : rows[i].text # Empty}) :
                  rows' = [i \in 1..n |-> rows[order[i]]]
        BY <2>1, Zenon DEF TidiesRows
    <3>2. PICK order \in [1..n -> DOMAIN rows] : rows' = [i \in 1..n |-> rows[order[i]]]
        BY <3>1 DEF Bijection, Injection
    <3>3. n \in Nat
        BY <1>1
    <3>4. \A i \in 1..n : rows[order[i]] \in Row
        BY <1>1
    <3>5. rows' \in Seq(Row)
        BY <3>2, <3>3, <3>4
    <3> QED BY <1>1, <2>1, <3>5, Zenon DEF TidiesRows
  <2>2. CASE AddsFromOutside
    <3>1. NewRows(<<"a">>) \in Seq(Row)
        BY <1>1, TextsAre, NewRowsAre, Zenon
    <3> DEFINE new == NewRows(<<"a">>)
    <3>2. rows' = rows \o new /\ Lays(1, Len(rows))
        BY <2>2, Zenon DEF AddsFromOutside
    <3> HIDE DEF new
    <3>3. new \in Seq(Row)
        BY <3>1, Zenon DEF new
    <3> QED BY <1>1, <3>2, <3>3 DEF Lays
  <2>3. CASE AnotherList
    <3>1. PICK texts \in {<<"a">>, <<"a", "a">>} : Lays(Len(texts), 0) /\ rows' = NewRows(texts)
        BY <2>3, Zenon DEF AnotherList
    <3>2. texts \in Seq(Words) /\ Len(texts) \in Nat
        BY TextsAre
    <3>3. rows' \in Seq(Row)
        BY <1>1, <3>1, <3>2, NewRowsAre, Zenon
    <3> QED BY <1>1, <3>1, <3>2, <3>3 DEF Lays
  <2> QED BY <2>1, <2>2, <2>3, Zenon
<1> QED BY <1>2, <1>3, Zenon DEF ListInv

LEMMA ListSteps ==
    ASSUME EditorsAssumption, ListInv, [ListNext]_listVars
    PROVE  ListInv'
<1>1. CASE UNCHANGED listVars
    BY <1>1, Zenon DEF listVars, ListInv
<1> QED BY <1>1, TypesKeeps, AddsKeeps, RemovesKeeps, SwapsKeeps, RestoresKeeps, UndrawnKeeps, Zenon DEF ListNext

\* Keys are given once, and what a key brings back is of the row last drawn under it.
THEOREM ListInductive == ASSUME EditorsAssumption PROVE ListSpec => []ListInv
<1>1. ListInit => ListInv
    BY ListStarts
<1>2. ListInv /\ [ListNext]_listVars => ListInv'
    BY ListSteps
<1> QED BY <1>1, <1>2, PTL DEF ListSpec

\* What was typed into a row is brought back into no other, whatever was added, removed,
\* swapped, tidied away or put in the list's place (widgets/row_keys.rs).
THEOREM HistoryStaysWithItsRowHolds == ASSUME EditorsAssumption PROVE ListSpec => []HistoryStaysWithItsRow
<1>1. ListInv => HistoryStaysWithItsRow
  <2> SUFFICES ASSUME ListInv, ~missed, drawn = IdsOf(rows), Len(keys) = Len(rows), NEW i \in DOMAIN rows
               PROVE  history[keys[i]] \subseteq {rows[i].id}
      BY Zenon DEF HistoryStaysWithItsRow
  <2>1. rows \in Seq(Row) /\ keys \in Seq(Nat) /\ OfTheirRows(history, keys, drawn)
      BY ListInvIs, Zenon
  <2>2. i \in 1..Len(rows) /\ i \in DOMAIN keys
      BY <2>1
  <2>3. Len(drawn) = Len(keys) /\ drawn[i] = rows[i].id
      BY <2>1, <2>2, IdsAre, Zenon
  <2>4. history[keys[i]] \subseteq {drawn[i]}
      BY <2>1, <2>2, <2>3, Zenon DEF OfTheirRows
  <2> QED BY <2>3, <2>4, Zenon
<1> QED BY <1>1, ListInductive, PTL

-----------------------------------------------------------------------------
(***************************************************************************)
(* The boxes of the open card.  Which of them an editor shows depends on   *)
(* the operation as it stands, and so does what the operation reads: kind  *)
(* by kind, the second is within the first.  The pre-processor's searches  *)
(* are read alike because a search that comes back takes on how the others *)
(* are read, and the one that was put away whole was alike when it went.   *)
(***************************************************************************)

\* Nothing an operation reads is hidden, but for what has the run refused; and no box
\* makes another operation of it.
Shown(op) ==
    /\ "kind" \notin DOMAIN Ui(op)
    /\ \A b \in Reads(op) : b \in Boxes(op) \/ ~(Requires(op) \subseteq Writable)

LEMMA Something == EditorsAssumption => Texts # {} /\ TagBox # {} /\ Numbers # {} /\ BOOLEAN # {}
BY DEF EditorsAssumption, Numbers, TagBox

LEMMA ReplaceShown ==
    ASSUME EditorsAssumption, NEW op, op.kind = "replace", DOMAIN op = DOMAIN Fresh.replace PROVE Shown(op)
<1>1. Ui(op) = ReplaceUi(op) /\ Reads(op) = DOMAIN op \ {"kind", "text"}
    BY Zenon DEF Ui, Reads
<1>2. DOMAIN op = {"kind"} \cup DOMAIN ReplaceUi(op) /\ "kind" \notin DOMAIN ReplaceUi(op)
    BY DEF Fresh, ReplaceUi
<1>3. \A b \in DOMAIN ReplaceUi(op) : ReplaceUi(op)[b] # {}
    BY Something DEF ReplaceUi
<1> QED BY <1>1, <1>2, <1>3 DEF Shown, Boxes

LEMMA MoveSectionShown ==
    ASSUME EditorsAssumption, NEW op, op.kind = "move_section", DOMAIN op = DOMAIN Fresh.move_section PROVE Shown(op)
<1>1. Ui(op) = MoveSectionUi(op) /\ Reads(op) = DOMAIN op \ {"kind", "text"}
    BY Zenon DEF Ui, Reads
<1>2. DOMAIN op = {"kind"} \cup DOMAIN MoveSectionUi(op) /\ "kind" \notin DOMAIN MoveSectionUi(op)
    BY DEF Fresh, MoveSectionUi
<1>3. \A b \in DOMAIN MoveSectionUi(op) : MoveSectionUi(op)[b] # {}
    BY Something DEF MoveSectionUi
<1> QED BY <1>1, <1>2, <1>3 DEF Shown, Boxes

LEMMA SpaceTrimShown ==
    ASSUME EditorsAssumption, NEW op, op.kind = "space_trim", DOMAIN op = DOMAIN Fresh.space_trim PROVE Shown(op)
<1>1. Ui(op) = SpaceTrimUi(op) /\ Reads(op) = DOMAIN op \ {"kind", "text"}
    BY Zenon DEF Ui, Reads
<1>2. DOMAIN op = {"kind"} \cup DOMAIN SpaceTrimUi(op) /\ "kind" \notin DOMAIN SpaceTrimUi(op)
    BY DEF Fresh, SpaceTrimUi
<1>3. \A b \in DOMAIN SpaceTrimUi(op) : SpaceTrimUi(op)[b] # {}
    BY Something DEF SpaceTrimUi
<1> QED BY <1>1, <1>2, <1>3 DEF Shown, Boxes

LEMMA ZeroPaddingShown ==
    ASSUME EditorsAssumption, NEW op, op.kind = "zero_padding", DOMAIN op = DOMAIN Fresh.zero_padding PROVE Shown(op)
<1>1. Ui(op) = ZeroPaddingUi(op) /\ Reads(op) = DOMAIN op \ {"kind", "text"}
    BY Zenon DEF Ui, Reads
<1>2. DOMAIN op = {"kind"} \cup DOMAIN ZeroPaddingUi(op) /\ "kind" \notin DOMAIN ZeroPaddingUi(op)
    BY DEF Fresh, ZeroPaddingUi
<1>3. \A b \in DOMAIN ZeroPaddingUi(op) : ZeroPaddingUi(op)[b] # {}
    BY Something DEF ZeroPaddingUi
<1> QED BY <1>1, <1>2, <1>3 DEF Shown, Boxes

LEMMA FreeFormatShown ==
    ASSUME EditorsAssumption, NEW op, op.kind = "free_format", DOMAIN op = DOMAIN Fresh.free_format PROVE Shown(op)
<1>1. Ui(op) = FreeFormatUi(op) /\ Reads(op) = DOMAIN op \ {"kind", "text"}
    BY Zenon DEF Ui, Reads
<1>2. DOMAIN op = {"kind"} \cup DOMAIN FreeFormatUi(op) /\ "kind" \notin DOMAIN FreeFormatUi(op)
    BY DEF Fresh, FreeFormatUi
<1>3. \A b \in DOMAIN FreeFormatUi(op) : FreeFormatUi(op)[b] # {}
    BY Something DEF FreeFormatUi
<1> QED BY <1>1, <1>2, <1>3 DEF Shown, Boxes

LEMMA MusicRenameShown ==
    ASSUME EditorsAssumption, NEW op, op.kind = "music_rename", DOMAIN op = DOMAIN Fresh.music_rename PROVE Shown(op)
<1>1. Ui(op) = MusicRenameUi(op) /\ Reads(op) = DOMAIN op \ {"kind", "text"}
    BY Zenon DEF Ui, Reads
<1>2. DOMAIN op = {"kind"} \cup DOMAIN MusicRenameUi(op) /\ "kind" \notin DOMAIN MusicRenameUi(op)
    BY DEF Fresh, MusicRenameUi
<1>3. \A b \in DOMAIN MusicRenameUi(op) : MusicRenameUi(op)[b] # {}
    BY Something DEF MusicRenameUi
<1> QED BY <1>1, <1>2, <1>3 DEF Shown, Boxes

LEMMA RemoveTagsShown ==
    ASSUME EditorsAssumption, NEW op, op.kind = "remove_tags", DOMAIN op = DOMAIN Fresh.remove_tags PROVE Shown(op)
<1>1. Ui(op) = RemoveTagsUi(op) /\ Reads(op) = DOMAIN op \ {"kind", "text"}
    BY Zenon DEF Ui, Reads
<1>2. DOMAIN op = {"kind"} \cup DOMAIN RemoveTagsUi(op) /\ "kind" \notin DOMAIN RemoveTagsUi(op)
    BY DEF Fresh, RemoveTagsUi
<1>3. \A b \in DOMAIN RemoveTagsUi(op) : RemoveTagsUi(op)[b] # {}
    BY Something DEF RemoveTagsUi
<1> QED BY <1>1, <1>2, <1>3 DEF Shown, Boxes

LEMMA ScriptShown ==
    ASSUME EditorsAssumption, NEW op, op.kind = "script", DOMAIN op = DOMAIN Fresh.script PROVE Shown(op)
<1>1. Ui(op) = ScriptUi(op) /\ Reads(op) = DOMAIN op \ {"kind", "text"}
    BY Zenon DEF Ui, Reads
<1>2. DOMAIN op = {"kind"} \cup DOMAIN ScriptUi(op) /\ "kind" \notin DOMAIN ScriptUi(op)
    BY DEF Fresh, ScriptUi
<1>3. \A b \in DOMAIN ScriptUi(op) : ScriptUi(op)[b] # {}
    BY Something DEF ScriptUi
<1> QED BY <1>1, <1>2, <1>3 DEF Shown, Boxes

LEMMA CasingShown ==
    ASSUME EditorsAssumption, NEW op, op.kind = "casing", DOMAIN op = DOMAIN Fresh.casing PROVE Shown(op)
<1> DEFINE ui == CasingUi(op)
<1>1. Ui(op) = ui /\ Reads(op) = CasingReads(op)
    BY Zenon DEF Ui, Reads
<1>2. DOMAIN ui = {"mode", "preserve_all_upper", "preserve_mixed", "use_exceptions", "words", "lowercase_exceptions", "seed"}
    BY DEF CasingUi
<1>3. \A b \in {"mode", "preserve_all_upper", "preserve_mixed", "use_exceptions", "words"} : ui[b] # {}
    BY Something DEF CasingUi
<1>4. /\ op.mode = "title" => \A b \in {"lowercase_exceptions"} : ui[b] # {}
      /\ op.mode = "random" => \A b \in {"seed"} : ui[b] # {}
    BY Something DEF CasingUi, Live
<1>5. \A b \in CasingReads(op) : b \in {"mode", "preserve_all_upper", "preserve_mixed", "use_exceptions", "words"} \/ (op.mode = "title" /\ b \in {"lowercase_exceptions"}) \/ (op.mode = "random" /\ b \in {"seed"})
    BY DEF CasingReads
<1> HIDE DEF ui
<1> QED BY <1>1, <1>2, <1>3, <1>4, <1>5 DEF Shown, Boxes

LEMMA AddRemoveShown ==
    ASSUME EditorsAssumption, NEW op, op.kind = "add_remove", DOMAIN op = DOMAIN Fresh.add_remove PROVE Shown(op)
<1> DEFINE ui == AddRemoveUi(op)
<1>1. Ui(op) = ui /\ Reads(op) = AddRemoveReads(op)
    BY Zenon DEF Ui, Reads
<1>2. DOMAIN ui = {"mode", "delete", "remove_pos", "remove_backwards", "insert", "add_pos", "add_backwards", "overwrite"}
    BY DEF AddRemoveUi
<1>3. \A b \in {"mode"} : ui[b] # {}
    BY Something DEF AddRemoveUi
<1>4. /\ op.mode \in {"remove", "both"} => \A b \in {"delete", "remove_pos", "remove_backwards"} : ui[b] # {}
      /\ op.mode \in {"add", "both"} => \A b \in {"insert", "add_pos", "add_backwards", "overwrite"} : ui[b] # {}
    BY Something DEF AddRemoveUi, Live
<1>5. \A b \in AddRemoveReads(op) : b \in {"mode"} \/ (op.mode \in {"remove", "both"} /\ b \in {"delete", "remove_pos", "remove_backwards"}) \/ (op.mode \in {"add", "both"} /\ b \in {"insert", "add_pos", "add_backwards", "overwrite"})
    BY DEF AddRemoveReads
<1> HIDE DEF ui
<1> QED BY <1>1, <1>2, <1>3, <1>4, <1>5 DEF Shown, Boxes

LEMMA AddCounterShown ==
    ASSUME EditorsAssumption, NEW op, op.kind = "add_counter", DOMAIN op = DOMAIN Fresh.add_counter PROVE Shown(op)
<1> DEFINE ui == AddCounterUi(op)
<1>1. Ui(op) = ui /\ Reads(op) = AddCounterReads(op)
    BY Zenon DEF Ui, Reads
<1>2. DOMAIN ui = {"placement", "separator", "replace_name", "replacement"}
    BY DEF AddCounterUi
<1>3. \A b \in {"placement", "separator", "replace_name"} : ui[b] # {}
    BY Something DEF AddCounterUi
<1>4. /\ op.replace_name => \A b \in {"replacement"} : ui[b] # {}
    BY Something DEF AddCounterUi, Live
<1>5. \A b \in AddCounterReads(op) : b \in {"placement", "separator", "replace_name"} \/ (op.replace_name /\ b \in {"replacement"})
    BY DEF AddCounterReads
<1> HIDE DEF ui
<1> QED BY <1>1, <1>2, <1>3, <1>4, <1>5 DEF Shown, Boxes

LEMMA ReNumberShown ==
    ASSUME EditorsAssumption, NEW op, op.kind = "renumber", DOMAIN op = DOMAIN Fresh.renumber PROVE Shown(op)
<1> DEFINE ui == ReNumberUi(op)
<1>1. Ui(op) = ui /\ Reads(op) = ReNumberReads(op)
    BY Zenon DEF Ui, Reads
<1>2. DOMAIN ui = {"target", "action", "minus_signs", "decimal_points", "keep_length", "at_least", "at_most", "operand"}
    BY DEF ReNumberUi
<1>3. \A b \in {"target", "action", "minus_signs", "decimal_points", "keep_length", "at_least", "at_most"} : ui[b] # {}
    BY Something DEF ReNumberUi
<1>4. /\ NeedsOperand(op.action) => \A b \in {"operand"} : ui[b] # {}
    BY Something DEF ReNumberUi, Live
<1>5. \A b \in ReNumberReads(op) : b \in {"target", "action", "minus_signs", "decimal_points", "keep_length", "at_least", "at_most"} \/ (NeedsOperand(op.action) /\ b \in {"operand"})
    BY DEF ReNumberReads
<1> HIDE DEF ui
<1> QED BY <1>1, <1>2, <1>3, <1>4, <1>5 DEF Shown, Boxes

LEMMA RearrangeShown ==
    ASSUME EditorsAssumption, NEW op, op.kind = "rearrange", DOMAIN op = DOMAIN Fresh.rearrange PROVE Shown(op)
<1> DEFINE ui == RearrangeUi(op)
<1>1. Ui(op) = ui /\ Reads(op) = RearrangeReads(op)
    BY Zenon DEF Ui, Reads
<1>2. DOMAIN ui = {"split"}
    BY DEF RearrangeUi
<1>4. /\ op.layout => \A b \in {"split"} : ui[b] # {}
    BY Something DEF RearrangeUi, Live
<1>5. \A b \in RearrangeReads(op) : (op.layout /\ b \in {"split"})
    BY DEF RearrangeReads
<1> HIDE DEF ui
<1> QED BY <1>1, <1>2, <1>4, <1>5 DEF Shown, Boxes

LEMMA CsvListShown ==
    ASSUME EditorsAssumption, NEW op, op.kind = "csv_list", DOMAIN op = DOMAIN Fresh.csv_list PROVE Shown(op)
<1> DEFINE ui == CsvListUi(op)
<1>1. Ui(op) = ui /\ Reads(op) = CsvListReads(op)
    BY Zenon DEF Ui, Reads
<1>2. DOMAIN ui = {"file", "separator", "old_column", "new_column", "case_sensitive", "separator_char"}
    BY DEF CsvListUi
<1>3. \A b \in {"file", "separator", "old_column", "new_column", "case_sensitive"} : ui[b] # {}
    BY Something DEF CsvListUi
<1>4. /\ op.separator = "other" => \A b \in {"separator_char"} : ui[b] # {}
    BY Something DEF CsvListUi, Live
<1>5. \A b \in CsvListReads(op) : b \in {"file", "separator", "old_column", "new_column", "case_sensitive"} \/ (op.separator = "other" /\ b \in {"separator_char"})
    BY DEF CsvListReads
<1> HIDE DEF ui
<1> QED BY <1>1, <1>2, <1>3, <1>4, <1>5 DEF Shown, Boxes

LEMMA NoBoxesShown ==
    ASSUME NEW op, NEW k \in {"batch_replace", "filename_editor"}, op.kind = k, DOMAIN op = DOMAIN Fresh[k] PROVE Shown(op)
<1>1. Ui(op) = <<>> /\ Reads(op) = DOMAIN op \ {"kind", "text"}
    BY Zenon DEF Ui, Reads
<1>2. DOMAIN op \subseteq {"kind", "text"}
    BY DEF Fresh
<1> QED BY <1>1, <1>2 DEF Shown, Boxes

LEMMA MusicTaggerShown ==
    ASSUME EditorsAssumption, NEW op, op.kind = "music_tagger" PROVE Shown(op)
<1>1. Ui(op) = MusicTaggerUi(op) /\ Reads(op) = MusicTaggerReads(op)
    BY Zenon DEF Ui, Reads
<1>2. DOMAIN MusicTaggerUi(op) = MusicFields /\ "kind" \notin MusicFields
    BY DEF MusicTaggerUi, MusicFields
<1>3. \A f \in MusicFields : op[f] # Blank => MusicTaggerUi(op)[f] # {}
    BY Something DEF MusicTaggerUi, Live, EditorsAssumption
<1> QED BY <1>1, <1>2, <1>3 DEF Shown, Boxes, MusicTaggerReads

\* An attribute or a time this platform cannot write has no box: the run is refused.
LEMMA SetAttributesShown ==
    ASSUME NEW op, op.kind = "set_attributes" PROVE Shown(op)
<1>1. Ui(op) = SetAttributesUi(op) /\ Reads(op) = SetAttributesReads(op) /\ Requires(op) = SetAttributesReads(op)
    BY Zenon DEF Ui, Reads, Requires
<1>2. DOMAIN SetAttributesUi(op) = Attributes /\ "kind" \notin Attributes
    BY DEF SetAttributesUi, Attributes
<1>3. \A b \in Attributes : b \in Writable => SetAttributesUi(op)[b] # {}
    BY DEF SetAttributesUi, Live
<1> QED BY <1>1, <1>2, <1>3 DEF Shown, Boxes, SetAttributesReads

LEMMA SetDateShown ==
    ASSUME EditorsAssumption, NEW op, op.kind = "set_date" PROVE Shown(op)
<1> DEFINE ui == SetDateUi(op)
<1>1. Ui(op) = ui /\ Reads(op) = SetDateReads(op) /\ Requires(op) = {t \in Targets : op[t]}
    BY Zenon DEF Ui, Reads, Requires
<1>2. DOMAIN ui = {"source", "year", "date", "interval", "created", "modified"}
    BY DEF SetDateUi
<1>3. /\ ui.source # {} /\ ui.year # {} /\ (UsesWallClock(op) => ui.date # {})
      /\ (UsesInterval(op) => ui.interval # {}) /\ \A t \in Targets : t \in Writable => ui[t] # {}
    BY Something DEF SetDateUi, Targets, DateTargetsUi, Live
<1>4. \A b \in SetDateReads(op) : b \in {"source", "year"} \/ (UsesWallClock(op) /\ b = "date")
                                  \/ (UsesInterval(op) /\ b = "interval") \/ (b \in Targets /\ op[b])
    BY Zenon DEF SetDateReads
<1>5. Targets \subseteq {"created", "modified"}
    BY DEF Targets
<1> HIDE DEF ui
<1>6. \A b \in {"source", "year", "date", "interval", "created", "modified"} : ui[b] # {} => b \in Boxes(op)
    BY <1>1, <1>2 DEF Boxes
<1>7. "kind" \notin DOMAIN Ui(op)
    BY <1>1, <1>2
<1>8. ASSUME NEW b \in Reads(op), Requires(op) \subseteq Writable
      PROVE  b \in Boxes(op)
    BY <1>1, <1>3, <1>4, <1>5, <1>6, <1>8
<1> QED BY <1>7, <1>8, Zenon DEF Shown

\* What is on the card, whatever it was before: an operation as the picker makes one, but for
\* what its boxes came to.
Made(op) == op.kind \in DOMAIN Fresh /\ DOMAIN op = DOMAIN Fresh[op.kind]
MemoryReads(kept) ==
    /\ DOMAIN kept = (1..MaxIds) \X Kept
    /\ \A i \in 1..MaxIds : /\ kept[<<i, "preproc">>] # Blank => AllReadAlike(kept[<<i, "preproc">>])
                            /\ \A s \in Searches : kept[<<i, s>>] \in Searched \cup {Blank}
CardFields == {"id", "op", "scope", "filter", "preproc"}

LEMMA EditInvIs ==
    EditInv <=> /\ DOMAIN card = CardFields /\ card.id \in 1..MaxIds /\ lastId \in 1..MaxIds
                /\ Made(card.op) /\ (card.preproc # Blank => AllReadAlike(card.preproc))
                /\ MemoryReads(memory)
BY Zenon DEF EditInv, Made, MemoryReads, CardFields

LEMMA FreshIsMade ==
    /\ \A k \in DOMAIN Fresh : Made(Fresh[k])
    /\ Fresh.music_tagger.kind = "music_tagger" /\ DOMAIN Fresh.music_tagger = {"kind", "artist", "genre"}
    /\ Fresh.rearrange.kind = "rearrange" /\ DOMAIN Fresh.rearrange = {"kind", "layout", "split"}
<1>1. \A k \in DOMAIN Fresh : Fresh[k].kind = k
    BY DEF Fresh
<1>2. /\ Fresh.music_tagger.kind = "music_tagger" /\ DOMAIN Fresh.music_tagger = {"kind", "artist", "genre"}
      /\ Fresh.rearrange.kind = "rearrange" /\ DOMAIN Fresh.rearrange = {"kind", "layout", "split"}
    BY DEF Fresh
<1> QED BY <1>1, <1>2, Zenon DEF Made

\* A box is touched: the operation is of its kind still.
LEMMA TouchedIsMade ==
    ASSUME NEW op, Made(op), NEW b, b # "kind", NEW v
    PROVE  Made([op EXCEPT ![b] = v])
<1>1. [op EXCEPT ![b] = v].kind = op.kind /\ DOMAIN [op EXCEPT ![b] = v] = DOMAIN op
    OBVIOUS
<1> QED BY <1>1, Zenon DEF Made

LEMMA BoxesAreShown ==
    ASSUME EditorsAssumption, NEW op, Made(op)
    PROVE  Shown(op)
<1>1. op.kind \in DOMAIN Fresh /\ DOMAIN op = DOMAIN Fresh[op.kind]
    BY Zenon DEF Made
<1>2. op.kind \in {"replace", "batch_replace", "casing", "add_remove", "move_section", "space_trim", "zero_padding",
                   "add_counter", "renumber", "free_format", "rearrange", "music_rename", "music_tagger",
                   "remove_tags", "csv_list", "filename_editor", "set_attributes", "set_date", "script"}
    BY <1>1 DEF Fresh
<1>3. CASE op.kind \in {"replace", "move_section", "space_trim", "zero_padding", "free_format", "music_rename",
                        "remove_tags", "script"}
    BY <1>1, <1>3, ReplaceShown, MoveSectionShown, SpaceTrimShown, ZeroPaddingShown, FreeFormatShown,
       MusicRenameShown, RemoveTagsShown, ScriptShown, Zenon
<1>4. CASE op.kind \in {"casing", "add_remove", "add_counter", "renumber", "rearrange", "csv_list"}
    BY <1>1, <1>4, CasingShown, AddRemoveShown, AddCounterShown, ReNumberShown, RearrangeShown, CsvListShown, Zenon
<1>5. CASE op.kind \in {"batch_replace", "filename_editor", "music_tagger", "set_attributes", "set_date"}
    BY <1>1, <1>5, NoBoxesShown, MusicTaggerShown, SetAttributesShown, SetDateShown, Zenon
<1> QED BY <1>2, <1>3, <1>4, <1>5, Zenon

\* What the searches that are there are all read as.
LEMMA ReadAlikeIs ==
    ASSUME EditorsAssumption, NEW pre, AllReadAlike(pre)
    PROVE  /\ RegexState(pre) # "both"
           /\ \E regex \in BOOLEAN : /\ \A s \in Armed(pre) : pre[s].regex = regex
                                     /\ Armed(pre) # {} => ((RegexState(pre) = "regex") = regex)
<1>1. PICK regex \in BOOLEAN : \A s \in Armed(pre) : pre[s].regex = regex
    BY Zenon DEF AllReadAlike
<1>2. CASE Armed(pre) = {}
  <2>1. RegexState(pre) = "plain"
      BY <1>2, Zenon DEF RegexState
  <2> QED BY <1>1, <1>2, <2>1, Zenon
<1>3. CASE Armed(pre) # {} /\ regex = TRUE
  <2>1. RegexState(pre) = "regex"
      BY <1>1, <1>3, Zenon DEF RegexState
  <2> QED BY <1>1, <1>3, <2>1, Zenon
<1>4. CASE Armed(pre) # {} /\ regex = FALSE
  <2>1. RegexState(pre) = "plain"
      BY <1>1, <1>4, Zenon DEF RegexState
  <2> QED BY <1>1, <1>4, <2>1, Zenon
<1> QED BY <1>2, <1>3, <1>4, Zenon

LEMMA SearchIs ==
    ASSUME EditorsAssumption
    PROVE  /\ Blank \notin Searched /\ [text |-> Empty, regex |-> FALSE] \in Searched
           /\ \A spec \in Searched, yes \in BOOLEAN : ReadAs(spec, yes) \in Searched /\ ReadAs(spec, yes).regex = yes
           /\ \A spec \in Searched, t \in Texts : [spec EXCEPT !.text = t] \in Searched
                                                   /\ [spec EXCEPT !.text = t].regex = spec.regex
BY DEF EditorsAssumption, Searched, ReadAs

\* A search that is put away, one that comes back or is retyped in the way of the others, and a
\* box that is not of a search: they are read alike still.
LEMMA StagePutAway ==
    ASSUME EditorsAssumption, NEW pre, AllReadAlike(pre), NEW s \in Stages
    PROVE  AllReadAlike([pre EXCEPT ![s] = Blank])
<1> DEFINE new == [pre EXCEPT ![s] = Blank]
<1>1. DOMAIN pre = Stages \cup {"case_sensitive"} /\ \A r \in Searches : pre[r] \in Searched \cup {Blank}
    BY Zenon DEF AllReadAlike
<1>2. PICK regex \in BOOLEAN : \A r \in Armed(pre) : pre[r].regex = regex
    BY Zenon DEF AllReadAlike
<1>3. DOMAIN new = DOMAIN pre /\ \A r \in Stages : new[r] = IF r = s THEN Blank ELSE pre[r]
    BY <1>1
<1>4. Searches \subseteq Stages
    BY DEF Stages
<1> HIDE DEF new
<1>5. \A r \in Searches : new[r] \in Searched \cup {Blank}
    BY <1>1, <1>3, <1>4
<1>6. \A r \in Armed(new) : r \in Armed(pre) /\ new[r] = pre[r]
    BY <1>3, <1>4 DEF Armed
<1>7. \A r \in Armed(new) : new[r].regex = regex
    BY <1>2, <1>6, Zenon
<1> QED BY <1>1, <1>3, <1>5, <1>7, Zenon DEF AllReadAlike, new

LEMMA StageSet ==
    ASSUME EditorsAssumption, NEW pre, AllReadAlike(pre), NEW s \in Stages, NEW v,
           s \in Searches => /\ v \in Searched
                             /\ \A r \in Armed(pre) \ {s} : pre[r].regex = v.regex
    PROVE  AllReadAlike([pre EXCEPT ![s] = v])
<1> DEFINE new == [pre EXCEPT ![s] = v]
<1>1. DOMAIN pre = Stages \cup {"case_sensitive"} /\ \A r \in Searches : pre[r] \in Searched \cup {Blank}
    BY Zenon DEF AllReadAlike
<1>2. PICK regex \in BOOLEAN : \A r \in Armed(pre) : pre[r].regex = regex
    BY Zenon DEF AllReadAlike
<1>3. DOMAIN new = DOMAIN pre /\ \A r \in Stages : new[r] = IF r = s THEN v ELSE pre[r]
    BY <1>1
<1>4. Searches \subseteq Stages
    BY DEF Stages
<1> HIDE DEF new
<1>5. \A r \in Searches : new[r] \in Searched \cup {Blank}
    BY <1>1, <1>3, <1>4
<1>6. CASE s \notin Searches
  <2>1. \A r \in Armed(new) : r \in Armed(pre) /\ new[r] = pre[r]
      BY <1>3, <1>4, <1>6 DEF Armed
  <2>2. \A r \in Armed(new) : new[r].regex = regex
      BY <1>2, <2>1, Zenon
  <2> QED BY <1>1, <1>3, <1>5, <2>2, Zenon DEF AllReadAlike, new
<1>7. CASE s \in Searches
  <2>1. \A r \in Armed(new) : (r = s /\ new[r] = v) \/ (r \in Armed(pre) \ {s} /\ new[r] = pre[r])
      BY <1>3, <1>4 DEF Armed
  <2>2. v.regex \in BOOLEAN
      BY <1>7 DEF Searched
  <2>3. \A r \in Armed(new) : new[r].regex = v.regex
      BY <1>7, <2>1, Zenon
  <2> QED BY <1>1, <1>3, <1>5, <2>2, <2>3, Zenon DEF AllReadAlike, new
<1> QED BY <1>6, <1>7, Zenon

LEMMA CaseTicked ==
    ASSUME EditorsAssumption, NEW pre, AllReadAlike(pre), NEW yes
    PROVE  AllReadAlike([pre EXCEPT !.case_sensitive = yes])
<1> DEFINE new == [pre EXCEPT !.case_sensitive = yes]
<1>1. DOMAIN pre = Stages \cup {"case_sensitive"} /\ \A r \in Searches : pre[r] \in Searched \cup {Blank}
    BY Zenon DEF AllReadAlike
<1>2. PICK regex \in BOOLEAN : \A r \in Armed(pre) : pre[r].regex = regex
    BY Zenon DEF AllReadAlike
<1>3. DOMAIN new = DOMAIN pre /\ \A r \in Searches : new[r] = pre[r]
    BY <1>1 DEF Searches
<1> HIDE DEF new
<1>4. \A r \in Armed(new) : r \in Armed(pre) /\ new[r] = pre[r]
    BY <1>3 DEF Armed
<1>5. (\A r \in Armed(new) : new[r].regex = regex) /\ (\A r \in Searches : new[r] \in Searched \cup {Blank})
    BY <1>1, <1>2, <1>3, <1>4, Zenon
<1> QED BY <1>1, <1>3, <1>5, Zenon DEF AllReadAlike, new

\* The one tick sets them all.
LEMMA RegexSet ==
    ASSUME EditorsAssumption, NEW pre, AllReadAlike(pre), NEW yes \in BOOLEAN
    PROVE  AllReadAlike(SetRegex(pre, yes))
<1> DEFINE new == SetRegex(pre, yes)
<1>1. DOMAIN pre = Stages \cup {"case_sensitive"} /\ \A r \in Searches : pre[r] \in Searched \cup {Blank}
    BY Zenon DEF AllReadAlike
<1>2. Searches \subseteq DOMAIN pre
    BY <1>1 DEF Stages
<1>3. DOMAIN new = DOMAIN pre /\ \A r \in Searches : new[r] = IF r \in Armed(pre) THEN ReadAs(pre[r], yes) ELSE pre[r]
    BY <1>2 DEF SetRegex
<1>4. \A r \in Armed(pre) : r \in Searches /\ pre[r] \in Searched
    BY <1>1 DEF Armed
<1> HIDE DEF new
<1>5. \A r \in Searches : r \notin Armed(pre) => new[r] = Blank
    BY <1>3 DEF Armed
<1>6. ASSUME NEW r \in Armed(pre)
      PROVE  new[r] \in Searched /\ new[r].regex = yes
  <2>1. new[r] = ReadAs(pre[r], yes) /\ pre[r] \in Searched
      BY <1>3, <1>4, Zenon
  <2> QED BY <2>1, SearchIs, ZenonT(30)
<1>7. (\A r \in Searches : new[r] \in Searched \cup {Blank}) /\ Armed(new) \subseteq Armed(pre)
    BY <1>5, <1>6 DEF Armed
<1>8. \A r \in Armed(new) : new[r].regex = yes
    BY <1>6, <1>7, Zenon
<1> QED BY <1>1, <1>3, <1>7, <1>8, Zenon DEF AllReadAlike, new

LEMMA NoneArmed == ASSUME EditorsAssumption PROVE AllReadAlike(NoStages)
<1>1. DOMAIN NoStages = Stages \cup {"case_sensitive"} /\ \A s \in Searches : NoStages[s] = Blank
    BY DEF NoStages, Stages
<1>2. \A s \in Armed(NoStages) : NoStages[s].regex = FALSE
    BY <1>1, Zenon DEF Armed
<1>3. \A s \in Searches : NoStages[s] \in Searched \cup {Blank}
    BY <1>1
<1> QED BY <1>1, <1>2, <1>3, Zenon DEF AllReadAlike

\* A search comes back read as those are that are there.
LEMMA CameBackAlike ==
    ASSUME EditorsAssumption, NEW pre, AllReadAlike(pre), NEW s \in Searches, pre[s] = Blank, NEW spec \in Searched
    PROVE  AllReadAlike([pre EXCEPT ![s] = CameBack(pre, spec)])
<1>1. RegexState(pre) # "both"
    BY ReadAlikeIs, Zenon
<1>2. PICK regex \in BOOLEAN : /\ \A r \in Armed(pre) : pre[r].regex = regex
                               /\ Armed(pre) # {} => ((RegexState(pre) = "regex") = regex)
    BY ReadAlikeIs, Zenon
<1> DEFINE yes == RegexState(pre) = "regex"
           v == CameBack(pre, spec)
<1>3. v = ReadAs(spec, yes) /\ yes \in BOOLEAN
    BY <1>1, Zenon DEF CameBack
<1> HIDE DEF yes, v
<1>4. v \in Searched /\ v.regex = yes
    BY <1>3, SearchIs, Zenon
<1>5. \A r \in Armed(pre) \ {s} : pre[r].regex = v.regex
    BY <1>2, <1>4, Zenon DEF yes
<1>6. s \in Stages
    BY DEF Stages
<1>7. AllReadAlike([pre EXCEPT ![s] = v])
    BY <1>4, <1>5, <1>6, StageSet, Zenon
<1> QED BY <1>7, Zenon DEF v

\* What is kept of a box is put by under the card's number.
LEMMA RememberedIs ==
    ASSUME EditorsAssumption, EditInv, NEW box \in Kept, NEW v, Remember(box, v),
           box = "preproc" => AllReadAlike(v), box \in Searches => v \in Searched \cup {Blank}
    PROVE  MemoryReads(memory')
<1>1. MemoryReads(memory) /\ card.id \in 1..MaxIds
    BY EditInvIs, Zenon
<1>2. memory' = [memory EXCEPT ![<<card.id, box>>] = v]
    BY Zenon DEF Remember
<1>3. /\ DOMAIN memory = (1..MaxIds) \X Kept
      /\ \A i \in 1..MaxIds : /\ memory[<<i, "preproc">>] # Blank => AllReadAlike(memory[<<i, "preproc">>])
                              /\ \A s \in Searches : memory[<<i, s>>] \in Searched \cup {Blank}
    BY <1>1, Zenon DEF MemoryReads
<1>4. \A i \in 1..MaxIds, b \in Kept : <<i, b>> \in DOMAIN memory
    BY <1>3
<1>5. \A i \in 1..MaxIds, b \in Kept : memory'[<<i, b>>] = IF i = card.id /\ b = box THEN v ELSE memory[<<i, b>>]
    BY <1>2, <1>4
<1>6. "preproc" \in Kept /\ Searches \subseteq Kept /\ "preproc" \notin Searches
    BY DEF Kept, Stages, Searches
<1>7. DOMAIN memory' = (1..MaxIds) \X Kept
    BY <1>2, <1>3
<1>8. ASSUME NEW i \in 1..MaxIds
      PROVE  /\ memory'[<<i, "preproc">>] # Blank => AllReadAlike(memory'[<<i, "preproc">>])
             /\ \A s \in Searches : memory'[<<i, s>>] \in Searched \cup {Blank}
  <2>1. memory'[<<i, "preproc">>] # Blank => AllReadAlike(memory'[<<i, "preproc">>])
      BY <1>3, <1>5, <1>6, Zenon
  <2>2. \A s \in Searches : memory'[<<i, s>>] \in Searched \cup {Blank}
    <3> SUFFICES ASSUME NEW s \in Searches PROVE memory'[<<i, s>>] \in Searched \cup {Blank}
        OBVIOUS
    <3>1. s \in Kept
        BY <1>6, Zenon
    <3> QED BY <1>3, <1>5, <3>1, Zenon
  <2> QED BY <2>1, <2>2, Zenon
<1> QED BY <1>7, <1>8, Zenon DEF MemoryReads

\* What a card may come to.
LEMMA CardKeeps ==
    ASSUME EditInv, DOMAIN card' = CardFields, card'.id \in 1..MaxIds, lastId' \in 1..MaxIds, Made(card'.op),
           card'.preproc # Blank => AllReadAlike(card'.preproc), MemoryReads(memory')
    PROVE  EditInv'
BY Zenon DEF EditInv, Made, MemoryReads, CardFields

\* The operation of the card changes, and nothing else of it.
LEMMA SetsKeeps ==
    ASSUME EditInv, NEW op, Sets(op), Made(op), UNCHANGED lastId, MemoryReads(memory')
    PROVE  EditInv'
<1>1. /\ DOMAIN card = CardFields /\ card.id \in 1..MaxIds /\ lastId \in 1..MaxIds
      /\ (card.preproc # Blank => AllReadAlike(card.preproc))
    BY EditInvIs, Zenon
<1>2. DOMAIN card' = CardFields /\ card'.op = op /\ card'.id = card.id /\ card'.preproc = card.preproc
    BY <1>1 DEF Sets, CardFields
<1> QED BY <1>1, <1>2, CardKeeps, Zenon

\* The pre-processor of the card changes, and nothing else of it.
LEMMA PreKeeps ==
    ASSUME EditInv, NEW pre, Pre(pre), pre # Blank => AllReadAlike(pre), UNCHANGED lastId, MemoryReads(memory')
    PROVE  EditInv'
<1>1. /\ DOMAIN card = CardFields /\ card.id \in 1..MaxIds /\ lastId \in 1..MaxIds /\ Made(card.op)
    BY EditInvIs, Zenon
<1>2. DOMAIN card' = CardFields /\ card'.op = card.op /\ card'.id = card.id /\ card'.preproc = pre
    BY <1>1 DEF Pre, CardFields
<1> QED BY <1>1, <1>2, CardKeeps, Zenon

\* Neither of them changes.
LEMMA OtherKeeps ==
    ASSUME EditInv, UNCHANGED <<lastId, memory>>, NEW field \in {"scope", "filter"}, NEW v,
           card' = [card EXCEPT ![field] = v]
    PROVE  EditInv'
<1>1. /\ DOMAIN card = CardFields /\ card.id \in 1..MaxIds /\ lastId \in 1..MaxIds /\ Made(card.op)
      /\ (card.preproc # Blank => AllReadAlike(card.preproc)) /\ MemoryReads(memory)
    BY EditInvIs, Zenon
<1>2. DOMAIN card' = CardFields /\ card'.op = card.op /\ card'.id = card.id /\ card'.preproc = card.preproc
    BY <1>1 DEF CardFields
<1> QED BY <1>1, <1>2, CardKeeps, Zenon

LEMMA TouchesKeep ==
    ASSUME EditorsAssumption, EditInv, Touches
    PROVE  EditInv'
<1>1. PICK b, v : b \in DOMAIN Ui(card.op) /\ Sets([card.op EXCEPT ![b] = v])
    BY Zenon DEF Touches
<1>2. Made(card.op) /\ MemoryReads(memory)
    BY EditInvIs, Zenon
<1>3. b # "kind"
    BY <1>1, <1>2, BoxesAreShown, Zenon DEF Shown
<1>4. Made([card.op EXCEPT ![b] = v])
    BY <1>2, <1>3, TouchedIsMade, Zenon
<1>5. UNCHANGED <<lastId, memory>>
    BY Zenon DEF Touches, Elsewhere
<1> QED BY <1>1, <1>2, <1>4, <1>5, SetsKeeps, Zenon

LEMMA FieldKeeps ==
    ASSUME EditorsAssumption, EditInv, NEW f \in MusicFields, TicksField(f)
    PROVE  EditInv'
<1>1. Made(card.op) /\ MemoryReads(memory)
    BY EditInvIs, Zenon
<1>2. f # "kind" /\ f # "preproc" /\ f \notin Searches /\ f \in Kept
    BY DEF MusicFields, Searches, Kept
<1>3. UNCHANGED lastId
    BY Zenon DEF TicksField, Elsewhere
<1>4. PICK v : Sets([card.op EXCEPT ![f] = v]) /\ (UNCHANGED memory \/ Remember(f, card.op[f]))
    BY Zenon DEF TicksField
<1>5. MemoryReads(memory')
    BY <1>1, <1>2, <1>4, RememberedIs, Zenon
<1>6. Made([card.op EXCEPT ![f] = v])
    BY <1>1, <1>2, TouchedIsMade, Zenon
<1> QED BY <1>3, <1>4, <1>5, <1>6, SetsKeeps, Zenon

LEMMA QuickSetupKeeps ==
    ASSUME EditorsAssumption, EditInv, NEW style \in DOMAIN Usable, QuickSetup(style)
    PROVE  EditInv'
<1> DEFINE op == [f \in DOMAIN Fresh.music_tagger |->
                    IF f \in DOMAIN Usable[style] THEN Usable[style][f] ELSE Fresh.music_tagger[f]]
<1>1. Sets(op) /\ UNCHANGED <<lastId, memory>> /\ Usable[style] # Blank
    BY Zenon DEF QuickSetup
<1>2. "kind" \notin DOMAIN Usable[style]
    BY <1>1 DEF EditorsAssumption, MusicFields
<1>3. op.kind = "music_tagger" /\ DOMAIN op = DOMAIN Fresh.music_tagger
    BY <1>2, FreshIsMade
<1>4. Made(op)
    BY <1>3, FreshIsMade DEF Made, Fresh
<1>5. MemoryReads(memory)
    BY EditInvIs, Zenon
<1> HIDE DEF op
<1> QED BY <1>1, <1>4, <1>5, SetsKeeps, Zenon

LEMMA StyleKeeps ==
    ASSUME EditorsAssumption, EditInv, PressesCustom \/ \E s \in DOMAIN Usable : PicksStyle(s)
    PROVE  EditInv'
<1>1. Made(card.op) /\ MemoryReads(memory) /\ lastId \in 1..MaxIds /\ card.id \in 1..MaxIds /\ DOMAIN card = CardFields
      /\ (card.preproc # Blank => AllReadAlike(card.preproc))
    BY EditInvIs, Zenon
<1>2. "custom" \in Kept /\ "custom" # "preproc" /\ "custom" \notin Searches
    BY DEF Kept, Searches
<1>3. PICK v : Remember("custom", v)
    BY Zenon DEF PressesCustom, PicksStyle
<1>4. MemoryReads(memory')
    BY <1>2, <1>3, RememberedIs, Zenon
<1>5. CASE PressesCustom
  <2>1. UNCHANGED <<card, lastId>>
      BY <1>5, Zenon DEF PressesCustom, Elsewhere
  <2> QED BY <1>1, <1>4, <2>1, CardKeeps, Zenon
<1>6. ASSUME NEW s \in DOMAIN Usable, PicksStyle(s)
      PROVE  EditInv'
  <2>1. Sets([card.op EXCEPT !.style = s]) /\ UNCHANGED lastId
      BY <1>6, Zenon DEF PicksStyle, Elsewhere
  <2>2. Made([card.op EXCEPT !.style = s])
      BY <1>1, TouchedIsMade, Zenon
  <2> QED BY <1>4, <2>1, <2>2, SetsKeeps, Zenon
<1> QED BY <1>5, <1>6, Zenon

LEMMA OtherBoxesKeep ==
    ASSUME EditorsAssumption, EditInv,
           (\E t \in Texts : TypesDate(t)) \/ PressesNow \/ FinishRearrange \/ CopiesList
           \/ (\E t \in Texts : TypesLine(t)) \/ (\E l \in Cells : ListingBecomes(l))
    PROVE  EditInv'
<1>1. Made(card.op) /\ MemoryReads(memory) /\ lastId \in 1..MaxIds /\ card.id \in 1..MaxIds /\ DOMAIN card = CardFields
      /\ (card.preproc # Blank => AllReadAlike(card.preproc))
    BY EditInvIs, Zenon
<1>2. UNCHANGED <<lastId, memory>>
    BY Zenon DEF TypesDate, PressesNow, FinishRearrange, CopiesList, TypesLine, ListingBecomes, Elsewhere
<1>3. CASE UNCHANGED card
    BY <1>1, <1>2, <1>3, CardKeeps, Zenon
<1>4. ASSUME NEW op, Sets(op), Made(op)
      PROVE  EditInv'
    BY <1>1, <1>2, <1>4, SetsKeeps, Zenon
<1>5. CASE (\E t \in Texts : TypesDate(t)) \/ (\E l \in Cells : ListingBecomes(l))
    BY <1>3, <1>5, Zenon DEF TypesDate, ListingBecomes
<1>6. CASE PressesNow
  <2>1. Sets([card.op EXCEPT !.date = 1])
      BY <1>6, Zenon DEF PressesNow
  <2>2. Made([card.op EXCEPT !.date = 1])
      BY <1>1, TouchedIsMade, Zenon
  <2> QED BY <1>4, <2>1, <2>2, Zenon
<1>7. CASE FinishRearrange
  <2>1. PICK t \in Texts : Sets([kind |-> "rearrange", layout |-> TRUE, split |-> t])
      BY <1>7, Zenon DEF FinishRearrange
  <2>2. Made([kind |-> "rearrange", layout |-> TRUE, split |-> t])
      BY FreshIsMade DEF Made, Fresh
  <2> QED BY <1>4, <2>1, <2>2, Zenon
<1>8. CASE CopiesList \/ \E t \in Texts : TypesLine(t)
  <2>1. PICK v : Sets([card.op EXCEPT !.text = v])
      BY <1>8, Zenon DEF CopiesList, TypesLine
  <2>2. Made([card.op EXCEPT !.text = v])
      BY <1>1, TouchedIsMade, Zenon
  <2> QED BY <1>4, <2>1, <2>2, Zenon
<1> QED BY <1>5, <1>6, <1>7, <1>8, Zenon

LEMMA EnablesKeeps ==
    ASSUME EditorsAssumption, EditInv, EnablesPreproc
    PROVE  EditInv'
<1>1. MemoryReads(memory) /\ card.id \in 1..MaxIds /\ (card.preproc # Blank => AllReadAlike(card.preproc))
    BY EditInvIs, Zenon
<1>2. UNCHANGED lastId
    BY Zenon DEF EnablesPreproc, Elsewhere
<1>3. CASE card.preproc = Blank
  <2>1. Pre(Remembered("preproc", NoStages)) /\ UNCHANGED memory
      BY <1>3, Zenon DEF EnablesPreproc, Pre
  <2>2. AllReadAlike(Remembered("preproc", NoStages))
      BY <1>1, NoneArmed, Zenon DEF Remembered, MemoryReads
  <2> QED BY <1>1, <1>2, <2>1, <2>2, PreKeeps, Zenon
<1>4. CASE card.preproc # Blank
  <2>1. Pre(Blank) /\ Remember("preproc", card.preproc)
      BY <1>4, Zenon DEF EnablesPreproc, Pre
  <2>2. "preproc" \in Kept /\ "preproc" \notin Searches
      BY DEF Kept, Searches
  <2>3. MemoryReads(memory')
      BY <1>1, <1>4, <2>1, <2>2, RememberedIs, Zenon
  <2> QED BY <1>2, <2>1, <2>3, PreKeeps, Zenon
<1> QED BY <1>3, <1>4, Zenon

LEMMA ArmsKeeps ==
    ASSUME EditorsAssumption, EditInv, NEW s \in Stages, ArmsStage(s)
    PROVE  EditInv'
<1> DEFINE pre == card.preproc
<1>1. pre # Blank /\ UNCHANGED lastId
    BY Zenon DEF ArmsStage, Elsewhere
<1>2. MemoryReads(memory) /\ card.id \in 1..MaxIds /\ AllReadAlike(pre)
    BY <1>1, EditInvIs, Zenon
<1>3. s \in Kept /\ s # "preproc" /\ (s \notin Counts => s \in Searches) /\ (s \in Counts => s \notin Searches)
    BY DEF Stages, Kept, Counts, Searches
<1>4. CASE pre[s] # Blank
  <2>1. Pre([pre EXCEPT ![s] = Blank]) /\ Remember(s, pre[s])
      BY <1>4, Zenon DEF ArmsStage
  <2>2. s \in Searches => pre[s] \in Searched \cup {Blank}
      BY <1>2, Zenon DEF AllReadAlike
  <2>3. MemoryReads(memory')
      BY <1>3, <2>1, <2>2, RememberedIs, Zenon
  <2>4. AllReadAlike([pre EXCEPT ![s] = Blank])
      BY <1>2, StagePutAway, Zenon
  <2> QED BY <1>1, <2>1, <2>3, <2>4, PreKeeps, Zenon
<1>5. CASE pre[s] = Blank /\ s \in Counts
  <2>1. PICK v : Pre([pre EXCEPT ![s] = v]) /\ UNCHANGED memory
      BY <1>5, Zenon DEF ArmsStage
  <2>2. AllReadAlike([pre EXCEPT ![s] = v])
      BY <1>2, <1>3, <1>5, StageSet, Zenon
  <2> QED BY <1>1, <1>2, <2>1, <2>2, PreKeeps, Zenon
<1>6. CASE pre[s] = Blank /\ s \notin Counts
  <2> DEFINE spec == Remembered(s, [text |-> Empty, regex |-> FALSE])
  <2>1. Pre([pre EXCEPT ![s] = CameBack(pre, spec)]) /\ UNCHANGED memory
      BY <1>6, Zenon DEF ArmsStage
  <2>2. memory[<<card.id, s>>] \in Searched \cup {Blank}
      BY <1>2, <1>3, <1>6, Zenon DEF MemoryReads
  <2>3. spec \in Searched
      BY <2>2, SearchIs, Zenon DEF Remembered
  <2> HIDE DEF spec
  <2>4. AllReadAlike([pre EXCEPT ![s] = CameBack(pre, spec)])
      BY <1>2, <1>3, <1>6, <2>3, CameBackAlike, Zenon
  <2> QED BY <1>1, <1>2, <2>1, <2>4, PreKeeps, Zenon
<1> QED BY <1>4, <1>5, <1>6, Zenon

LEMMA StageKeeps ==
    ASSUME EditorsAssumption, EditInv, TypesStage \/ TicksRegex
    PROVE  EditInv'
<1> DEFINE pre == card.preproc
<1>1. pre # Blank /\ UNCHANGED <<lastId, memory>>
    BY Zenon DEF TypesStage, TicksRegex, Elsewhere
<1>2. MemoryReads(memory) /\ AllReadAlike(pre)
    BY <1>1, EditInvIs, Zenon
<1>3. ASSUME NEW new, Pre(new), AllReadAlike(new)
      PROVE  EditInv'
    BY <1>1, <1>2, <1>3, PreKeeps, Zenon
<1>4. ASSUME NEW s \in Counts, NEW n \in Numbers, Pre([pre EXCEPT ![s] = n])
      PROVE  EditInv'
  <2>1. s \in Stages /\ s \notin Searches
      BY DEF Counts, Stages, Searches
  <2>2. AllReadAlike([pre EXCEPT ![s] = n])
      BY <1>2, <2>1, StageSet, Zenon
  <2> QED BY <1>3, <1>4, <2>2, Zenon
<1>5. ASSUME NEW s \in Armed(pre), NEW t \in Texts, Pre([pre EXCEPT ![s].text = t])
      PROVE  EditInv'
  <2> DEFINE v == [pre[s] EXCEPT !.text = t]
  <2>1. s \in Searches /\ s \in Stages /\ pre[s] # Blank
      BY DEF Armed, Stages
  <2>2. pre[s] \in Searched
      BY <1>2, <2>1, Zenon DEF AllReadAlike
  <2>3. v \in Searched /\ v.regex = pre[s].regex
      BY <2>2, SearchIs, Zenon
  <2>4. PICK regex \in BOOLEAN : \A r \in Armed(pre) : pre[r].regex = regex
      BY <1>2, Zenon DEF AllReadAlike
  <2>5. \A r \in Armed(pre) \ {s} : pre[r].regex = v.regex
      BY <2>3, <2>4, Zenon
  <2>6. Pre([pre EXCEPT ![s] = v])
      BY <1>5
  <2> HIDE DEF v
  <2>7. AllReadAlike([pre EXCEPT ![s] = v])
      BY <1>2, <2>1, <2>3, <2>5, StageSet, Zenon
  <2> QED BY <1>3, <2>6, <2>7, Zenon
<1>6. CASE TypesStage
    BY <1>4, <1>5, <1>6, Zenon DEF TypesStage
<1>7. CASE TicksRegex
  <2>1. PICK yes \in BOOLEAN : Pre(SetRegex(pre, yes)) \/ Pre([pre EXCEPT !.case_sensitive = ~@])
      BY <1>7 DEF TicksRegex
  <2>2. AllReadAlike(SetRegex(pre, yes))
      BY <1>2, RegexSet, Zenon
  <2>3. AllReadAlike([pre EXCEPT !.case_sensitive = ~@])
      BY <1>2, CaseTicked
  <2> QED BY <1>3, <2>1, <2>2, <2>3, Zenon
<1> QED BY <1>6, <1>7, Zenon

LEMMA ScopeKeeps ==
    ASSUME EditorsAssumption, EditInv, SetsScope \/ TicksFilter \/ SetsFilter
    PROVE  EditInv'
<1>1. UNCHANGED <<lastId, memory>>
    BY Zenon DEF SetsScope, TicksFilter, SetsFilter, Elsewhere
<1>2. CASE SetsScope
  <2>1. PICK s : card' = [card EXCEPT !["scope"] = s]
      BY <1>2 DEF SetsScope
  <2> QED BY <1>1, <2>1, OtherKeeps, Zenon
<1>3. CASE TicksFilter \/ SetsFilter
  <2>1. PICK v : card' = [card EXCEPT !["filter"] = v]
      BY <1>3 DEF TicksFilter, SetsFilter
  <2> QED BY <1>1, <2>1, OtherKeeps, Zenon
<1> QED BY <1>2, <1>3, Zenon

LEMMA CardStepsKeep ==
    ASSUME EditorsAssumption, EditInv, CardSteps
    PROVE  EditInv'
<1>1. /\ DOMAIN card = CardFields /\ card.id \in 1..MaxIds /\ lastId \in 1..MaxIds /\ Made(card.op)
      /\ (card.preproc # Blank => AllReadAlike(card.preproc)) /\ MemoryReads(memory)
    BY EditInvIs, Zenon
<1>2. MaxIds \in Nat \ {0}
    BY Zenon DEF EditorsAssumption
<1>3. UNCHANGED memory
    BY Zenon DEF CardSteps, PicksKind, OpensNew, SavesAndLoads, LoadsForeign
<1>4. \A g \in DOMAIN Catalogue : \A k \in Catalogue[g] : k \in DOMAIN Fresh /\ Made(Fresh[k])
  <2> SUFFICES ASSUME NEW g \in DOMAIN Catalogue, NEW k \in Catalogue[g] PROVE k \in DOMAIN Fresh
      BY FreshIsMade, Zenon
  <2>1. k \in UNION {Catalogue[h] : h \in DOMAIN Catalogue}
      OBVIOUS
  <2> QED BY <2>1, CatalogueIsTrue, Zenon
<1>5. ASSUME NEW k, Made(Fresh[k]), PicksKind(k)
      PROVE  EditInv'
  <2>1. card' = [card EXCEPT !.op = Fresh[k], !.scope = DefaultScope(k)] /\ UNCHANGED lastId
      BY <1>5, Zenon DEF PicksKind, Elsewhere
  <2> DEFINE op == Fresh[k]
             scope == DefaultScope(k)
  <2>2. card' = [card EXCEPT !.op = op, !.scope = scope] /\ Made(op)
      BY <1>5, <2>1, Zenon
  <2> HIDE DEF op, scope
  <2>3. DOMAIN card' = CardFields /\ card'.op = op /\ card'.id = card.id /\ card'.preproc = card.preproc
      BY <1>1, <2>2 DEF CardFields
  <2> QED BY <1>1, <1>3, <2>1, <2>2, <2>3, CardKeeps, Zenon
<1>6. ASSUME NEW op, Made(op), NEW id \in 1..MaxIds, NEW scope, lastId' \in 1..MaxIds,
             card' = [id |-> id, op |-> op, scope |-> scope, filter |-> Blank, preproc |-> Blank]
      PROVE  EditInv'
  <2>1. DOMAIN card' = CardFields /\ card'.op = op /\ card'.id = id /\ card'.preproc = Blank
      BY <1>6 DEF CardFields
  <2> QED BY <1>1, <1>3, <1>6, <2>1, CardKeeps, Zenon
<1>7. ASSUME NEW k, Made(Fresh[k]), OpensNew(k)
      PROVE  EditInv'
  <2>1. lastId < MaxIds /\ lastId' = lastId + 1
        /\ card' = [id |-> lastId + 1, op |-> Fresh[k], scope |-> DefaultScope(k), filter |-> Blank, preproc |-> Blank]
      BY <1>7, Zenon DEF OpensNew
  <2>2. lastId + 1 \in 1..MaxIds
      BY <1>1, <1>2, <2>1
  <2> QED BY <1>6, <1>7, <2>1, <2>2, Zenon
<1>8. 1 \in 1..MaxIds
    BY <1>2
<1>9. CASE SavesAndLoads
  <2>1. PICK v : card' = [card EXCEPT !.id = 1, !.filter = v] /\ lastId' = 1
      BY <1>9 DEF SavesAndLoads
  <2>2. DOMAIN card' = CardFields /\ card'.op = card.op /\ card'.id = 1 /\ card'.preproc = card.preproc
      BY <1>1, <2>1 DEF CardFields
  <2> QED BY <1>1, <1>3, <1>8, <2>1, <2>2, CardKeeps, Zenon
<1>10. CASE LoadsForeign
  <2>1. PICK op \in {[Fresh.set_attributes EXCEPT ![a] = "set"] : a \in Attributes}
                    \cup {[Fresh.set_date EXCEPT ![t] = TRUE] : t \in Targets} :
             card' = [id |-> 1, op |-> op, scope |-> "name", filter |-> Blank, preproc |-> Blank]
      BY <1>10, Zenon DEF LoadsForeign
  <2>2. Made(Fresh.set_attributes) /\ Made(Fresh.set_date)
      BY FreshIsMade, ZenonT(30) DEF Fresh
  <2>3. \A a \in Attributes : a # "kind"
      BY DEF Attributes
  <2>4. \A t \in Targets : t # "kind"
      BY DEF Targets
  <2>5. Made(op)
    <3>1. ASSUME NEW a \in Attributes PROVE Made([Fresh.set_attributes EXCEPT ![a] = "set"])
        BY <2>2, <2>3, TouchedIsMade, Zenon
    <3>2. ASSUME NEW t \in Targets PROVE Made([Fresh.set_date EXCEPT ![t] = TRUE])
        BY <2>2, <2>4, TouchedIsMade, Zenon
    <3> QED BY <3>1, <3>2, Zenon
  <2>6. lastId' = 1
      BY <1>10, Zenon DEF LoadsForeign
  <2> QED BY <1>6, <1>8, <2>1, <2>5, <2>6, Zenon
<1> QED BY <1>4, <1>5, <1>7, <1>9, <1>10, Zenon DEF CardSteps

LEMMA EditStarts == ASSUME EditorsAssumption PROVE EditInit => EditInv
<1> SUFFICES ASSUME EditInit PROVE EditInv
    OBVIOUS
<1>1. 1 \in 1..MaxIds
    BY DEF EditorsAssumption
<1> DEFINE op == Fresh.replace
<1>2. Made(op)
    BY FreshIsMade DEF Fresh
<1>3. card = [id |-> 1, op |-> op, scope |-> "name", filter |-> Blank, preproc |-> Blank] /\ lastId = 1
      /\ memory = [b \in (1..MaxIds) \X Kept |-> Blank]
    BY Zenon DEF EditInit
<1> HIDE DEF op
<1>4. DOMAIN card = CardFields /\ card.id = 1 /\ card.op = op /\ card.preproc = Blank
    BY <1>3 DEF CardFields
<1>5. "preproc" \in Kept /\ Searches \subseteq Kept
    BY DEF Kept, Stages
<1>6. DOMAIN memory = (1..MaxIds) \X Kept /\ \A i \in 1..MaxIds, b \in Kept : memory[<<i, b>>] = Blank
    BY <1>3
<1>7. MemoryReads(memory)
    BY <1>5, <1>6 DEF MemoryReads
<1> QED BY <1>1, <1>2, <1>3, <1>4, <1>7, EditInvIs, Zenon

LEMMA EditSteps ==
    ASSUME EditorsAssumption, EditInv, [EditNext]_editVars
    PROVE  EditInv'
<1>1. CASE UNCHANGED editVars
    BY <1>1, Zenon DEF editVars, EditInv
<1>2. CASE BoxSteps
    BY <1>2, TouchesKeep, FieldKeeps, QuickSetupKeeps, StyleKeeps, OtherBoxesKeep, ScopeKeeps, Zenon DEF BoxSteps
<1>3. CASE ScopeSteps
    BY <1>3, EnablesKeeps, ArmsKeeps, StageKeeps, ScopeKeeps, Zenon DEF ScopeSteps
<1> QED BY <1>1, <1>2, <1>3, CardStepsKeep, Zenon DEF EditNext

\* A card's operation has the boxes it was made with, and the searches of every pre-processor,
\* the card's and the one put away, are read alike.
THEOREM EditInductive == ASSUME EditorsAssumption PROVE EditSpec => []EditInv
<1>1. EditInit => EditInv
    BY EditStarts
<1>2. EditInv /\ [EditNext]_editVars => EditInv'
    BY EditSteps
<1> QED BY <1>1, <1>2, PTL DEF EditSpec

\* Every box an operation reads is there to be seen, or the run is refused; and the one tick
\* of the searches says how each of them is read (editors/*.rs, preproc_editor.rs).
THEOREM HiddenDecidesNothingHolds == ASSUME EditorsAssumption PROVE EditSpec => []HiddenDecidesNothing
<1>1. EditInv => HiddenDecidesNothing
  <2> SUFFICES ASSUME EditInv PROVE HiddenDecidesNothing
      OBVIOUS
  <2>1. Made(card.op) /\ (card.preproc # Blank => AllReadAlike(card.preproc))
      BY EditInvIs, Zenon
  <2>2. \A b \in Reads(card.op) : b \in Boxes(card.op) \/ ~(Requires(card.op) \subseteq Writable)
      BY <2>1, BoxesAreShown, Zenon DEF Shown
  <2>3. card.preproc # Blank => RegexState(card.preproc) # "both"
      BY <2>1, ReadAlikeIs, Zenon
  <2> QED BY <2>2, <2>3, Zenon DEF HiddenDecidesNothing
<1> QED BY <1>1, EditInductive, PTL

(***************************************************************************)
(* The Free Select set follows what it holds, for any tree of folders.     *)
(* After a run a path is half rewritten from its end: a pass finds no move *)
(* below the next depth the run renamed at, since what stands there is the *)
(* name another thing was given, which only a chain gives to a folder.     *)
(* After an undo the same path is rewritten from its beginning, through    *)
(* the same half rewritten paths; so both ends are where the passes end.   *)
(***************************************************************************)

\* A nonempty set of numbers has a least one.
LEMMA LeastOf ==
    ASSUME NEW T \in SUBSET Nat, T # {}
    PROVE  \E k \in T : \A j \in T : k <= j
<1> DEFINE R == OpToRel(<, Nat)
<1>1. IsWellFoundedOn(R, Nat)
    BY NatLessThanWellFounded
<1>2. PICK k \in T : \A j \in T : <<j, k>> \notin R
  <2> HIDE DEF R
  <2> QED BY <1>1, WFMin, Zenon
<1>3. \A j \in T : ~(j < k)
    BY <1>2 DEF OpToRel
<1> QED BY <1>3

\* The first components of a path.
LEMMA FirstsAre ==
    ASSUME NEW p \in Paths, NEW d \in 1..Len(p)
    PROVE  /\ SubSeq(p, 1, d) \in Paths
           /\ Len(SubSeq(p, 1, d)) = d
           /\ \A k \in 1..d : SubSeq(p, 1, d)[k] = p[k]
<1>1. p \in Seq(Called) /\ Len(p) \in Nat
    BY LenProperties DEF Paths
<1>2. /\ SubSeq(p, 1, d) \in Seq(Called)
      /\ Len(SubSeq(p, 1, d)) = d
      /\ \A k \in 1..d : SubSeq(p, 1, d)[k] = p[k]
    BY <1>1, SubSeqProperties
<1> QED BY <1>2, EmptySeq DEF Paths

\* Two paths of the same components are one.
LEMMA SamePath ==
    ASSUME NEW p \in Paths, NEW q \in Paths, Len(p) = Len(q),
           \A k \in 1..Len(p) : p[k] = q[k]
    PROVE  p = q
BY SeqEqual DEF Paths

\* The paths above a path begin as it does.
LEMMA AncestorsBegin ==
    ASSUME NEW p \in Paths, NEW q \in Paths
    PROVE  q \in Ancestors(p) <=> Len(q) <= Len(p) /\ \A k \in 1..Len(q) : q[k] = p[k]
<1>0. Len(p) \in Nat /\ Len(q) \in Nat /\ Len(q) >= 1
    BY LenProperties, EmptySeq DEF Paths
<1>1. ASSUME q \in Ancestors(p)
      PROVE  Len(q) <= Len(p) /\ \A k \in 1..Len(q) : q[k] = p[k]
  <2>1. PICK d \in 1..Len(p) : q = SubSeq(p, 1, d)
      BY <1>1 DEF Ancestors
  <2> QED BY <1>0, <2>1, FirstsAre
<1>2. ASSUME Len(q) <= Len(p), \A k \in 1..Len(q) : q[k] = p[k]
      PROVE  q \in Ancestors(p)
  <2>1. Len(q) \in 1..Len(p)
      BY <1>0, <1>2
  <2>2. /\ SubSeq(p, 1, Len(q)) \in Paths /\ Len(SubSeq(p, 1, Len(q))) = Len(q)
        /\ \A k \in 1..Len(q) : SubSeq(p, 1, Len(q))[k] = p[k]
      BY <2>1, FirstsAre
  <2>3. q = SubSeq(p, 1, Len(q))
      BY <1>2, <2>2, SamePath
  <2> QED BY <2>1, <2>3 DEF Ancestors
<1> QED BY <1>1, <1>2

\* A renaming changes the last component of a path.
LEMMA RenamedIs ==
    ASSUME NEW p \in Paths, NEW c \in Called
    PROVE  /\ Renamed(p, c) \in Paths
           /\ Len(Renamed(p, c)) = Len(p)
           /\ \A k \in 1..(Len(p) - 1) : Renamed(p, c)[k] = p[k]
           /\ Renamed(p, c)[Len(p)] = c
<1>1. p \in Seq(Called) /\ Len(p) \in Nat /\ Len(p) >= 1
    BY LenProperties, EmptySeq DEF Paths
<1>2. /\ Drop(p) \in Seq(Called) /\ Len(Drop(p)) = Len(p) - 1
      /\ \A k \in 1..(Len(p) - 1) : Drop(p)[k] = p[k]
  <2>1. Len(p) - 1 \in Int /\ \A k \in 1..(Len(p) - 1) : p[k] \in Called
      BY <1>1, ElementOfSeq
  <2>2. /\ SubSeq(p, 1, Len(p) - 1) \in Seq(Called)
        /\ Len(SubSeq(p, 1, Len(p) - 1)) = IF 1 <= Len(p) - 1 THEN (Len(p) - 1) - 1 + 1 ELSE 0
        /\ \A k \in 1..((Len(p) - 1) - 1 + 1) :
              SubSeq(p, 1, Len(p) - 1)[k] = p[1 + k - 1]
      BY <2>1, SubSeqProperties
  <2>3. Len(SubSeq(p, 1, Len(p) - 1)) = Len(p) - 1
    <3>1. \A m \in Nat : m >= 1 => (IF 1 <= m - 1 THEN (m - 1) - 1 + 1 ELSE 0) = m - 1
        OBVIOUS
    <3>2. (IF 1 <= Len(p) - 1 THEN (Len(p) - 1) - 1 + 1 ELSE 0) = Len(p) - 1
        BY <1>1, <3>1
    <3> QED BY <2>2, <3>2
  <2>4. ASSUME NEW k \in 1..(Len(p) - 1)
        PROVE  SubSeq(p, 1, Len(p) - 1)[k] = p[k]
    <3>0. \A m \in Nat : \A j \in 1..(m - 1) : j \in 1..((m - 1) - 1 + 1) /\ 1 + j - 1 = j
        OBVIOUS
    <3>1. k \in 1..((Len(p) - 1) - 1 + 1) /\ 1 + k - 1 = k
      <4>1. Len(p) \in Nat
          BY <1>1
      <4>2. \A j \in 1..(Len(p) - 1) : j \in 1..((Len(p) - 1) - 1 + 1) /\ 1 + j - 1 = j
          BY <3>0, <4>1, Zenon
      <4> QED BY <4>2, Zenon
    <3> QED BY <2>2, <3>1
  <2> QED BY <2>2, <2>3, <2>4 DEF Drop
<1>3. /\ Append(Drop(p), c) \in Seq(Called) /\ Len(Append(Drop(p), c)) = Len(p)
      /\ \A k \in 1..(Len(p) - 1) : Append(Drop(p), c)[k] = p[k]
      /\ Append(Drop(p), c)[Len(p)] = c
    BY <1>1, <1>2, AppendProperties
<1> QED BY <1>1, <1>3, EmptySeq DEF Paths, Renamed

LEMMA BatchIs ==
    ASSUME NEW batch \in Batches
    PROVE  /\ DOMAIN batch \subseteq Things
           /\ \A t \in DOMAIN batch : batch[t] \in Called
BY DEF Batches, Called

LEMMA PlacementIs ==
    ASSUME NEW w \in Placements
    PROVE  /\ w \in [Things -> Paths]
           /\ \A t \in Things : w[t] \in Paths /\ Len(w[t]) \in Nat /\ Len(w[t]) >= 1
           /\ \A t, u \in Things : w[t] = w[u] => t = u
           /\ \A t \in Things : \A k \in 1..Len(w[t]) : \E u \in Things : w[u] = SubSeq(w[t], 1, k)
BY LenProperties, EmptySeq DEF Placements, Paths

\* A batch changes the components that name what it renamed.
LEMMA CarriedIs ==
    ASSUME NEW w \in Placements, NEW batch \in Batches, NEW t \in Things
    PROVE  /\ Carried(w, batch, t) \in Paths
           /\ Len(Carried(w, batch, t)) = Len(w[t])
           /\ \A k \in 1..Len(w[t]) :
                 /\ \A s \in DOMAIN batch :
                        w[s] = SubSeq(w[t], 1, k) => Carried(w, batch, t)[k] = batch[s]
                 /\ (\A s \in DOMAIN batch : w[s] # SubSeq(w[t], 1, k)) =>
                        Carried(w, batch, t)[k] = w[t][k]
<1>1. /\ w[t] \in Seq(Called) /\ Len(w[t]) \in Nat /\ Len(w[t]) >= 1
      /\ DOMAIN w[t] = 1..Len(w[t])
      /\ \A k \in 1..Len(w[t]) : w[t][k] \in Called
    BY PlacementIs, LenProperties, ElementOfSeq DEF Paths
<1>2. \A k \in 1..Len(w[t]) :
         /\ \A s \in DOMAIN batch :
                w[s] = SubSeq(w[t], 1, k) => Carried(w, batch, t)[k] = batch[s]
         /\ (\A s \in DOMAIN batch : w[s] # SubSeq(w[t], 1, k)) =>
                Carried(w, batch, t)[k] = w[t][k]
  <2> TAKE k \in 1..Len(w[t])
  <2>1. ASSUME NEW s \in DOMAIN batch, w[s] = SubSeq(w[t], 1, k)
        PROVE  Carried(w, batch, t)[k] = batch[s]
    <3> DEFINE r == CHOOSE r \in DOMAIN batch : w[r] = SubSeq(w[t], 1, k)
    <3>1. r \in DOMAIN batch /\ w[r] = SubSeq(w[t], 1, k)
        BY <2>1
    <3>2. r = s
        BY <2>1, <3>1, BatchIs, PlacementIs
    <3>3. Carried(w, batch, t)[k] = batch[r]
        BY <1>1, <2>1 DEF Carried
    <3> QED BY <3>2, <3>3
  <2>2. ASSUME \A s \in DOMAIN batch : w[s] # SubSeq(w[t], 1, k)
        PROVE  Carried(w, batch, t)[k] = w[t][k]
      BY <1>1, <2>2 DEF Carried
  <2> QED BY <2>1, <2>2
<1>3. \A k \in 1..Len(w[t]) : Carried(w, batch, t)[k] \in Called
    BY <1>1, <1>2, BatchIs
<1>4. Carried(w, batch, t) \in [1..Len(w[t]) -> Called]
  <2>1. Carried(w, batch, t) = [k \in 1..Len(w[t]) |-> Carried(w, batch, t)[k]]
      BY <1>1 DEF Carried
  <2> QED BY <1>3, <2>1
<1>5. Carried(w, batch, t) \in Seq(Called) /\ Len(Carried(w, batch, t)) = Len(w[t])
    BY <1>1, <1>4, SeqDef, LenProperties
<1> QED BY <1>1, <1>2, <1>5, EmptySeq DEF Paths

\* Two things below the same folders have them called alike.
LEMMA CarriedAlike ==
    ASSUME NEW w \in Placements, NEW batch \in Batches, NEW t \in Things, NEW u \in Things,
           NEW k \in 1..Len(w[t]), k <= Len(w[u]), \A j \in 1..k : w[t][j] = w[u][j]
    PROVE  Carried(w, batch, t)[k] = Carried(w, batch, u)[k]
<1>1. w[t] \in Paths /\ w[u] \in Paths /\ Len(w[u]) \in Nat /\ k \in 1..Len(w[u])
    BY PlacementIs
<1>2. SubSeq(w[t], 1, k) = SubSeq(w[u], 1, k)
    BY <1>1, FirstsAre, SamePath
<1>3. CASE \E s \in DOMAIN batch : w[s] = SubSeq(w[t], 1, k)
    BY <1>1, <1>2, <1>3, CarriedIs
<1>4. CASE \A s \in DOMAIN batch : w[s] # SubSeq(w[t], 1, k)
    BY <1>1, <1>2, <1>4, CarriedIs
<1> QED BY <1>3, <1>4

\* What a batch leaves is a placement.
LEMMA AfterIsAPlacement ==
    ASSUME NEW w \in Placements, NEW batch \in Batches,
           \A t, u \in Things : After(w, batch)[t] = After(w, batch)[u] => t = u
    PROVE  After(w, batch) \in Placements
<1> DEFINE a == After(w, batch)
<1>1. a \in [Things -> Paths]
    BY CarriedIs DEF After
<1>2. ASSUME NEW t \in Things, NEW k \in 1..Len(a[t])
      PROVE  \E u \in Things : a[u] = SubSeq(a[t], 1, k)
  <2>1. a[t] = Carried(w, batch, t) /\ Len(a[t]) = Len(w[t]) /\ a[t] \in Paths /\ w[t] \in Paths
      BY CarriedIs, PlacementIs DEF After
  <2>2. PICK u \in Things : w[u] = SubSeq(w[t], 1, k)
      BY <2>1, PlacementIs
  <2>3. Len(w[u]) = k /\ k <= Len(w[t]) /\ \A j \in 1..k : w[u][j] = w[t][j]
      BY <2>1, <2>2, FirstsAre
  <2>4. a[u] = Carried(w, batch, u) /\ Len(a[u]) = k /\ a[u] \in Paths
      BY <2>3, CarriedIs DEF After
  <2>5. \A j \in 1..k : a[u][j] = a[t][j]
      BY <2>1, <2>3, <2>4, CarriedAlike
  <2>6. /\ SubSeq(a[t], 1, k) \in Paths /\ Len(SubSeq(a[t], 1, k)) = k
        /\ \A j \in 1..k : SubSeq(a[t], 1, k)[j] = a[t][j]
      BY <2>1, FirstsAre
  <2>7. Len(a[u]) = Len(SubSeq(a[t], 1, k))
        /\ \A j \in 1..Len(a[u]) : a[u][j] = SubSeq(a[t], 1, k)[j]
      BY <2>4, <2>5, <2>6
  <2>8. a[u] = SubSeq(a[t], 1, k)
    <3> HIDE DEF a
    <3> QED BY <2>4, <2>6, <2>7, SamePath
  <2> QED BY <2>8
<1> QED BY <1>1, <1>2 DEF Placements

\* No two things of a batch are given one path, none is given the path of a
\* thing that stays, and, but for a chain, none that of a folder.
LEMMA NewPaths ==
    ASSUME NEW w \in Placements, NEW batch \in Batches,
           \A t, u \in Things : After(w, batch)[t] = After(w, batch)[u] => t = u,
           NEW t \in DOMAIN batch, NEW u \in Things
    PROVE  /\ u \in DOMAIN batch /\ Renamed(w[u], batch[u]) = Renamed(w[t], batch[t]) => u = t
           /\ u \notin DOMAIN batch => w[u] # Renamed(w[t], batch[t])
           /\ ~Chains(w, batch) /\ IsFolder(w, u) => w[u] # Renamed(w[t], batch[t])
<1> DEFINE n == Len(w[t])
<1>0. t \in Things /\ batch[t] \in Called
    BY BatchIs
<1>1. /\ w[t] \in Paths /\ n \in Nat /\ n >= 1 /\ w[u] \in Paths
      /\ Len(Renamed(w[t], batch[t])) = n
      /\ \A k \in 1..(n - 1) : Renamed(w[t], batch[t])[k] = w[t][k]
      /\ Renamed(w[t], batch[t])[n] = batch[t]
    BY <1>0, PlacementIs, RenamedIs
<1>2. ASSUME NEW p \in Paths
      PROVE  /\ SubSeq(p, 1, Len(p)) = p
             /\ Len(p) \in Nat /\ Len(p) \in 1..Len(p)
  <2>1. Len(p) \in Nat /\ Len(p) \in 1..Len(p)
      BY LenProperties, EmptySeq DEF Paths
  <2>2. /\ SubSeq(p, 1, Len(p)) \in Paths /\ Len(SubSeq(p, 1, Len(p))) = Len(p)
        /\ \A k \in 1..Len(p) : SubSeq(p, 1, Len(p))[k] = p[k]
      BY <2>1, FirstsAre
  <2>3. SubSeq(p, 1, Len(p)) = p
      BY <2>2, SamePath
  <2> QED BY <2>1, <2>3
<1>3. ASSUME NEW v \in DOMAIN batch
      PROVE  Carried(w, batch, v)[Len(w[v])] = batch[v]
  <2>1. v \in Things /\ w[v] \in Paths
      BY BatchIs, PlacementIs
  <2>2. SubSeq(w[v], 1, Len(w[v])) = w[v] /\ Len(w[v]) \in 1..Len(w[v])
      BY <1>2, <2>1
  <2> QED BY <2>1, <2>2, CarriedIs
<1>4. ASSUME Len(w[u]) = n, \A k \in 1..(n - 1) : w[u][k] = w[t][k],
             Carried(w, batch, u)[n] = batch[t]
      PROVE  u = t
  <2>1. ASSUME NEW k \in 1..n
        PROVE  Carried(w, batch, u)[k] = Carried(w, batch, t)[k]
    <3>1. CASE k = n
        BY <1>3, <1>4, <3>1
    <3>2. CASE k < n
      <4>1. k \in 1..Len(w[u]) /\ k <= Len(w[t]) /\ \A j \in 1..k : w[u][j] = w[t][j]
          BY <1>1, <1>4, <3>2
      <4> QED BY <1>0, <4>1, CarriedAlike
    <3> QED BY <1>1, <3>1, <3>2
  <2>2. /\ Carried(w, batch, u) \in Paths /\ Len(Carried(w, batch, u)) = n
        /\ Carried(w, batch, t) \in Paths /\ Len(Carried(w, batch, t)) = n
      BY <1>0, <1>4, CarriedIs
  <2>3. Carried(w, batch, u) = Carried(w, batch, t)
      BY <2>1, <2>2, SamePath
  <2> QED BY <1>0, <2>3 DEF After
<1>5. ASSUME u \in DOMAIN batch, Renamed(w[u], batch[u]) = Renamed(w[t], batch[t])
      PROVE  u = t
  <2>1. /\ Len(Renamed(w[u], batch[u])) = Len(w[u])
        /\ \A k \in 1..(Len(w[u]) - 1) : Renamed(w[u], batch[u])[k] = w[u][k]
        /\ Renamed(w[u], batch[u])[Len(w[u])] = batch[u]
      BY <1>1, <1>5, BatchIs, RenamedIs
  <2>2. Len(w[u]) = n /\ batch[u] = batch[t] /\ \A k \in 1..(n - 1) : w[u][k] = w[t][k]
      BY <1>1, <1>5, <2>1
  <2>3. Carried(w, batch, u)[n] = batch[t]
      BY <1>3, <1>5, <2>2
  <2> QED BY <1>4, <2>2, <2>3
<1>6. ASSUME u \notin DOMAIN batch, w[u] = Renamed(w[t], batch[t])
      PROVE  FALSE
  <2>1. Len(w[u]) = n /\ w[u][n] = batch[t] /\ \A k \in 1..(n - 1) : w[u][k] = w[t][k]
      BY <1>1, <1>6
  <2>2. SubSeq(w[u], 1, n) = w[u] /\ n \in 1..Len(w[u])
      BY <1>1, <1>2, <2>1
  <2>3. \A s \in DOMAIN batch : w[s] # SubSeq(w[u], 1, n)
    <3> SUFFICES ASSUME NEW s \in DOMAIN batch, w[s] = w[u] PROVE FALSE
        BY <2>2
    <3>1. s \in Things
        BY BatchIs
    <3> QED BY <1>6, <3>1, PlacementIs
  <2>4. Carried(w, batch, u)[n] = batch[t]
      BY <2>1, <2>2, <2>3, CarriedIs
  <2> QED BY <1>4, <1>6, <2>1, <2>4
<1>7. ASSUME ~Chains(w, batch), IsFolder(w, u), w[u] = Renamed(w[t], batch[t])
      PROVE  FALSE
    BY <1>6, <1>7 DEF Chains
<1> QED BY <1>5, <1>6, <1>7

\* The rewritings of a path are as they are defined.
LEMMA RewritingsAre ==
    ASSUME NEW moved, NEW path \in Paths
    PROVE  /\ Rewritings(moved, path)[0] = [path |-> path, rewritten |-> {}]
           /\ \A k \in 1..Len(path) :
                 Rewritings(moved, path)[k] = Pass(moved, Rewritings(moved, path)[k - 1])
<1> DEFINE n == Len(path)
           first == [path |-> path, rewritten |-> {}]
           Upto(m, f) == f = [k \in 0..m |-> IF k = 0 THEN first ELSE Pass(moved, f[k - 1])]
           Bad == {m \in 0..n : \A f : ~Upto(m, f)}
<1>0. n \in Nat
    BY LenProperties DEF Paths
<1>1. Bad = {}
  <2> SUFFICES ASSUME Bad # {} PROVE FALSE
      OBVIOUS
  <2>1. PICK m \in Bad : \A j \in Bad : m <= j
    <3>1. Bad \in SUBSET Nat
        BY <1>0
    <3> HIDE DEF Bad
    <3> QED BY <3>1, LeastOf
  <2>2. m \in 0..n /\ \A f : ~Upto(m, f)
      OBVIOUS
  <2>3. CASE m = 0
    <3> DEFINE f == [k \in 0..0 |-> first]
    <3>1. Upto(0, f)
        OBVIOUS
    <3> HIDE DEF f, Upto
    <3> QED BY <2>2, <2>3, <3>1
  <2>4. CASE m # 0
    <3>1. m - 1 \in 0..n /\ m - 1 < m /\ m \in Nat
        BY <1>0, <2>2, <2>4
    <3>2. m - 1 \notin Bad
      <4>1. ASSUME NEW j \in Bad PROVE m <= j
          BY <2>1
      <4> HIDE DEF Bad
      <4> QED BY <3>1, <4>1
    <3>3. PICK f : Upto(m - 1, f)
      <4> HIDE DEF Upto
      <4> QED BY <3>1, <3>2
    <3> DEFINE g == [k \in 0..m |-> IF k = m THEN Pass(moved, f[m - 1]) ELSE f[k]]
    <3>4. \A k \in 0..(m - 1) : f[k] = IF k = 0 THEN first ELSE Pass(moved, f[k - 1])
        BY <3>3
    <3>5. \A k \in 0..m : g[k] = IF k = 0 THEN first ELSE Pass(moved, g[k - 1])
      <4> TAKE k \in 0..m
      <4>1. CASE k = m
          BY <2>4, <3>1, <4>1
      <4>2. CASE k # m
        <5>1. k \in 0..(m - 1) /\ (k # 0 => k - 1 \in 0..m /\ k - 1 # m)
            BY <3>1, <4>2
        <5>2. g[k] = f[k] /\ (k # 0 => g[k - 1] = f[k - 1])
            BY <4>2, <5>1
        <5> QED BY <3>4, <5>1, <5>2
      <4> QED BY <4>1, <4>2
    <3>6. Upto(m, g)
      <4>1. g = [k \in 0..m |-> g[k]]
          OBVIOUS
      <4> HIDE DEF g
      <4> QED BY <3>5, <4>1
    <3> HIDE DEF g, Upto
    <3> QED BY <2>2, <3>6
  <2> QED BY <2>3, <2>4
<1>2. PICK f : Upto(n, f)
  <2>1. n \in 0..n
      BY <1>0
  <2> HIDE DEF Upto
  <2> QED BY <1>1, <2>1
<1>3. Upto(n, Rewritings(moved, path))
  <2>1. Rewritings(moved, path) = CHOOSE g : Upto(n, g)
      BY DEF Rewritings
  <2> HIDE DEF Upto
  <2> QED BY <1>2, <2>1
<1>4. \A k \in 0..n : Rewritings(moved, path)[k] =
          IF k = 0 THEN first ELSE Pass(moved, Rewritings(moved, path)[k - 1])
    BY <1>3
<1> QED BY <1>0, <1>4

\* A path whose first c components are the old ones and the others the new.
Mixed(w, batch, t, c) ==
    [k \in 1..Len(w[t]) |-> IF k <= c THEN w[t][k] ELSE Carried(w, batch, t)[k]]

\* The depths at which the batch renamed what the path names.
Depths(w, batch, t) ==
    {d \in 1..Len(w[t]) : \E s \in DOMAIN batch : w[s] = SubSeq(w[t], 1, d)}

\* A pass without a hit is the last; one hit below the others is the one it takes.
LEMMA PassIsOver ==
    ASSUME NEW moved, NEW state, Hits(moved, state) = {}
    PROVE  Pass(moved, state) = state
BY DEF Pass

LEMMA PassTakes ==
    ASSUME NEW moved, NEW state, NEW hit \in Hits(moved, state),
           \A q \in Hits(moved, state) : Len(q[1]) \in Nat,
           \A q \in Hits(moved, state) : q # hit => Len(q[1]) < Len(hit[1])
    PROVE  Pass(moved, state) =
               [path      |-> hit[2] \o SubSeq(state.path, Len(hit[1]) + 1, Len(state.path)),
                rewritten |-> state.rewritten \cup {Len(hit[1])}]
<1>1. \A q \in Hits(moved, state) : Len(q[1]) <= Len(hit[1])
    OBVIOUS
<1>2. \A p \in Hits(moved, state) :
          (\A q \in Hits(moved, state) : Len(q[1]) <= Len(p[1])) => p = hit
    OBVIOUS
<1>3. hit = CHOOSE p \in Hits(moved, state) :
                \A q \in Hits(moved, state) : Len(q[1]) <= Len(p[1])
    BY <1>1, <1>2
<1> QED BY <1>3 DEF Pass

LEMMA MixedIs ==
    ASSUME NEW w \in Placements, NEW batch \in Batches, NEW t \in Things,
           NEW c \in 0..Len(w[t])
    PROVE  /\ Mixed(w, batch, t, c) \in Paths
           /\ Len(Mixed(w, batch, t, c)) = Len(w[t])
           /\ \A k \in 1..Len(w[t]) :
                 /\ k <= c => Mixed(w, batch, t, c)[k] = w[t][k]
                 /\ k > c => Mixed(w, batch, t, c)[k] = Carried(w, batch, t)[k]
<1> DEFINE n == Len(w[t])
           m == Mixed(w, batch, t, c)
<1>1. /\ n \in Nat /\ n >= 1
      /\ \A k \in 1..n : w[t][k] \in Called /\ Carried(w, batch, t)[k] \in Called
    BY PlacementIs, CarriedIs, ElementOfSeq DEF Paths
<1>2. m \in [1..n -> Called]
    BY <1>1 DEF Mixed
<1>3. m \in Seq(Called) /\ Len(m) = n
  <2> HIDE DEF m
  <2> QED BY <1>1, <1>2, SeqDef, LenProperties
<1>4. m \in Paths
  <2> HIDE DEF m
  <2> QED BY <1>1, <1>3, EmptySeq DEF Paths
<1>5. \A k \in 1..n : /\ k <= c => m[k] = w[t][k]
                      /\ k > c => m[k] = Carried(w, batch, t)[k]
    BY <1>1 DEF Mixed
<1> QED BY <1>3, <1>4, <1>5

\* A depth the batch renamed at is the length of the path of what it renamed.
LEMMA DepthsAre ==
    ASSUME NEW w \in Placements, NEW batch \in Batches, NEW t \in Things
    PROVE  /\ Depths(w, batch, t) \subseteq 1..Len(w[t])
           /\ \A d \in Depths(w, batch, t) : \E s \in DOMAIN batch :
                 /\ s \in Things /\ w[s] \in Paths /\ Len(w[s]) = d
                 /\ w[s] = SubSeq(w[t], 1, d)
                 /\ \A k \in 1..d : w[s][k] = w[t][k]
                 /\ Carried(w, batch, t)[d] = batch[s]
           /\ \A d \in 1..Len(w[t]) :
                 d \notin Depths(w, batch, t) => Carried(w, batch, t)[d] = w[t][d]
           /\ \A s \in DOMAIN batch :
                 Len(w[s]) <= Len(w[t]) /\ (\A k \in 1..Len(w[s]) : w[s][k] = w[t][k])
                    => Len(w[s]) \in Depths(w, batch, t)
<1>1. ASSUME NEW d \in Depths(w, batch, t)
      PROVE  \E s \in DOMAIN batch :
                 /\ s \in Things /\ w[s] \in Paths /\ Len(w[s]) = d
                 /\ w[s] = SubSeq(w[t], 1, d)
                 /\ \A k \in 1..d : w[s][k] = w[t][k]
                 /\ Carried(w, batch, t)[d] = batch[s]
  <2>1. d \in 1..Len(w[t]) /\ w[t] \in Paths
      BY PlacementIs DEF Depths
  <2>2. PICK s \in DOMAIN batch : w[s] = SubSeq(w[t], 1, d)
      BY DEF Depths
  <2>3. s \in Things /\ w[s] \in Paths
      BY BatchIs, PlacementIs
  <2>4. Len(w[s]) = d /\ \A k \in 1..d : w[s][k] = w[t][k]
      BY <2>1, <2>2, FirstsAre
  <2>5. Carried(w, batch, t)[d] = batch[s]
      BY <2>1, <2>2, CarriedIs
  <2> QED BY <2>2, <2>3, <2>4, <2>5
<1>2. ASSUME NEW d \in 1..Len(w[t]), d \notin Depths(w, batch, t)
      PROVE  Carried(w, batch, t)[d] = w[t][d]
    BY <1>2, CarriedIs DEF Depths
<1>3. ASSUME NEW s \in DOMAIN batch, Len(w[s]) <= Len(w[t]),
             \A k \in 1..Len(w[s]) : w[s][k] = w[t][k]
      PROVE  Len(w[s]) \in Depths(w, batch, t)
  <2>1. /\ s \in Things /\ w[s] \in Paths /\ w[t] \in Paths
        /\ Len(w[s]) \in Nat /\ Len(w[s]) >= 1 /\ Len(w[t]) \in Nat
      BY BatchIs, PlacementIs
  <2>2. Len(w[s]) \in 1..Len(w[t])
      BY <1>3, <2>1
  <2>3. /\ SubSeq(w[t], 1, Len(w[s])) \in Paths /\ Len(SubSeq(w[t], 1, Len(w[s]))) = Len(w[s])
        /\ \A k \in 1..Len(w[s]) : SubSeq(w[t], 1, Len(w[s]))[k] = w[t][k]
      BY <2>1, <2>2, FirstsAre
  <2>4. w[s] = SubSeq(w[t], 1, Len(w[s]))
      BY <1>3, <2>1, <2>3, SamePath
  <2> QED BY <2>2, <2>4 DEF Depths
<1>4. Depths(w, batch, t) \subseteq 1..Len(w[t])
    BY DEF Depths
<1> QED BY <1>1, <1>2, <1>3, <1>4

\* Where a path is half rewritten, what the batch renamed, by its old path or by
\* its new one, is above it only down to the next depth.
LEMMA NoneDeeper ==
    ASSUME NEW w \in Placements, NEW batch \in Batches, NEW t \in Things,
           \A u, v \in Things : After(w, batch)[u] = After(w, batch)[v] => u = v,
           ~Chains(w, batch),
           NEW c \in 0..Len(w[t]), NEW s \in DOMAIN batch,
           NEW q \in {w[s], Renamed(w[s], batch[s])}, q \in Ancestors(Mixed(w, batch, t, c)),
           NEW h \in Depths(w, batch, t), h > c
    PROVE  Len(w[s]) <= h
<1> DEFINE n == Len(w[t])
           d == Len(w[s])
           T == {i \in Depths(w, batch, t) : i > c}
<1> SUFFICES ASSUME d > h PROVE FALSE
  <2>1. s \in Things /\ Len(w[s]) \in Nat /\ h \in Nat
      BY BatchIs, PlacementIs, DepthsAre
  <2> QED BY <2>1
<1>1. /\ s \in Things /\ w[s] \in Paths /\ d \in Nat /\ n \in Nat /\ batch[s] \in Called
    BY BatchIs, PlacementIs
<1>2. /\ q \in Paths /\ Len(q) = d
      /\ \A k \in 1..(d - 1) : q[k] = w[s][k]
    BY <1>1, RenamedIs
<1>3. PICK m \in T : \A i \in T : m <= i
  <2>1. T \in SUBSET Nat /\ T # {}
      BY DepthsAre
  <2> HIDE DEF T
  <2> QED BY <2>1, LeastOf
<1>4. /\ m \in 1..n /\ m > c /\ m < d /\ m \in Depths(w, batch, t)
      /\ \A k \in 1..(m - 1) : k > c => k \notin Depths(w, batch, t)
  <2>1. m \in Depths(w, batch, t) /\ m > c /\ h \in T
      OBVIOUS
  <2>2. m \in 1..n /\ m <= h /\ h \in Nat
      BY <1>3, <2>1, DepthsAre
  <2>3. ASSUME NEW k \in 1..(m - 1), k > c, k \in Depths(w, batch, t)
        PROVE  FALSE
    <3>1. m <= k
        BY <1>3, <2>3
    <3> QED BY <2>2, <3>1
  <2> QED BY <1>1, <2>1, <2>2, <2>3
<1>5. PICK r \in DOMAIN batch :
          /\ r \in Things /\ w[r] \in Paths /\ Len(w[r]) = m
          /\ \A k \in 1..m : w[r][k] = w[t][k]
          /\ Carried(w, batch, t)[m] = batch[r]
    BY <1>4, DepthsAre
<1>6. \A k \in 1..d : q[k] = Mixed(w, batch, t, c)[k]
  <2>1. Mixed(w, batch, t, c) \in Paths
      BY MixedIs
  <2> QED BY <1>2, <2>1, AncestorsBegin
<1>0. m \in 1..Len(w[s])
    BY <1>1, <1>4
<1>7. PICK u \in Things : w[u] = SubSeq(w[s], 1, m)
    BY <1>0, <1>1, PlacementIs
<1>8. Len(w[u]) = m /\ \A k \in 1..m : w[u][k] = w[s][k]
    BY <1>0, <1>1, <1>7, FirstsAre
<1>9. \A k \in 1..m : w[u][k] = Mixed(w, batch, t, c)[k]
    BY <1>1, <1>2, <1>4, <1>6, <1>8
<1>10. w[u] = Renamed(w[r], batch[r])
  <2>1. /\ Renamed(w[r], batch[r]) \in Paths /\ Len(Renamed(w[r], batch[r])) = m
        /\ \A k \in 1..(m - 1) : Renamed(w[r], batch[r])[k] = w[r][k]
        /\ Renamed(w[r], batch[r])[m] = batch[r]
      BY <1>5, BatchIs, RenamedIs
  <2>2. ASSUME NEW k \in 1..m
        PROVE  w[u][k] = Renamed(w[r], batch[r])[k]
    <3>1. CASE k = m
        BY <1>4, <1>5, <1>9, <2>1, <3>1, MixedIs
    <3>2. CASE k # m
      <4>1. k \in 1..(m - 1) /\ k \in 1..n
          BY <1>4, <3>2
      <4>2. Mixed(w, batch, t, c)[k] = w[t][k]
          BY <1>4, <4>1, MixedIs, DepthsAre
      <4> QED BY <1>5, <1>9, <2>1, <4>1, <4>2
    <3> QED BY <3>1, <3>2
  <2>3. w[u] \in Paths
      BY PlacementIs
  <2> QED BY <1>8, <2>1, <2>2, <2>3, SamePath
<1>11. IsFolder(w, u)
  <2>1. w[u] \in Ancestors(w[s])
      BY <1>0, <1>7 DEF Ancestors
  <2>2. u # s
      BY <1>4, <1>8
  <2> QED BY <1>1, <2>1, <2>2 DEF IsFolder
<1> QED BY <1>10, <1>11, NewPaths

\* After a run: the rewriting of a path from its last component up.
RunState(w, batch, t, c) ==
    [path      |-> Mixed(w, batch, t, c),
     rewritten |-> {h \in Depths(w, batch, t) : h > c}]

\* After an undo: from its first component down.
UndoState(w, batch, t, c) ==
    [path      |-> Mixed(w, batch, t, c),
     rewritten |-> {h \in Depths(w, batch, t) : h <= c}]

\* Rewriting one component of a half rewritten path.
LEMMA MixedStep ==
    ASSUME NEW w \in Placements, NEW batch \in Batches, NEW t \in Things,
           NEW c \in 0..Len(w[t]), NEW e \in 0..Len(w[t]), NEW d \in 1..Len(w[t]),
           NEW q \in Paths, Len(q) = d,
           \A k \in 1..d : q[k] = Mixed(w, batch, t, e)[k],
           \A k \in (d + 1)..Len(w[t]) :
               Mixed(w, batch, t, c)[k] = Mixed(w, batch, t, e)[k]
    PROVE  q \o SubSeq(Mixed(w, batch, t, c), d + 1, Len(Mixed(w, batch, t, c)))
              = Mixed(w, batch, t, e)
<1> DEFINE n == Len(w[t])
           x == Mixed(w, batch, t, c)
           y == Mixed(w, batch, t, e)
           r == SubSeq(x, d + 1, n)
<1>1. /\ n \in Nat /\ d \in Nat /\ d <= n /\ d + 1 \in Int
      /\ x \in Paths /\ Len(x) = n /\ y \in Paths /\ Len(y) = n
    BY PlacementIs, MixedIs
<1>2. \A k \in (d + 1)..n : x[k] \in Called
    BY <1>1, ElementOfSeq DEF Paths
<1>3. /\ r \in Seq(Called)
      /\ Len(r) = n - d
      /\ \A i \in 1..(n - d) : r[i] = x[d + i]
  <2> HIDE DEF x, n
  <2>1. /\ SubSeq(x, d + 1, n) \in Seq(Called)
        /\ Len(SubSeq(x, d + 1, n)) = IF d + 1 <= n THEN n - (d + 1) + 1 ELSE 0
        /\ \A i \in 1..(n - (d + 1) + 1) : SubSeq(x, d + 1, n)[i] = x[(d + 1) + i - 1]
      BY <1>1, <1>2, SubSeqProperties
  <2>2. Len(SubSeq(x, d + 1, n)) = n - d
      BY <1>1, <2>1
  <2>3. ASSUME NEW i \in 1..(n - d)
        PROVE  SubSeq(x, d + 1, n)[i] = x[d + i]
    <3>1. i \in 1..(n - (d + 1) + 1) /\ (d + 1) + i - 1 = d + i
        BY <1>1
    <3> QED BY <2>1, <3>1
  <2> QED BY <2>1, <2>2, <2>3
<1>4. q \in Seq(Called)
    BY DEF Paths
<1>5. /\ q \o r \in Seq(Called) /\ Len(q \o r) = n
      /\ \A k \in 1..d : (q \o r)[k] = q[k]
      /\ \A k \in (d + 1)..n : (q \o r)[k] = r[k - d]
  <2> HIDE DEF r, n
  <2>1. /\ q \o r \in Seq(Called) /\ Len(q \o r) = Len(q) + Len(r)
        /\ \A i \in 1..(Len(q) + Len(r)) :
              (q \o r)[i] = IF i <= Len(q) THEN q[i] ELSE r[i - Len(q)]
      BY <1>3, <1>4, ConcatProperties
  <2> QED BY <1>1, <1>3, <2>1
<1>6. ASSUME NEW k \in 1..n
      PROVE  (q \o r)[k] = y[k]
  <2>1. CASE k <= d
    <3>1. k \in 1..d
        BY <2>1
    <3> QED BY <1>5, <3>1
  <2>2. CASE k > d
    <3>1. k \in (d + 1)..n /\ k - d \in 1..(n - d) /\ d + (k - d) = k
        BY <1>1, <2>2
    <3>2. r[k - d] = x[k]
        BY <1>3, <3>1
    <3> QED BY <1>5, <3>1, <3>2
  <2> QED BY <1>1, <2>1, <2>2
<1>7. q \o r = y
  <2> HIDE DEF r, y
  <2> QED BY <1>1, <1>5, <1>6, SeqEqual DEF Paths
<1> QED BY <1>1, <1>7

\* Two half rewritten paths that differ only where the batch changed nothing.
LEMMA MixedAlike ==
    ASSUME NEW w \in Placements, NEW batch \in Batches, NEW t \in Things,
           NEW c \in 0..Len(w[t]), NEW e \in 0..Len(w[t]),
           \A k \in 1..Len(w[t]) : k \in Depths(w, batch, t) => (k <= c <=> k <= e)
    PROVE  /\ Mixed(w, batch, t, c) = Mixed(w, batch, t, e)
           /\ RunState(w, batch, t, c) = RunState(w, batch, t, e)
           /\ UndoState(w, batch, t, c) = UndoState(w, batch, t, e)
<1>0. Depths(w, batch, t) \subseteq 1..Len(w[t]) /\ Len(w[t]) \in Nat
    BY DepthsAre, PlacementIs
<1>1. ASSUME NEW k \in 1..Len(w[t])
      PROVE  Mixed(w, batch, t, c)[k] = Mixed(w, batch, t, e)[k]
  <2>1. CASE k \in Depths(w, batch, t)
    <3>1. CASE k <= c
        BY <2>1, <3>1, MixedIs
    <3>2. CASE k > c
      <4>1. k > e
          BY <1>0, <2>1, <3>2
      <4> QED BY <3>2, <4>1, MixedIs
    <3> QED BY <1>0, <3>1, <3>2
  <2>2. CASE k \notin Depths(w, batch, t)
    <3>1. Carried(w, batch, t)[k] = w[t][k]
        BY <2>2, DepthsAre
    <3> QED BY <1>0, <3>1, MixedIs
  <2> QED BY <2>1, <2>2
<1>2. Mixed(w, batch, t, c) = Mixed(w, batch, t, e)
    BY <1>1, MixedIs, SamePath
<1>3. {h \in Depths(w, batch, t) : h > c} = {h \in Depths(w, batch, t) : h > e}
  <2>1. \A h \in Depths(w, batch, t) : h > c <=> h > e
      BY <1>0
  <2> QED BY <2>1
<1>4. {h \in Depths(w, batch, t) : h <= c} = {h \in Depths(w, batch, t) : h <= e}
    BY <1>0
<1> QED BY <1>2, <1>3, <1>4 DEF RunState, UndoState

\* What a thing of the batch is called before and after, where a path is half rewritten.
LEMMA RunHits ==
    ASSUME NEW w \in Placements, NEW batch \in Batches, NEW t \in Things,
           \A u, v \in Things : After(w, batch)[u] = After(w, batch)[v] => u = v,
           ~Chains(w, batch), NEW c \in 0..Len(w[t])
    PROVE  /\ \A p \in Hits(Report(w, batch), RunState(w, batch, t, c)) : \E s \in DOMAIN batch :
                 /\ p = <<w[s], Renamed(w[s], batch[s])>>
                 /\ Len(w[s]) \in Depths(w, batch, t) /\ Len(w[s]) <= c
                 /\ \A k \in 1..Len(w[s]) : w[s][k] = w[t][k]
           /\ \A s \in DOMAIN batch :
                 Len(w[s]) <= c /\ (\A k \in 1..Len(w[s]) : w[s][k] = w[t][k])
                    => <<w[s], Renamed(w[s], batch[s])>>
                           \in Hits(Report(w, batch), RunState(w, batch, t, c))
<1> DEFINE n == Len(w[t])
           x == Mixed(w, batch, t, c)
           H == Depths(w, batch, t)
<1>0. n \in Nat /\ w[t] \in Paths /\ H \subseteq 1..n
    BY PlacementIs, DepthsAre
<1>00. /\ x \in Paths /\ Len(x) = n
       /\ \A k \in 1..n : /\ k <= c => x[k] = w[t][k]
                          /\ k > c => x[k] = Carried(w, batch, t)[k]
    BY MixedIs
<1>1. ASSUME NEW p \in Hits(Report(w, batch), RunState(w, batch, t, c))
      PROVE  \E s \in DOMAIN batch :
                 /\ p = <<w[s], Renamed(w[s], batch[s])>>
                 /\ Len(w[s]) \in H /\ Len(w[s]) <= c
                 /\ \A k \in 1..Len(w[s]) : w[s][k] = w[t][k]
  <2>1. PICK s \in DOMAIN batch : p = <<w[s], Renamed(w[s], batch[s])>>
      BY DEF Hits, Report
  <2>2. /\ w[s] \in Ancestors(x)
        /\ ~(Len(w[s]) \in H /\ Len(w[s]) > c)
      BY <2>1 DEF Hits, RunState
  <2>3. s \in Things /\ w[s] \in Paths /\ Len(w[s]) \in Nat
      BY BatchIs, PlacementIs
  <2>4. Len(w[s]) <= n /\ \A k \in 1..Len(w[s]) : w[s][k] = x[k]
      BY <1>00, <2>2, <2>3, AncestorsBegin
  <2>5. \A h \in H : h > c => Len(w[s]) <= h
      BY <2>2, NoneDeeper
  <2>6. ASSUME NEW k \in 1..Len(w[s])
        PROVE  w[s][k] = w[t][k]
    <3>1. k \in 1..n
        BY <1>0, <2>3, <2>4
    <3>2. CASE k <= c
        BY <1>00, <2>4, <3>1, <3>2
    <3>3. CASE k > c
      <4>1. k \notin H
          BY <1>0, <2>2, <2>3, <2>5, <3>3
      <4>2. Carried(w, batch, t)[k] = w[t][k]
          BY <3>1, <4>1, DepthsAre
      <4> QED BY <1>00, <2>4, <3>1, <3>3, <4>2
    <3> QED BY <1>0, <3>2, <3>3
  <2>7. Len(w[s]) \in H
      BY <2>4, <2>6, DepthsAre
  <2>8. Len(w[s]) <= c
      BY <2>2, <2>3, <2>7
  <2> QED BY <2>1, <2>6, <2>7, <2>8
<1>2. ASSUME NEW s \in DOMAIN batch, Len(w[s]) <= c,
             \A k \in 1..Len(w[s]) : w[s][k] = w[t][k]
      PROVE  <<w[s], Renamed(w[s], batch[s])>> \in Hits(Report(w, batch), RunState(w, batch, t, c))
  <2>1. s \in Things /\ w[s] \in Paths /\ Len(w[s]) \in Nat
      BY BatchIs, PlacementIs
  <2>2. \A k \in 1..Len(w[s]) : w[s][k] = x[k]
      BY <1>0, <1>00, <1>2, <2>1
  <2>3. w[s] \in Ancestors(x)
      BY <1>0, <1>00, <1>2, <2>1, <2>2, AncestorsBegin
  <2>4. Len(w[s]) \notin {h \in H : h > c}
      BY <1>2, <2>1
  <2>5. <<w[s], Renamed(w[s], batch[s])>> \in Report(w, batch)
      BY DEF Report
  <2> QED BY <2>3, <2>4, <2>5 DEF Hits, RunState
<1> QED BY <1>1, <1>2

\* A pass after a run rewrites through the deepest of what is left, or is over.
LEMMA RunPass ==
    ASSUME NEW w \in Placements, NEW batch \in Batches, NEW t \in Things,
           \A u, v \in Things : After(w, batch)[u] = After(w, batch)[v] => u = v,
           ~Chains(w, batch), NEW c \in 0..Len(w[t])
    PROVE  \E e \in 0..Len(w[t]) :
              /\ e < c \/ e = 0
              /\ Pass(Report(w, batch), RunState(w, batch, t, c)) = RunState(w, batch, t, e)
<1> DEFINE n == Len(w[t])
           H == Depths(w, batch, t)
           moved == Report(w, batch)
           x == RunState(w, batch, t, c)
           T == {c - d : d \in {h \in H : h <= c}}
<1>0. n \in Nat /\ H \subseteq 1..n
    BY PlacementIs, DepthsAre
<1>1. CASE \A h \in H : h > c
  <2>1. Hits(moved, x) = {}
    <3> SUFFICES ASSUME NEW p \in Hits(moved, x) PROVE FALSE
        OBVIOUS
    <3>1. PICK s \in DOMAIN batch : Len(w[s]) \in H /\ Len(w[s]) <= c
        BY RunHits
    <3> QED BY <1>0, <1>1, <3>1
  <2>2. Pass(moved, x) = x
      BY <2>1, PassIsOver
  <2>3. 0 \in 0..n /\ \A k \in 1..n : k \in H => (k <= c <=> k <= 0)
      BY <1>0, <1>1
  <2>4. x = RunState(w, batch, t, 0)
      BY <2>3, MixedAlike
  <2> QED BY <2>2, <2>3, <2>4
<1>2. CASE \E h \in H : h <= c
  <2>1. T \in SUBSET Nat /\ T # {}
      BY <1>0, <1>2
  <2>2. PICK m \in T : \A j \in T : m <= j
    <3> HIDE DEF T
    <3> QED BY <2>1, LeastOf
  <2>3. PICK d \in H : d <= c /\ m = c - d
      OBVIOUS
  <2>4. /\ d \in 1..n /\ d - 1 \in 0..n /\ d - 1 < c
        /\ \A h \in H : h <= c => h <= d
    <3>1. ASSUME NEW h \in H, h <= c PROVE h <= d
      <4>1. c - h \in T
          BY <3>1
      <4>2. m <= c - h
          BY <2>2, <4>1
      <4> QED BY <1>0, <2>3, <4>2
    <3> QED BY <1>0, <2>3, <3>1
  <2>5. PICK s \in DOMAIN batch :
            /\ s \in Things /\ w[s] \in Paths /\ Len(w[s]) = d
            /\ \A k \in 1..d : w[s][k] = w[t][k]
            /\ Carried(w, batch, t)[d] = batch[s]
      BY <2>3, DepthsAre
  <2> DEFINE hit == <<w[s], Renamed(w[s], batch[s])>>
  <2>6. hit \in Hits(moved, x)
      BY <2>3, <2>5, RunHits
  <2>7. ASSUME NEW q \in Hits(moved, x)
        PROVE  Len(q[1]) \in Nat /\ (q # hit => Len(q[1]) < d)
    <3>1. PICK r \in DOMAIN batch :
              /\ q = <<w[r], Renamed(w[r], batch[r])>>
              /\ Len(w[r]) \in H /\ Len(w[r]) <= c
              /\ \A k \in 1..Len(w[r]) : w[r][k] = w[t][k]
        BY RunHits
    <3>2. Len(w[r]) <= d /\ Len(w[r]) \in Nat /\ q[1] = w[r]
        BY <1>0, <2>4, <3>1
    <3>3. ASSUME Len(w[r]) = d PROVE q = hit
      <4>1. r \in Things /\ w[r] \in Paths
          BY BatchIs, PlacementIs
      <4>2. w[r] = w[s]
          BY <2>5, <3>1, <3>3, <4>1, SamePath
      <4>3. r = s
          BY <2>5, <4>1, <4>2, PlacementIs
      <4> QED BY <3>1, <4>3
    <3> QED BY <2>4, <3>2, <3>3
  <2>8. Pass(moved, x) =
            [path      |-> Renamed(w[s], batch[s]) \o SubSeq(x.path, d + 1, Len(x.path)),
             rewritten |-> x.rewritten \cup {d}]
    <3>1. hit[1] = w[s] /\ hit[2] = Renamed(w[s], batch[s]) /\ Len(hit[1]) = d
        BY <2>5
    <3>2. /\ \A q \in Hits(moved, x) : Len(q[1]) \in Nat
          /\ \A q \in Hits(moved, x) : q # hit => Len(q[1]) < Len(hit[1])
        BY <2>7, <3>1
    <3> HIDE DEF hit, moved, x
    <3>3. Pass(moved, x) =
              [path      |-> hit[2] \o SubSeq(x.path, Len(hit[1]) + 1, Len(x.path)),
               rewritten |-> x.rewritten \cup {Len(hit[1])}]
        BY <2>6, <3>2, PassTakes
    <3> QED BY <3>1, <3>3
  <2>9. Renamed(w[s], batch[s]) \o SubSeq(x.path, d + 1, Len(x.path)) = Mixed(w, batch, t, d - 1)
    <3>1. /\ Renamed(w[s], batch[s]) \in Paths /\ Len(Renamed(w[s], batch[s])) = d
          /\ \A k \in 1..(d - 1) : Renamed(w[s], batch[s])[k] = w[s][k]
          /\ Renamed(w[s], batch[s])[d] = batch[s]
        BY <2>5, BatchIs, RenamedIs
    <3>2. ASSUME NEW k \in 1..d
          PROVE  Renamed(w[s], batch[s])[k] = Mixed(w, batch, t, d - 1)[k]
      <4>1. CASE k = d
          BY <2>4, <2>5, <3>1, <4>1, MixedIs
      <4>2. CASE k # d
        <5>1. k \in 1..(d - 1) /\ k \in 1..n
            BY <2>4, <4>2
        <5>2. Mixed(w, batch, t, d - 1)[k] = w[t][k]
            BY <2>4, <5>1, MixedIs
        <5> QED BY <2>5, <3>1, <5>1, <5>2
      <4> QED BY <4>1, <4>2
    <3>3. ASSUME NEW k \in (d + 1)..n
          PROVE  Mixed(w, batch, t, c)[k] = Mixed(w, batch, t, d - 1)[k]
      <4>1. k \in 1..n /\ k > d - 1 /\ k > d
          BY <2>4
      <4>2. Mixed(w, batch, t, d - 1)[k] = Carried(w, batch, t)[k]
          BY <2>4, <4>1, MixedIs
      <4>3. CASE k > c
          BY <4>1, <4>2, <4>3, MixedIs
      <4>4. CASE k <= c
        <5>1. k \notin H
            BY <1>0, <2>4, <4>1, <4>4
        <5> QED BY <4>1, <4>2, <4>4, <5>1, MixedIs, DepthsAre
      <4> QED BY <1>0, <4>3, <4>4
    <3>4. x.path = Mixed(w, batch, t, c)
        BY DEF RunState
    <3>5. Renamed(w[s], batch[s])
              \o SubSeq(Mixed(w, batch, t, c), d + 1, Len(Mixed(w, batch, t, c)))
            = Mixed(w, batch, t, d - 1)
        BY <2>4, <3>1, <3>2, <3>3, MixedStep
    <3> HIDE DEF x
    <3> QED BY <3>4, <3>5
  <2>10. x.rewritten \cup {d} = {h \in H : h > d - 1}
    <3>1. x.rewritten = {h \in H : h > c}
        BY DEF RunState
    <3>2. \A h \in H : (h > c \/ h = d) <=> h > d - 1
        BY <1>0, <2>3, <2>4
    <3> HIDE DEF x, H
    <3> QED BY <2>3, <3>1, <3>2
  <2>11. Pass(moved, x) = RunState(w, batch, t, d - 1)
      BY <2>8, <2>9, <2>10 DEF RunState
  <2> QED BY <2>4, <2>11
<1> QED BY <1>0, <1>1, <1>2

\* A path followed through the report of a run is the path the run left.
LEMMA RunFollowed ==
    ASSUME NEW w \in Placements, NEW batch \in Batches, NEW t \in Things,
           \A u, v \in Things : After(w, batch)[u] = After(w, batch)[v] => u = v,
           ~Chains(w, batch)
    PROVE  Followed(Report(w, batch), w[t]) = Carried(w, batch, t)
<1> DEFINE n == Len(w[t])
           P == Rewritings(Report(w, batch), w[t])
           Reaches(k, c) == P[k] = RunState(w, batch, t, c)
           Bad == {k \in 0..n : ~\E c \in 0..(n - k) : Reaches(k, c)}
<1>0. n \in Nat /\ n >= 1 /\ w[t] \in Paths
    BY PlacementIs
<1>1. /\ P[0] = [path |-> w[t], rewritten |-> {}]
      /\ \A k \in 1..n : P[k] = Pass(Report(w, batch), P[k - 1])
    BY <1>0, RewritingsAre
<1>2. Reaches(0, n)
  <2>1. n \in 0..n
      BY <1>0
  <2>2. Mixed(w, batch, t, n) = w[t]
    <3>1. /\ Mixed(w, batch, t, n) \in Paths /\ Len(Mixed(w, batch, t, n)) = Len(w[t])
          /\ \A k \in 1..Len(w[t]) : Mixed(w, batch, t, n)[k] = w[t][k]
        BY <1>0, <2>1, MixedIs
    <3> QED BY <1>0, <3>1, SamePath
  <2>3. {h \in Depths(w, batch, t) : h > n} = {}
      BY <1>0, DepthsAre
  <2> QED BY <1>1, <2>2, <2>3 DEF RunState
<1>3. Bad = {}
  <2> SUFFICES ASSUME Bad # {} PROVE FALSE
      OBVIOUS
  <2>1. PICK k \in Bad : \A j \in Bad : k <= j
    <3>1. Bad \in SUBSET Nat
        BY <1>0
    <3> HIDE DEF Bad
    <3> QED BY <3>1, LeastOf
  <2>2. k \in 0..n /\ ~\E c \in 0..(n - k) : Reaches(k, c)
      OBVIOUS
  <2>3. k # 0
    <3>1. n \in 0..(n - 0)
        BY <1>0
    <3> HIDE DEF Reaches
    <3> QED BY <1>2, <2>2, <3>1
  <2>4. k - 1 \in 0..n /\ k \in 1..n /\ k - 1 < k
      BY <1>0, <2>2, <2>3
  <2>5. k - 1 \notin Bad
    <3>1. ASSUME NEW j \in Bad PROVE k <= j
        BY <2>1
    <3> HIDE DEF Bad
    <3> QED BY <2>4, <3>1
  <2>6. PICK c \in 0..(n - (k - 1)) : Reaches(k - 1, c)
    <3> HIDE DEF Reaches
    <3> QED BY <2>4, <2>5
  <2>7. c \in 0..n
      BY <1>0, <2>4
  <2>8. PICK e \in 0..n :
            /\ e < c \/ e = 0
            /\ Pass(Report(w, batch), RunState(w, batch, t, c)) = RunState(w, batch, t, e)
      BY <2>7, RunPass
  <2>9. Reaches(k, e)
      BY <1>1, <2>4, <2>6, <2>8
  <2>10. e \in 0..(n - k)
      BY <1>0, <2>4, <2>8
  <2> HIDE DEF Reaches
  <2> QED BY <2>2, <2>9, <2>10
<1>4. Reaches(n, 0)
  <2>1. n \in 0..n /\ \A c : c \in 0..(n - n) => c = 0
      BY <1>0
  <2> HIDE DEF Reaches
  <2>2. PICK c \in 0..(n - n) : Reaches(n, c)
      BY <1>3, <2>1
  <2> QED BY <2>1, <2>2
<1>5. Mixed(w, batch, t, 0) = Carried(w, batch, t)
  <2>1. 0 \in 0..Len(w[t]) /\ \A k \in 1..Len(w[t]) : k > 0
      BY <1>0
  <2>2. /\ Mixed(w, batch, t, 0) \in Paths /\ Len(Mixed(w, batch, t, 0)) = Len(w[t])
        /\ \A k \in 1..Len(w[t]) : Mixed(w, batch, t, 0)[k] = Carried(w, batch, t)[k]
      BY <2>1, MixedIs
  <2>3. Carried(w, batch, t) \in Paths /\ Len(Carried(w, batch, t)) = Len(w[t])
      BY CarriedIs
  <2> QED BY <2>2, <2>3, SamePath
<1> QED BY <1>4, <1>5 DEF Followed, RunState

\* The undo's pairs that a pass may take: those of the next depth only.
LEMMA UndoHits ==
    ASSUME NEW w \in Placements, NEW batch \in Batches, NEW t \in Things,
           \A u, v \in Things : After(w, batch)[u] = After(w, batch)[v] => u = v,
           ~Chains(w, batch), NEW c \in 0..Len(w[t]),
           NEW p \in Hits(Backwards(Report(w, batch)), UndoState(w, batch, t, c))
    PROVE  \E s \in DOMAIN batch :
              /\ p = <<Renamed(w[s], batch[s]), w[s]>>
              /\ Len(w[s]) \in Depths(w, batch, t) /\ Len(w[s]) > c
              /\ \A h \in Depths(w, batch, t) : h > c => Len(w[s]) <= h
              /\ \A k \in 1..Len(w[s]) : w[s][k] = w[t][k]
<1> DEFINE n == Len(w[t])
           x == Mixed(w, batch, t, c)
           H == Depths(w, batch, t)
<1>0. n \in Nat /\ w[t] \in Paths /\ H \subseteq 1..n
    BY PlacementIs, DepthsAre
<1>1. /\ x \in Paths /\ Len(x) = n
      /\ \A k \in 1..n : /\ k <= c => x[k] = w[t][k]
                         /\ k > c => x[k] = Carried(w, batch, t)[k]
    BY MixedIs
<1>2. PICK s \in DOMAIN batch : p = <<Renamed(w[s], batch[s]), w[s]>>
  <2>1. p \in Backwards(Report(w, batch))
      BY DEF Hits
  <2>2. PICK pair \in Report(w, batch) : p = <<pair[2], pair[1]>>
      BY <2>1 DEF Backwards
  <2>3. PICK s \in DOMAIN batch : pair = <<w[s], Renamed(w[s], batch[s])>>
      BY DEF Report
  <2> QED BY <2>2, <2>3
<1> DEFINE q == Renamed(w[s], batch[s])
           d == Len(w[s])
<1>3. /\ s \in Things /\ w[s] \in Paths /\ d \in Nat /\ d >= 1
      /\ q \in Paths /\ Len(q) = d /\ q[d] = batch[s]
      /\ \A k \in 1..(d - 1) : q[k] = w[s][k]
    BY BatchIs, PlacementIs, RenamedIs
<1>4. q \in Ancestors(x) /\ ~(d \in H /\ d <= c)
  <2>1. p[1] = q /\ p[1] \in Ancestors(UndoState(w, batch, t, c).path)
        /\ Len(p[1]) \notin UndoState(w, batch, t, c).rewritten
      BY <1>2 DEF Hits
  <2> HIDE DEF q
  <2> QED BY <1>3, <2>1 DEF UndoState
<1>5. d <= n /\ \A k \in 1..d : q[k] = x[k]
  <2> HIDE DEF q, x
  <2> QED BY <1>1, <1>3, <1>4, AncestorsBegin
<1>6. \A h \in H : h > c => d <= h
    BY <1>4, NoneDeeper
<1>7. d \in H
  <2> SUFFICES ASSUME d \notin H PROVE FALSE
      OBVIOUS
  <2>1. ASSUME NEW k \in 1..d
        PROVE  k \in 1..n /\ q[k] = w[t][k]
    <3>1. k \in 1..n
        BY <1>0, <1>3, <1>5
    <3>2. CASE k <= c
        BY <1>1, <1>5, <3>1, <3>2
    <3>3. CASE k > c
      <4>1. k \notin H
          BY <1>0, <1>3, <1>6, <3>3
      <4>2. Carried(w, batch, t)[k] = w[t][k]
          BY <3>1, <4>1, DepthsAre
      <4> QED BY <1>1, <1>5, <3>1, <3>3, <4>2
    <3> QED BY <1>0, <3>1, <3>2, <3>3
  <2>2. d \in 1..n
      BY <1>3, <1>5
  <2>3. PICK v \in Things : w[v] = SubSeq(w[t], 1, d)
      BY <2>2, PlacementIs
  <2>4. Len(w[v]) = d /\ w[v] \in Paths /\ \A k \in 1..d : w[v][k] = w[t][k]
      BY <1>0, <2>2, <2>3, FirstsAre, PlacementIs
  <2>5. w[v] = q
    <3> HIDE DEF q
    <3> QED BY <1>3, <2>1, <2>4, SamePath
  <2>6. v \notin DOMAIN batch
      BY <2>2, <2>3 DEF Depths
  <2> QED BY <2>5, <2>6, NewPaths
<1>8. d > c
    BY <1>3, <1>4, <1>7
<1>9. PICK r \in DOMAIN batch :
          /\ r \in Things /\ w[r] \in Paths /\ Len(w[r]) = d
          /\ \A k \in 1..d : w[r][k] = w[t][k]
          /\ Carried(w, batch, t)[d] = batch[r]
    BY <1>7, DepthsAre
<1>10. q = Renamed(w[r], batch[r])
  <2>1. /\ Renamed(w[r], batch[r]) \in Paths /\ Len(Renamed(w[r], batch[r])) = d
        /\ \A k \in 1..(d - 1) : Renamed(w[r], batch[r])[k] = w[r][k]
        /\ Renamed(w[r], batch[r])[d] = batch[r]
      BY <1>9, BatchIs, RenamedIs
  <2>2. ASSUME NEW k \in 1..d
        PROVE  q[k] = Renamed(w[r], batch[r])[k]
    <3>0. k \in 1..n
        BY <1>0, <1>3, <1>5
    <3>1. CASE k = d
        BY <1>1, <1>5, <1>8, <1>9, <2>1, <3>0, <3>1
    <3>2. CASE k # d
      <4>1. k \in 1..(d - 1)
          BY <1>3, <3>2
      <4>2. CASE k <= c
          BY <1>1, <1>5, <1>9, <2>1, <3>0, <4>1, <4>2
      <4>3. CASE k > c
        <5>1. k \notin H
            BY <1>0, <1>3, <1>6, <4>1, <4>3
        <5>2. Carried(w, batch, t)[k] = w[t][k]
            BY <3>0, <5>1, DepthsAre
        <5> QED BY <1>1, <1>5, <1>9, <2>1, <3>0, <4>1, <4>3, <5>2
      <4> QED BY <1>0, <3>0, <4>2, <4>3
    <3> QED BY <3>1, <3>2
  <2> HIDE DEF q
  <2> QED BY <1>3, <2>1, <2>2, SamePath
<1>11. s = r
    BY <1>3, <1>9, <1>10, NewPaths
<1> QED BY <1>2, <1>6, <1>7, <1>8, <1>9, <1>11

\* A pass after an undo rewrites at the next depth, or is over.
LEMMA UndoPass ==
    ASSUME NEW w \in Placements, NEW batch \in Batches, NEW t \in Things,
           \A u, v \in Things : After(w, batch)[u] = After(w, batch)[v] => u = v,
           ~Chains(w, batch), NEW c \in 0..Len(w[t])
    PROVE  \E e \in 0..Len(w[t]) :
              /\ e > c \/ e = Len(w[t])
              /\ Pass(Backwards(Report(w, batch)), UndoState(w, batch, t, c))
                     = UndoState(w, batch, t, e)
<1> DEFINE n == Len(w[t])
           H == Depths(w, batch, t)
           moved == Backwards(Report(w, batch))
           x == UndoState(w, batch, t, c)
           T == {h \in H : h > c}
<1>0. n \in Nat /\ H \subseteq 1..n
    BY PlacementIs, DepthsAre
<1>1. CASE T = {}
  <2>1. Hits(moved, x) = {}
    <3> SUFFICES ASSUME NEW p \in Hits(moved, x) PROVE FALSE
        OBVIOUS
    <3>1. PICK s \in DOMAIN batch : Len(w[s]) \in H /\ Len(w[s]) > c
        BY UndoHits
    <3> QED BY <1>1, <3>1
  <2>2. Pass(moved, x) = x
      BY <2>1, PassIsOver
  <2>3. n \in 0..n /\ \A k \in 1..n : k \in H => (k <= c <=> k <= n)
      BY <1>0, <1>1
  <2>4. x = UndoState(w, batch, t, n)
      BY <2>3, MixedAlike
  <2> QED BY <2>2, <2>3, <2>4
<1>2. CASE T # {}
  <2>1. PICK d \in T : \A h \in T : d <= h
    <3>1. T \in SUBSET Nat
        BY <1>0
    <3> HIDE DEF T
    <3> QED BY <1>2, <3>1, LeastOf
  <2>2. /\ d \in H /\ d > c /\ d \in 1..n /\ d \in 0..n
        /\ \A h \in H : h > c => d <= h
      BY <1>0, <2>1
  <2>3. PICK s \in DOMAIN batch :
            /\ s \in Things /\ w[s] \in Paths /\ Len(w[s]) = d
            /\ \A k \in 1..d : w[s][k] = w[t][k]
            /\ Carried(w, batch, t)[d] = batch[s]
      BY <2>2, DepthsAre
  <2> DEFINE q == Renamed(w[s], batch[s])
             hit == <<q, w[s]>>
  <2>4. /\ q \in Paths /\ Len(q) = d /\ q[d] = batch[s]
        /\ \A k \in 1..(d - 1) : q[k] = w[s][k]
      BY <2>3, BatchIs, RenamedIs
  <2>5. ASSUME NEW k \in 1..d
        PROVE  q[k] = Mixed(w, batch, t, c)[k]
    <3>0. k \in 1..n
        BY <1>0, <2>2
    <3>1. CASE k = d
        BY <2>2, <2>3, <2>4, <3>0, <3>1, MixedIs
    <3>2. CASE k # d
      <4>1. k \in 1..(d - 1)
          BY <2>2, <3>2
      <4>2. CASE k <= c
          BY <2>3, <2>4, <3>0, <4>1, <4>2, MixedIs
      <4>3. CASE k > c
        <5>1. k \notin H
            BY <1>0, <2>2, <4>1, <4>3
        <5>2. Carried(w, batch, t)[k] = w[t][k]
            BY <3>0, <5>1, DepthsAre
        <5>3. Mixed(w, batch, t, c)[k] = w[t][k]
            BY <3>0, <4>3, <5>2, MixedIs
        <5> QED BY <2>3, <2>4, <4>1, <5>3
      <4> QED BY <1>0, <3>0, <4>2, <4>3
    <3> QED BY <3>1, <3>2
  <2>6. hit \in Hits(moved, x)
    <3>1. Mixed(w, batch, t, c) \in Paths /\ Len(Mixed(w, batch, t, c)) = n
        BY MixedIs
    <3>2. q \in Ancestors(Mixed(w, batch, t, c))
      <4> HIDE DEF q
      <4> QED BY <1>0, <2>2, <2>4, <2>5, <3>1, AncestorsBegin
    <3>3. Len(q) \notin {h \in H : h <= c}
        BY <1>0, <2>2, <2>4
    <3>4. hit \in moved
      <4>1. <<w[s], q>> \in Report(w, batch)
          BY DEF Report
      <4>2. <<w[s], q>>[1] = w[s] /\ <<w[s], q>>[2] = q
          OBVIOUS
      <4> HIDE DEF q
      <4> QED BY <4>1, <4>2 DEF Backwards
    <3>5. hit[1] = q /\ x.path = Mixed(w, batch, t, c) /\ x.rewritten = {h \in H : h <= c}
        BY DEF UndoState
    <3> HIDE DEF q, x, moved, hit, H
    <3> QED BY <3>2, <3>3, <3>4, <3>5 DEF Hits
  <2>7. ASSUME NEW p \in Hits(moved, x)
        PROVE  p = hit
    <3>1. PICK r \in DOMAIN batch :
              /\ p = <<Renamed(w[r], batch[r]), w[r]>>
              /\ Len(w[r]) \in H /\ Len(w[r]) > c
              /\ \A h \in H : h > c => Len(w[r]) <= h
              /\ \A k \in 1..Len(w[r]) : w[r][k] = w[t][k]
        BY UndoHits
    <3>2. Len(w[r]) = d
      <4>1. Len(w[r]) <= d /\ d <= Len(w[r]) /\ Len(w[r]) \in Nat
          BY <1>0, <2>2, <3>1
      <4> QED BY <2>2, <4>1
    <3>3. r \in Things /\ w[r] \in Paths
        BY BatchIs, PlacementIs
    <3>4. w[r] = w[s]
        BY <2>3, <3>1, <3>2, <3>3, SamePath
    <3>5. r = s
        BY <2>3, <3>3, <3>4, PlacementIs
    <3> QED BY <3>1, <3>5
  <2>8. Pass(moved, x) =
            [path      |-> w[s] \o SubSeq(x.path, d + 1, Len(x.path)),
             rewritten |-> x.rewritten \cup {d}]
    <3>1. hit[1] = q /\ hit[2] = w[s] /\ Len(hit[1]) = d /\ d \in Nat
        BY <2>2, <2>4
    <3>2. /\ \A p \in Hits(moved, x) : Len(p[1]) \in Nat
          /\ \A p \in Hits(moved, x) : p # hit => Len(p[1]) < Len(hit[1])
      <4> HIDE DEF hit, moved, x
      <4> QED BY <2>7, <3>1
    <3> HIDE DEF hit, moved, x
    <3>3. Pass(moved, x) =
              [path      |-> hit[2] \o SubSeq(x.path, Len(hit[1]) + 1, Len(x.path)),
               rewritten |-> x.rewritten \cup {Len(hit[1])}]
        BY <2>6, <3>2, PassTakes
    <3> QED BY <3>1, <3>3
  <2>9. w[s] \o SubSeq(x.path, d + 1, Len(x.path)) = Mixed(w, batch, t, d)
    <3>1. ASSUME NEW k \in 1..d
          PROVE  w[s][k] = Mixed(w, batch, t, d)[k]
      <4>1. k \in 1..n /\ k <= d
          BY <1>0, <2>2
      <4> QED BY <2>2, <2>3, <4>1, MixedIs
    <3>2. ASSUME NEW k \in (d + 1)..n
          PROVE  Mixed(w, batch, t, c)[k] = Mixed(w, batch, t, d)[k]
      <4>1. k \in 1..n /\ k > d /\ k > c
          BY <1>0, <2>2
      <4> QED BY <2>2, <4>1, MixedIs
    <3>3. x.path = Mixed(w, batch, t, c)
        BY DEF UndoState
    <3>4. w[s] \o SubSeq(Mixed(w, batch, t, c), d + 1, Len(Mixed(w, batch, t, c)))
            = Mixed(w, batch, t, d)
        BY <2>2, <2>3, <3>1, <3>2, MixedStep
    <3> HIDE DEF x
    <3> QED BY <3>3, <3>4
  <2>10. x.rewritten \cup {d} = {h \in H : h <= d}
    <3>1. x.rewritten = {h \in H : h <= c}
        BY DEF UndoState
    <3>2. \A h \in H : (h <= c \/ h = d) <=> h <= d
      <4> TAKE h \in H
      <4>1. h \in Nat /\ d \in Nat /\ c \in Nat
          BY <1>0, <2>2
      <4>2. h > c => d <= h
          BY <2>2
      <4> HIDE DEF H
      <4> QED BY <2>2, <4>1, <4>2
    <3> HIDE DEF x, H
    <3> QED BY <2>2, <3>1, <3>2
  <2>11. Pass(moved, x) = UndoState(w, batch, t, d)
      BY <2>8, <2>9, <2>10 DEF UndoState
  <2> QED BY <2>2, <2>11
<1> QED BY <1>1, <1>2

\* A path followed through the report of an undo is the path before the run.
LEMMA UndoFollowed ==
    ASSUME NEW w \in Placements, NEW batch \in Batches, NEW t \in Things,
           \A u, v \in Things : After(w, batch)[u] = After(w, batch)[v] => u = v,
           ~Chains(w, batch)
    PROVE  Followed(Backwards(Report(w, batch)), Carried(w, batch, t)) = w[t]
<1> DEFINE n == Len(w[t])
           a == Carried(w, batch, t)
           moved == Backwards(Report(w, batch))
           P == Rewritings(moved, a)
           Reaches(k, c) == P[k] = UndoState(w, batch, t, c)
           Bad == {k \in 0..n : ~\E c \in k..n : Reaches(k, c)}
<1>0. n \in Nat /\ n >= 1 /\ w[t] \in Paths /\ a \in Paths /\ Len(a) = n
    BY PlacementIs, CarriedIs
<1>1. /\ P[0] = [path |-> a, rewritten |-> {}]
      /\ \A k \in 1..n : P[k] = Pass(moved, P[k - 1])
  <2> HIDE DEF a, moved
  <2> QED BY <1>0, RewritingsAre
<1>2. Reaches(0, 0)
  <2>1. 0 \in 0..n /\ \A k \in 1..n : k > 0
      BY <1>0
  <2>2. Mixed(w, batch, t, 0) = a
    <3>1. /\ Mixed(w, batch, t, 0) \in Paths /\ Len(Mixed(w, batch, t, 0)) = n
          /\ \A k \in 1..n : Mixed(w, batch, t, 0)[k] = a[k]
        BY <2>1, MixedIs
    <3> HIDE DEF a
    <3> QED BY <1>0, <3>1, SamePath
  <2>3. {h \in Depths(w, batch, t) : h <= 0} = {}
      BY <1>0, DepthsAre
  <2> QED BY <1>1, <2>2, <2>3 DEF UndoState
<1>3. Bad = {}
  <2> SUFFICES ASSUME Bad # {} PROVE FALSE
      OBVIOUS
  <2>1. PICK k \in Bad : \A j \in Bad : k <= j
    <3>1. Bad \in SUBSET Nat
        BY <1>0
    <3> HIDE DEF Bad
    <3> QED BY <3>1, LeastOf
  <2>2. k \in 0..n /\ ~\E c \in k..n : Reaches(k, c)
      OBVIOUS
  <2>3. k # 0
    <3>1. 0 \in 0..n
        BY <1>0
    <3> HIDE DEF Reaches
    <3> QED BY <1>2, <2>2, <3>1
  <2>4. k - 1 \in 0..n /\ k \in 1..n /\ k - 1 < k
      BY <1>0, <2>2, <2>3
  <2>5. k - 1 \notin Bad
    <3>1. ASSUME NEW j \in Bad PROVE k <= j
        BY <2>1
    <3> HIDE DEF Bad
    <3> QED BY <2>4, <3>1
  <2>6. PICK c \in (k - 1)..n : Reaches(k - 1, c)
    <3> HIDE DEF Reaches
    <3> QED BY <2>4, <2>5
  <2>7. c \in 0..n
      BY <1>0, <2>4
  <2>8. PICK e \in 0..n :
            /\ e > c \/ e = n
            /\ Pass(moved, UndoState(w, batch, t, c)) = UndoState(w, batch, t, e)
      BY <2>7, UndoPass
  <2>9. Reaches(k, e)
    <3> HIDE DEF moved, a
    <3> QED BY <1>1, <2>4, <2>6, <2>8
  <2>10. e \in k..n
      BY <1>0, <2>4, <2>8
  <2> HIDE DEF Reaches
  <2> QED BY <2>2, <2>9, <2>10
<1>4. Reaches(n, n)
  <2>1. n \in 0..n /\ \A c : c \in n..n => c = n
      BY <1>0
  <2> HIDE DEF Reaches
  <2>2. PICK c \in n..n : Reaches(n, c)
      BY <1>3, <2>1
  <2> QED BY <2>1, <2>2
<1>5. Mixed(w, batch, t, n) = w[t]
  <2>1. n \in 0..Len(w[t]) /\ \A k \in 1..Len(w[t]) : k <= n
      BY <1>0
  <2>2. /\ Mixed(w, batch, t, n) \in Paths /\ Len(Mixed(w, batch, t, n)) = Len(w[t])
        /\ \A k \in 1..Len(w[t]) : Mixed(w, batch, t, n)[k] = w[t][k]
      BY <2>1, MixedIs
  <2> QED BY <1>0, <2>2, SamePath
<1>6. P[Len(a)].path = w[t]
    BY <1>0, <1>4, <1>5 DEF UndoState
<1> QED BY <1>6 DEF Followed

\* The invariant of the Free Select set is kept: what the journal has of the last
\* run is what leads its undo back, and the names before it are those it ran over.
LEMMA FreeInitOk == FreeInit => FreeInv
<1> SUFFICES ASSUME FreeInit PROVE FreeInv
    OBVIOUS
<1>1. where \in Placements /\ before \in Placements
    BY FreeAssumption DEF FreeInit
<1>2. DOMAIN free = {}
    BY DEF FreeInit
<1>3. chained = FALSE /\ last = {}
    BY DEF FreeInit
<1> QED BY <1>1, <1>2, <1>3 DEF FreeInv, LastIsAsItRan, FollowsTheFile

\* The set after a report, where it named each thing rightly before.
LEMMA FreeAfter ==
    ASSUME NEW moved, FollowRenames(moved), NEW w, NEW v,
           \A t \in DOMAIN free : free[t] = w[t] /\ Followed(moved, w[t]) = v[t]
    PROVE  DOMAIN free' = DOMAIN free /\ \A t \in DOMAIN free : free'[t] = v[t]
BY DEF FollowRenames

LEMMA RunsKeeps == FreeInv /\ Runs => FreeInv'
<1> SUFFICES ASSUME FreeInv, Runs PROVE FreeInv'
    OBVIOUS
<1>1. PICK batch \in Batches :
          /\ \A t, u \in Things : After(where, batch)[t] = After(where, batch)[u] => t = u
          /\ where' = After(where, batch)
          /\ FollowRenames(Report(where, batch))
          /\ last' = Report(where, batch)
          /\ chained' = (chained \/ Chains(where, batch))
    BY DEF Runs
<1>2. /\ where \in Placements /\ before' = where /\ chained \in BOOLEAN
      /\ DOMAIN free \subseteq Things
    BY DEF FreeInv, Runs
<1>3. where' \in Placements /\ before' \in Placements
    BY <1>1, <1>2, AfterIsAPlacement
<1>4. chained' \in BOOLEAN /\ (~chained' => ~chained /\ ~Chains(where, batch))
    BY <1>1
<1>5. DOMAIN free' = DOMAIN free
    BY <1>1 DEF FollowRenames
<1>6. LastIsAsItRan'
    BY <1>1, <1>2, <1>4 DEF LastIsAsItRan
<1>7. FollowsTheFile'
  <2> SUFFICES ASSUME ~chained' PROVE \A t \in DOMAIN free' : free'[t] = where'[t]
      BY DEF FollowsTheFile
  <2>1. \A t \in DOMAIN free : free[t] = where[t]
      BY <1>4 DEF FreeInv, FollowsTheFile
  <2>2. ASSUME NEW t \in DOMAIN free
        PROVE  Followed(Report(where, batch), where[t]) = After(where, batch)[t]
    <3>1. t \in Things
        BY <1>2
    <3>2. Followed(Report(where, batch), where[t]) = Carried(where, batch, t)
        BY <1>1, <1>2, <1>4, <3>1, RunFollowed
    <3> QED BY <3>1, <3>2 DEF After
  <2>3. \A t \in DOMAIN free : free'[t] = After(where, batch)[t]
      BY <1>1, <2>1, <2>2, FreeAfter
  <2> QED BY <1>1, <1>5, <2>3
<1> QED BY <1>2, <1>3, <1>4, <1>5, <1>6, <1>7 DEF FreeInv

LEMMA UndoesKeeps == FreeInv /\ Undoes => FreeInv'
<1> SUFFICES ASSUME FreeInv, Undoes PROVE FreeInv'
    OBVIOUS
<1>1. /\ where \in Placements /\ before \in Placements /\ chained \in BOOLEAN
      /\ DOMAIN free \subseteq Things /\ last # {}
      /\ where' = before /\ before' = before /\ chained' = chained /\ last' = {}
      /\ FollowRenames(Backwards(last))
    BY DEF FreeInv, Undoes
<1>2. PICK batch \in Batches :
          /\ last = Report(before, batch) /\ where = After(before, batch)
          /\ ~chained => ~Chains(before, batch)
    BY <1>1 DEF FreeInv, LastIsAsItRan
<1>3. DOMAIN free' = DOMAIN free
    BY <1>1 DEF FollowRenames
<1>4. FollowsTheFile'
  <2> SUFFICES ASSUME ~chained PROVE \A t \in DOMAIN free' : free'[t] = where'[t]
      BY <1>1 DEF FollowsTheFile
  <2>1. \A t \in DOMAIN free : free[t] = where[t]
      BY DEF FreeInv, FollowsTheFile
  <2>2. \A t, u \in Things : After(before, batch)[t] = After(before, batch)[u] => t = u
      BY <1>1, <1>2, PlacementIs
  <2>3. ASSUME NEW t \in DOMAIN free
        PROVE  Followed(Backwards(last), where[t]) = before[t]
    <3>1. t \in Things
        BY <1>1
    <3>2. Followed(Backwards(Report(before, batch)), Carried(before, batch, t)) = before[t]
        BY <1>1, <1>2, <2>2, <3>1, UndoFollowed
    <3>3. where[t] = Carried(before, batch, t)
        BY <1>2, <3>1 DEF After
    <3> QED BY <1>2, <3>2, <3>3
  <2>4. \A t \in DOMAIN free : free'[t] = before[t]
      BY <1>1, <2>1, <2>3, FreeAfter
  <2> QED BY <1>1, <1>3, <2>4
<1>5. LastIsAsItRan'
    BY <1>1 DEF LastIsAsItRan
<1> QED BY <1>1, <1>3, <1>4, <1>5 DEF FreeInv

LEMMA CollectingKeeps ==
    /\ \A some \in SUBSET Things : FreeInv /\ Collects(some) => FreeInv'
    /\ \A some \in SUBSET DOMAIN free : FreeInv /\ Removes(some) => FreeInv'
<1>1. ASSUME NEW some \in SUBSET Things, FreeInv, Collects(some)
      PROVE  FreeInv'
  <2>1. UNCHANGED <<where, last, before, chained>> /\ DOMAIN free' = DOMAIN free \cup some
      BY <1>1 DEF Collects
  <2>2. LastIsAsItRan'
      BY <1>1, <2>1 DEF FreeInv, LastIsAsItRan
  <2>3. FollowsTheFile'
      BY <1>1, <2>1 DEF FreeInv, FollowsTheFile, Collects
  <2> QED BY <1>1, <2>1, <2>2, <2>3 DEF FreeInv
<1>2. ASSUME NEW some \in SUBSET DOMAIN free, FreeInv, Removes(some)
      PROVE  FreeInv'
  <2>1. UNCHANGED <<where, last, before, chained>> /\ DOMAIN free' = DOMAIN free \ some
      BY <1>2 DEF Removes
  <2>2. LastIsAsItRan'
      BY <1>2, <2>1 DEF FreeInv, LastIsAsItRan
  <2>3. FollowsTheFile'
      BY <1>2, <2>1 DEF FreeInv, FollowsTheFile, Removes
  <2> QED BY <1>2, <2>1, <2>2, <2>3 DEF FreeInv
<1> QED BY <1>1, <1>2

\* What every step of the Free Select set keeps, for any tree of things, any names
\* and any number of runs and undos.
THEOREM FreeInductive == FreeSpec => []FreeInv
<1>1. FreeInit => FreeInv
    BY FreeInitOk
<1>2. FreeInv /\ [FreeNext]_freeVars => FreeInv'
  <2> SUFFICES ASSUME FreeInv, [FreeNext]_freeVars PROVE FreeInv'
      OBVIOUS
  <2>1. CASE \E some \in SUBSET Things : Collects(some \ DOMAIN free)
    <3>1. PICK some \in SUBSET Things : Collects(some \ DOMAIN free)
        BY <2>1
    <3>2. some \ DOMAIN free \in SUBSET Things
        OBVIOUS
    <3> QED BY <3>1, <3>2, CollectingKeeps, Zenon
  <2>2. CASE \E some \in SUBSET DOMAIN free : Removes(some)
      BY <2>2, CollectingKeeps
  <2>3. CASE Runs
      BY <2>3, RunsKeeps
  <2>4. CASE Undoes
      BY <2>4, UndoesKeeps
  <2>5. CASE UNCHANGED freeVars
      BY <2>5 DEF freeVars, FreeInv, LastIsAsItRan, FollowsTheFile
  <2> QED BY <2>1, <2>2, <2>3, <2>4, <2>5 DEF FreeNext
<1> QED BY <1>1, <1>2, PTL DEF FreeSpec

\* Free Select keeps to the things that were collected, through runs and undos that
\* rename folders and what is in them at any depth (follow_renames, followed): the
\* passes, at most one for each component, end at the name the thing has.
THEOREM FollowsTheFileHolds == FreeSpec => []FollowsTheFile
<1>1. FreeInv => FollowsTheFile
    BY DEF FreeInv
<1> QED BY <1>1, FreeInductive, PTL
=============================================================================
