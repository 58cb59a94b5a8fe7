------------------------- MODULE PluginCallsProofs -------------------------
(***************************************************************************)
(* Proofs about PluginCalls for every set of calls and of tasks that share *)
(* their contexts, every interval and every range of progress values.      *)
(***************************************************************************)
EXTENDS PluginCalls, TLAPS

Trackers == [last : 1..MaxProgress \cup {None}, at : 0..MaxNow \cup {None}]

Reporters ==
  [at : {"idle", "send", "asking", "gone"}, progress : Progress \cup {None}]

LEMMA PluginConstants ==
  /\ Interval \in Nat /\ MaxProgress \in Nat /\ MaxNow \in Nat
  /\ None \notin Nat /\ None \notin Progress /\ None \notin 1..MaxProgress /\ None \notin 0..MaxNow
  /\ CallOf \in [Reporter -> Call]
  BY PluginAssumption

LEMMA ReporterType ==
  ASSUME TypeOK, NEW r \in Reporter
  PROVE  /\ CallOf[r] \in Call
         /\ reporter[r] \in Reporters
         /\ reporter[r].at = "send" => reporter[r].progress \in Progress
  BY PluginConstants DEF TypeOK, Reporters

LEMMA TypeInit == Init => TypeOK
<1> SUFFICES ASSUME Init PROVE TypeOK
  OBVIOUS
<1>1. now \in 0..MaxNow
  BY PluginConstants DEF Init
<1>2. [last |-> None, at |-> None] \in Trackers
  BY DEF Trackers
<1>3. [at |-> "idle", progress |-> None] \in Reporters
  BY DEF Reporters
<1>4. tracker \in [Call -> Trackers] /\ reporter \in [Reporter -> Reporters]
  BY <1>2, <1>3 DEF Init
<1>5. sent \in [Call -> Seq(Progress)] /\ call \in [Call -> {"idle", "running"} \cup Answer]
  BY DEF Init
<1> QED
  BY <1>1, <1>4, <1>5 DEF Init, TypeOK, Trackers, Reporters

(* What the steps do to the reporters. *)
LEMMA DroppedType ==
  ASSUME TypeOK, NEW c \in Call, reporter' = Dropped(c)
  PROVE  /\ reporter' \in [Reporter -> Reporters]
         /\ \A r \in Reporter :
              \/ reporter'[r] = reporter[r]
              \/ reporter'[r].at = "gone" /\ reporter'[r].progress = None
<1>1. [at |-> "gone", progress |-> None] \in Reporters
  BY DEF Reporters
<1>2. \A r \in Reporter : reporter'[r] \in Reporters
  BY <1>1, ReporterType DEF Dropped
<1>3. reporter' \in [Reporter -> Reporters]
  BY <1>2 DEF Dropped
<1> QED
  BY <1>3 DEF Dropped

LEMMA AdmitType ==
  ASSUME TypeOK, NEW r \in Reporter, NEW p \in 1..MaxProgress, AdmitProgress(r, p)
  PROVE  /\ tracker' \in [Call -> Trackers]
         /\ tracker'[CallOf[r]].last = p /\ tracker'[CallOf[r]].at = now
         /\ \A d \in Call \ {CallOf[r]} : tracker'[d] = tracker[d]
         /\ reporter' \in [Reporter -> Reporters]
         /\ reporter'[r].at = "send"
         /\ reporter'[r].progress = [value |-> p, admitted |-> now]
         /\ \A s \in Reporter \ {r} : reporter'[s] = reporter[s]
<1> DEFINE c == CallOf[r]
           progress == [value |-> p, admitted |-> now]
<1>1. c \in Call /\ tracker \in [Call -> Trackers] /\ reporter \in [Reporter -> Reporters]
  BY PluginConstants DEF TypeOK, Trackers, Reporters
<1>2. progress \in Progress
  BY DEF TypeOK, Progress
<1>3. Recorded(tracker[c], p) \in Trackers
  BY DEF TypeOK, Recorded, Trackers
<1>4. tracker' = [tracker EXCEPT ![c] = Recorded(tracker[c], p)]
  BY DEF AdmitProgress
<1>5. reporter' = [reporter EXCEPT ![r].at = "send", ![r].progress = progress]
  BY DEF AdmitProgress
<1>6. Recorded(tracker[c], p).last = p /\ Recorded(tracker[c], p).at = now
  BY DEF Recorded
<1>7. /\ tracker' \in [Call -> Trackers]
      /\ tracker'[c].last = p /\ tracker'[c].at = now
      /\ \A d \in Call \ {c} : tracker'[d] = tracker[d]
  BY <1>1, <1>3, <1>4, <1>6
<1> HIDE DEF progress
<1>8. /\ reporter' \in [Reporter -> Reporters]
      /\ reporter'[r].at = "send" /\ reporter'[r].progress = progress
      /\ \A s \in Reporter \ {r} : reporter'[s] = reporter[s]
  BY <1>1, <1>2, <1>5 DEF Reporters
<1> QED
  BY <1>7, <1>8 DEF progress

LEMMA SendType ==
  ASSUME TypeOK, NEW r \in Reporter, SendProgress(r)
  PROVE  /\ reporter' \in [Reporter -> Reporters]
         /\ reporter'[r].at = "idle" /\ reporter'[r].progress = None
         /\ \A s \in Reporter \ {r} : reporter'[s] = reporter[s]
         /\ reporter[r].at = "send" /\ reporter[r].progress \in Progress
         /\ sent' \in [Call -> Seq(Progress)]
         /\ \/ sent' = sent
            \/ /\ sent'[CallOf[r]] = Append(sent[CallOf[r]], reporter[r].progress)
               /\ \A d \in Call \ {CallOf[r]} : sent'[d] = sent[d]
<1> DEFINE idle == [at |-> "idle", progress |-> None]
<1>1. idle \in Reporters /\ idle.at = "idle" /\ idle.progress = None
  BY DEF Reporters
<1>2. reporter \in [Reporter -> Reporters] /\ CallOf[r] \in Call
      /\ sent \in [Call -> Seq(Progress)]
  BY PluginConstants DEF TypeOK, Reporters
<1>3. reporter' = [reporter EXCEPT ![r] = idle]
  BY DEF SendProgress
<1>4. reporter[r].at = "send" /\ reporter[r].progress \in Progress
  BY ReporterType DEF SendProgress
<1> HIDE DEF idle
<1>5. /\ reporter' \in [Reporter -> Reporters]
      /\ reporter'[r].at = "idle" /\ reporter'[r].progress = None
      /\ \A s \in Reporter \ {r} : reporter'[s] = reporter[s]
  BY <1>1, <1>2, <1>3
<1>6. CASE sent' = sent
  BY <1>2, <1>4, <1>5, <1>6
<1>7. CASE sent' = [sent EXCEPT ![CallOf[r]] = Append(@, reporter[r].progress)]
  <2>1. Append(sent[CallOf[r]], reporter[r].progress) \in Seq(Progress)
    BY <1>2, <1>4
  <2> QED
    BY <1>2, <1>4, <1>5, <1>7, <2>1
<1> QED
  BY <1>6, <1>7 DEF SendProgress

LEMMA ClientType ==
  ASSUME TypeOK, NEW r \in Reporter, AskClient(r) \/ ClientAnswers(r)
  PROVE  /\ reporter' \in [Reporter -> Reporters]
         /\ reporter[r].at # "send" /\ reporter'[r].at # "send"
         /\ reporter'[r].progress = reporter[r].progress
         /\ \A s \in Reporter \ {r} : reporter'[s] = reporter[s]
<1>1. reporter \in [Reporter -> Reporters]
  BY DEF TypeOK, Reporters
<1> QED
  BY <1>1 DEF AskClient, ClientAnswers, Reporters

LEMMA TypeStep ==
  ASSUME TypeOK, [Next]_vars
  PROVE  TypeOK'
<1> USE PluginConstants
<1>0. /\ call \in [Call -> {"idle", "running"} \cup Answer]
      /\ reporter \in [Reporter -> Reporters] /\ tracker \in [Call -> Trackers]
      /\ now \in 0..MaxNow
      /\ \A s \in Reporter : reporter[s].at = "send" <=> reporter[s].progress # None
      /\ \A d \in Call : tracker[d].last = None <=> tracker[d].at = None
  BY DEF TypeOK, Reporters, Trackers
<1>1. CASE Tick
  <2>1. now' \in 0..MaxNow
    BY <1>1 DEF Tick, TypeOK
  <2> QED
    BY <1>1, <2>1 DEF Tick, TypeOK
<1>2. ASSUME NEW c \in Call, StartCall(c) \/ CancelRequest(c)
      PROVE  TypeOK'
  BY <1>0, <1>2 DEF StartCall, CancelRequest, TypeOK
<1>3. ASSUME NEW c \in Call, NEW a \in {"result", "toolError", "cancelled"}, AnswerCall(c, a)
      PROVE  TypeOK'
  <2>1. call' \in [Call -> {"idle", "running"} \cup Answer]
    BY <1>0, <1>3 DEF AnswerCall, Limited, Answer
  <2>2. /\ reporter' \in [Reporter -> Reporters]
        /\ \A r \in Reporter : reporter'[r].at = "send" <=> reporter'[r].progress # None
    BY <1>3, DroppedType DEF AnswerCall, TypeOK
  <2> QED
    BY <1>3, <2>1, <2>2 DEF AnswerCall, TypeOK, Reporters
<1>4. ASSUME NEW r \in Reporter, NEW p \in 1..MaxProgress, AdmitProgress(r, p)
      PROVE  TypeOK'
  <2>1. [value |-> p, admitted |-> now] \in Progress
    BY DEF TypeOK, Progress
  <2>2. None \notin Progress
    OBVIOUS
  <2>3. \A s \in Reporter : reporter'[s].at = "send" <=> reporter'[s].progress # None
    <3>1. reporter'[r].at = "send" /\ reporter'[r].progress # None
      BY <1>4, <2>1, <2>2, AdmitType
    <3>2. \A s \in Reporter \ {r} : reporter'[s] = reporter[s]
      BY <1>4, AdmitType
    <3> QED
      BY <1>0, <3>1, <3>2
  <2>4. \A d \in Call : tracker'[d].last = None <=> tracker'[d].at = None
    <3>1. tracker'[CallOf[r]].last # None /\ tracker'[CallOf[r]].at # None
      BY <1>0, <1>4, AdmitType
    <3>2. \A d \in Call \ {CallOf[r]} : tracker'[d] = tracker[d]
      BY <1>4, AdmitType
    <3> QED
      BY <1>0, <3>1, <3>2
  <2> QED
    BY <1>4, <2>3, <2>4, AdmitType DEF AdmitProgress, TypeOK, Reporters, Trackers
<1>5. ASSUME NEW r \in Reporter, SendProgress(r)
      PROVE  TypeOK'
  <2>1. \A s \in Reporter : reporter'[s].at = "send" <=> reporter'[s].progress # None
    <3>1. reporter'[r].at = "idle" /\ reporter'[r].progress = None
      BY <1>5, SendType
    <3>2. \A s \in Reporter \ {r} : reporter'[s] = reporter[s]
      BY <1>5, SendType
    <3> QED
      BY <1>0, <3>1, <3>2
  <2> QED
    BY <1>5, <2>1, SendType DEF SendProgress, TypeOK, Reporters
<1>6. ASSUME NEW r \in Reporter, AskClient(r) \/ ClientAnswers(r)
      PROVE  TypeOK'
  <2>1. \A s \in Reporter : reporter'[s].at = "send" <=> reporter'[s].progress # None
    BY <1>6, ClientType DEF TypeOK
  <2> QED
    BY <1>6, <2>1, ClientType DEF AskClient, ClientAnswers, TypeOK, Reporters
<1>7. CASE UNCHANGED vars
  BY <1>7 DEF vars, TypeOK
<1> QED
  BY <1>1, <1>2, <1>3, <1>4, <1>5, <1>6, <1>7
  DEF Next, PluginReturns, PluginPanics, ObserveCancel

(* Every variable keeps its type, a tracker has a time with its value, and *)
(* a reporter has progress exactly while it sends.                         *)
THEOREM TypeCorrect == Spec => []TypeOK
  BY TypeInit, TypeStep, PTL DEF Spec
-----------------------------------------------------------------------------
(* The order of admission.  What is on the wire and what a reporter is     *)
(* about to send are kept apart by an interval, and the tracker is ahead   *)
(* of all of them, so that the next progress it admits is far from each.   *)
Spaced(a, b) ==
  /\ a.value # b.value
  /\ a.value < b.value => a.admitted <= b.admitted /\ b.admitted - a.admitted >= Interval

Apart(a, b) == Spaced(a, b) /\ Spaced(b, a)

Behind(a, t) ==
  t.last # None /\ t.at # None /\ a.value <= t.last /\ a.admitted <= t.at

Sends(r, c) == CallOf[r] = c /\ reporter[r].at = "send"

AdmittedApart ==
  \A c \in Call :
    /\ tracker[c].at # None => tracker[c].at <= now
    /\ \A i, j \in DOMAIN sent[c] : i # j => Apart(sent[c][i], sent[c][j])
    /\ \A i \in DOMAIN sent[c] : Behind(sent[c][i], tracker[c])
    /\ \A r \in Reporter : Sends(r, c) =>
         /\ Behind(reporter[r].progress, tracker[c])
         /\ \A i \in DOMAIN sent[c] : Apart(sent[c][i], reporter[r].progress)
         /\ \A s \in Reporter \ {r} :
              Sends(s, c) => Apart(reporter[r].progress, reporter[s].progress)

LEMMA ApartImplies ==
  ASSUME AdmittedApart
  PROVE  ProgressSpaced
  BY DEF AdmittedApart, ProgressSpaced, Apart, Spaced

(* What the tracker admits next is apart from all that is behind it.       *)
LEMMA AdmittedNext ==
  ASSUME NEW t \in Trackers, NEW a \in Progress, NEW p \in 1..MaxProgress,
         now \in 0..MaxNow, t.at # None => t.at <= now,
         Behind(a, t), ~Throttled(t), Increases(t, p)
  PROVE  /\ Apart(a, [value |-> p, admitted |-> now])
         /\ Behind(a, [last |-> p, at |-> now])
<1>1. /\ t.last \in 1..MaxProgress /\ t.at \in 0..MaxNow /\ t.at <= now
      /\ p > t.last /\ ~(now - t.at < Interval)
  BY PluginConstants DEF Trackers, Behind, Throttled, Increases
<1>2. a.value \in Nat /\ a.admitted \in Nat /\ a.value <= t.last /\ a.admitted <= t.at
  BY PluginConstants DEF Progress, Behind
<1>3. p \in Nat /\ now \in Nat /\ t.last \in Nat /\ t.at \in Nat /\ p # None /\ now # None
  BY <1>1, PluginConstants
<1>4. a.value < p /\ a.admitted <= now /\ now - a.admitted >= Interval
  BY <1>1, <1>2, <1>3, PluginConstants
<1> QED
  BY <1>2, <1>3, <1>4 DEF Apart, Spaced, Behind

(* Reporters that no longer send disturb nothing.                          *)
LEMMA ApartKept ==
  ASSUME AdmittedApart, sent' = sent, tracker' = tracker,
         \A c \in Call : tracker[c].at # None => tracker[c].at <= now',
         \A r \in Reporter : reporter'[r].at = "send" =>
           reporter[r].at = "send" /\ reporter'[r].progress = reporter[r].progress
  PROVE  AdmittedApart'
  BY DEF AdmittedApart, Sends

LEMMA ApartStep ==
  ASSUME TypeOK, AdmittedApart, [Next]_vars
  PROVE  AdmittedApart'
<1> USE PluginConstants
<1>0. /\ reporter \in [Reporter -> Reporters] /\ tracker \in [Call -> Trackers]
      /\ now \in 0..MaxNow /\ sent \in [Call -> Seq(Progress)]
      /\ \A c \in Call : tracker[c].at # None => tracker[c].at <= now
  BY DEF TypeOK, Reporters, Trackers, AdmittedApart
<1>1. CASE Tick
  <2>1. \A c \in Call : tracker[c].at # None => tracker[c].at <= now'
    BY <1>0, <1>1 DEF Tick, Trackers
  <2> QED
    BY <1>1, <2>1, ApartKept DEF Tick
<1>2. ASSUME NEW c \in Call, StartCall(c) \/ CancelRequest(c)
      PROVE  AdmittedApart'
  BY <1>0, <1>2, ApartKept DEF StartCall, CancelRequest
<1>3. ASSUME NEW c \in Call, NEW a, AnswerCall(c, a)
      PROVE  AdmittedApart'
  BY <1>0, <1>3, DroppedType, ApartKept DEF AnswerCall
<1>4. ASSUME NEW r \in Reporter, NEW p \in 1..MaxProgress, AdmitProgress(r, p)
      PROVE  AdmittedApart'
  <2> DEFINE c == CallOf[r]
             new == [value |-> p, admitted |-> now]
  <2>1. /\ c \in Call /\ ~Throttled(tracker[c]) /\ Increases(tracker[c], p)
        /\ sent' = sent /\ now' = now
    BY <1>4 DEF AdmitProgress
  <2>2. /\ \A d \in Call \ {c} : tracker'[d] = tracker[d]
        /\ \A s \in Reporter \ {r} : reporter'[s] = reporter[s]
        /\ reporter'[r].progress = new
        /\ tracker'[c].last = p /\ tracker'[c].at = now
    BY <1>4, AdmitType
  <2>3. \A a \in Progress : Behind(a, tracker[c]) => Apart(a, new) /\ Behind(a, tracker'[c])
    BY <1>0, <2>1, <2>2, AdmittedNext DEF Behind
  <2>4. Behind(new, tracker'[c])
    BY <1>0, <2>2 DEF Behind
  <2>5. \A i \in DOMAIN sent[c] : sent[c][i] \in Progress /\ Behind(sent[c][i], tracker[c])
    BY <1>0, <2>1 DEF AdmittedApart
  <2>6. \A s \in Reporter : Sends(s, c) =>
          reporter[s].progress \in Progress /\ Behind(reporter[s].progress, tracker[c])
    BY <2>1, ReporterType DEF AdmittedApart, Sends
  <2>7. \A a \in Progress : Apart(a, new) => Apart(new, a)
    BY DEF Apart
  <2> HIDE DEF c, new
  <2>8. \A d \in Call \ {c} :
          /\ tracker'[d] = tracker[d] /\ sent'[d] = sent[d]
          /\ \A s \in Reporter : Sends(s, d)' => s # r /\ Sends(s, d)
    BY <2>1, <2>2 DEF Sends, c
  <2>9. \A s \in Reporter \ {r} : Sends(s, c)' => Sends(s, c)
    BY <2>2 DEF Sends
  <2>10. ASSUME NEW d \in Call
         PROVE  /\ tracker'[d].at # None => tracker'[d].at <= now'
                /\ \A i, j \in DOMAIN sent'[d] : i # j => Apart(sent'[d][i], sent'[d][j])
                /\ \A i \in DOMAIN sent'[d] : Behind(sent'[d][i], tracker'[d])
    <3>1. CASE d = c
      BY <1>0, <2>1, <2>2, <2>3, <2>5, <3>1 DEF AdmittedApart
    <3>2. CASE d # c
      BY <1>0, <2>1, <2>8, <3>2 DEF AdmittedApart
    <3> QED
      BY <3>1, <3>2
  <2>11. ASSUME NEW d \in Call, NEW s \in Reporter, Sends(s, d)'
         PROVE  /\ Behind(reporter'[s].progress, tracker'[d])
                /\ \A i \in DOMAIN sent'[d] : Apart(sent'[d][i], reporter'[s].progress)
                /\ \A q \in Reporter \ {s} :
                     Sends(q, d)' => Apart(reporter'[s].progress, reporter'[q].progress)
    <3>1. CASE d # c
      BY <2>1, <2>2, <2>8, <2>11, <3>1 DEF AdmittedApart
    <3>2. CASE d = c /\ s = r
      BY <2>1, <2>2, <2>3, <2>4, <2>5, <2>6, <2>7, <2>9, <3>2
    <3>3. CASE d = c /\ s # r
      <4>1. Sends(s, c)
        BY <2>9, <2>11, <3>3
      <4>2. Behind(reporter'[s].progress, tracker'[c])
        BY <2>2, <2>3, <2>6, <3>3, <4>1
      <4>3. \A i \in DOMAIN sent'[c] : Apart(sent'[c][i], reporter'[s].progress)
        BY <2>1, <2>2, <3>3, <4>1 DEF AdmittedApart
      <4>4. ASSUME NEW q \in Reporter \ {s}, Sends(q, c)'
            PROVE  Apart(reporter'[s].progress, reporter'[q].progress)
        <5>1. CASE q = r
          BY <2>2, <2>3, <2>6, <3>3, <4>1, <5>1
        <5>2. CASE q # r
          BY <2>1, <2>2, <2>9, <3>3, <4>1, <4>4, <5>2 DEF AdmittedApart
        <5> QED
          BY <5>1, <5>2
      <4> QED
        BY <3>3, <4>2, <4>3, <4>4
    <3> QED
      BY <3>1, <3>2, <3>3
  <2> QED
    BY <2>10, <2>11 DEF AdmittedApart
<1>5. ASSUME NEW r \in Reporter, SendProgress(r)
      PROVE  AdmittedApart'
  <2> DEFINE c == CallOf[r]
             a == reporter[r].progress
  <2>1. /\ Sends(r, c) /\ c \in Call /\ a \in Progress
        /\ reporter'[r].at # "send"
        /\ \A s \in Reporter \ {r} : reporter'[s] = reporter[s]
        /\ tracker' = tracker /\ now' = now
    BY <1>5, SendType DEF Sends, SendProgress
  <2>2. CASE sent' = sent
    BY <1>0, <2>1, <2>2, ApartKept
  <2>3. CASE /\ sent'[c] = Append(sent[c], a)
             /\ \A d \in Call \ {c} : sent'[d] = sent[d]
    <3> DEFINE n == Len(sent[c]) + 1
    <3>1. /\ sent[c] \in Seq(Progress)
          /\ DOMAIN sent'[c] = DOMAIN sent[c] \cup {n} /\ n \notin DOMAIN sent[c]
          /\ sent'[c][n] = a /\ \A i \in DOMAIN sent[c] : sent'[c][i] = sent[c][i]
      BY <1>0, <2>1, <2>3
    <3>2. \A s \in Reporter, d \in Call : Sends(s, d)' => s # r /\ Sends(s, d)
      BY <2>1 DEF Sends
    <3>3. \A i \in DOMAIN sent[c] : Apart(sent[c][i], a) /\ Apart(a, sent[c][i])
      BY <2>1 DEF AdmittedApart, Apart
    <3> HIDE DEF n, c, a
    <3>4. ASSUME NEW d \in Call
          PROVE  /\ \A i, j \in DOMAIN sent'[d] : i # j => Apart(sent'[d][i], sent'[d][j])
                 /\ \A i \in DOMAIN sent'[d] : Behind(sent'[d][i], tracker[d])
      <4>1. CASE d = c
        <5>1. Behind(a, tracker[c])
          BY <2>1 DEF AdmittedApart, a
        <5> QED
          BY <2>1, <3>1, <3>3, <4>1, <5>1 DEF AdmittedApart
      <4>2. CASE d # c
        BY <2>3, <4>2 DEF AdmittedApart
      <4> QED
        BY <4>1, <4>2
    <3>5. ASSUME NEW d \in Call, NEW s \in Reporter, Sends(s, d)'
          PROVE  /\ Behind(reporter'[s].progress, tracker[d])
                 /\ \A i \in DOMAIN sent'[d] : Apart(sent'[d][i], reporter'[s].progress)
                 /\ \A q \in Reporter \ {s} :
                      Sends(q, d)' => Apart(reporter'[s].progress, reporter'[q].progress)
      <4>1. s # r /\ Sends(s, d) /\ reporter'[s] = reporter[s]
        BY <2>1, <3>2, <3>5
      <4>2. /\ Behind(reporter[s].progress, tracker[d])
            /\ \A i \in DOMAIN sent[d] : Apart(sent[d][i], reporter[s].progress)
            /\ \A q \in Reporter \ {s} :
                 Sends(q, d) => Apart(reporter[s].progress, reporter[q].progress)
        BY <4>1 DEF AdmittedApart
      <4>3. d = c => Apart(a, reporter[s].progress)
        BY <2>1, <4>1, <4>2 DEF AdmittedApart, a, Apart
      <4>4. \A i \in DOMAIN sent'[d] : Apart(sent'[d][i], reporter[s].progress)
        BY <2>3, <3>1, <4>2, <4>3
      <4> QED
        BY <2>1, <3>2, <4>1, <4>2, <4>4
    <3> QED
      BY <1>0, <2>1, <3>4, <3>5 DEF AdmittedApart
  <2> QED
    BY <1>5, <2>2, <2>3, SendType
<1>6. ASSUME NEW r \in Reporter, AskClient(r) \/ ClientAnswers(r)
      PROVE  AdmittedApart'
  BY <1>0, <1>6, ClientType, ApartKept DEF AskClient, ClientAnswers
<1>7. CASE UNCHANGED vars
  BY <1>0, <1>7, ApartKept DEF vars
<1> QED
  BY <1>1, <1>2, <1>3, <1>4, <1>5, <1>6, <1>7
  DEF Next, PluginReturns, PluginPanics, ObserveCancel

(* Whatever tasks share the context of a call, its notifications carry     *)
(* different values, the larger one was admitted later, and an interval    *)
(* lies between their admissions (PluginCalls!ProgressSpaced).             *)
THEOREM ProgressIsSpaced == Spec => []ProgressSpaced
<1> DEFINE Inv == TypeOK /\ AdmittedApart
<1>1. Init => Inv
  <2> SUFFICES ASSUME Init PROVE AdmittedApart
    BY TypeInit
  <2>1. \A c \in Call : tracker[c].at = None /\ sent[c] = << >>
    BY DEF Init
  <2>3. DOMAIN << >> = {}
    OBVIOUS
  <2>4. \A c \in Call : DOMAIN sent[c] = {}
    BY <2>1, <2>3
  <2>2. \A r \in Reporter : reporter[r].at = "idle"
    BY DEF Init
  <2> QED
    BY <2>1, <2>2, <2>4 DEF AdmittedApart, Sends
<1>2. Inv /\ [Next]_vars => Inv'
  BY TypeStep, ApartStep
<1>3. Inv => ProgressSpaced
  BY ApartImplies
<1> QED
  BY <1>1, <1>2, <1>3, PTL DEF Spec
=============================================================================
