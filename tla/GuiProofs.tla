------------------------------- MODULE GuiProofs -------------------------------
(* Theorems about Gui, for every number of disks and numbers, every plugging  *)
(* and every bound.                                                           *)
EXTENDS Gui, WellFoundedInduction, TLAPS

-----------------------------------------------------------------------------
(* Sequences of dialogs and of messages.                                     *)

LEMMA NoticeAsksNothing ==
  ASSUME NEW S \in SUBSET Reasons
  PROVE  Notice(S) \in Dialog /\ ~Asks(Notice(S))
BY DEF Notice, Dialog, Asks

LEMMA Pushed ==
  ASSUME NEW S, NEW s \in Seq(S), NEW d \in S, NEW t, t = <<d>> \o s
  PROVE  /\ t \in Seq(S) /\ t # <<>> /\ 1 \in DOMAIN t /\ t[1] = d
         /\ \A i \in DOMAIN t : i = 1 \/ (i - 1 \in DOMAIN s /\ t[i] = s[i - 1])
         /\ \A i \in DOMAIN s : i + 1 \in DOMAIN t /\ t[i + 1] = s[i]
OBVIOUS

LEMMA Popped ==
  ASSUME NEW S, NEW s \in Seq(S), s # <<>>, NEW t, t = Tail(s)
  PROVE  /\ t \in Seq(S) /\ 1 \in DOMAIN s /\ Head(s) = s[1] /\ Head(s) \in S
         /\ \A i \in DOMAIN t : i + 1 \in DOMAIN s /\ i + 1 # 1 /\ t[i] = s[i + 1]
         /\ \A i \in DOMAIN s : i = 1 \/ (i - 1 \in DOMAIN t /\ t[i - 1] = s[i])
<1>1. /\ Len(s) \in Nat \ {0} /\ DOMAIN s = 1..Len(s)
      /\ t \in Seq(S) /\ Len(t) = Len(s) - 1 /\ DOMAIN t = 1..(Len(s) - 1)
      /\ \A i \in 1..(Len(s) - 1) : t[i] = s[i + 1]
      /\ Head(s) = s[1] /\ Head(s) \in S
  OBVIOUS
<1>2. \A i \in DOMAIN s : i = 1 \/ (i - 1 \in DOMAIN t /\ t[i - 1] = s[i])
  <2> TAKE i \in DOMAIN s
  <2> SUFFICES ASSUME i # 1 PROVE i - 1 \in DOMAIN t /\ t[i - 1] = s[i]
    OBVIOUS
  <2>1. i - 1 \in 1..(Len(s) - 1) /\ (i - 1) + 1 = i
    BY <1>1
  <2> QED
    BY <1>1, <2>1
<1> QED
  BY <1>1, <1>2

\* At most one of the dialogs s asks.
OneAsks(s) == \A i, j \in DOMAIN s : Asks(s[i]) /\ Asks(s[j]) => i = j

\* Every question of t is one of s.
AsksLess(t, s) == \A i \in DOMAIN t : Asks(t[i]) => \E j \in DOMAIN s : s[j] = t[i]

LEMMA PushNotice ==
  ASSUME NEW s \in Seq(Dialog), OneAsks(s), NEW d \in Dialog, ~Asks(d), NEW t, t = <<d>> \o s
  PROVE  t \in Seq(Dialog) /\ OneAsks(t) /\ AsksLess(t, s) /\ AsksLess(s, t)
<1>1. /\ t \in Seq(Dialog)
      /\ 1 \in DOMAIN t /\ t[1] = d
      /\ \A i \in DOMAIN t : i = 1 \/ (i - 1 \in DOMAIN s /\ t[i] = s[i - 1])
      /\ \A i \in DOMAIN s : i + 1 \in DOMAIN t /\ t[i + 1] = s[i]
  BY Pushed
<1>2. DOMAIN t \subseteq Nat
  BY <1>1
<1>3. OneAsks(t)
  <2> SUFFICES ASSUME NEW i \in DOMAIN t, NEW j \in DOMAIN t, Asks(t[i]), Asks(t[j])
              PROVE  i = j
    BY DEF OneAsks
  <2>1. i - 1 \in DOMAIN s /\ j - 1 \in DOMAIN s /\ t[i] = s[i - 1] /\ t[j] = s[j - 1]
    BY <1>1
  <2>2. i - 1 = j - 1
    BY <2>1 DEF OneAsks
  <2> QED
    BY <1>2, <2>2
<1>4. AsksLess(t, s) /\ AsksLess(s, t)
  BY <1>1 DEF AsksLess
<1> QED
  BY <1>1, <1>3, <1>4

LEMMA PopDialog ==
  ASSUME NEW s \in Seq(Dialog), OneAsks(s), s # <<>>, NEW t, t = Tail(s)
  PROVE  /\ t \in Seq(Dialog) /\ OneAsks(t) /\ AsksLess(t, s) /\ Head(s) \in Dialog
         /\ Asks(Head(s)) => \A i \in DOMAIN t : ~Asks(t[i])
         /\ ~Asks(Head(s)) => AsksLess(s, t)
         /\ 1 \in DOMAIN s /\ s[1] = Head(s)
<1>1. /\ t \in Seq(Dialog) /\ 1 \in DOMAIN s /\ Head(s) = s[1] /\ Head(s) \in Dialog
      /\ \A i \in DOMAIN t : i + 1 \in DOMAIN s /\ i + 1 # 1 /\ t[i] = s[i + 1]
      /\ \A i \in DOMAIN s : i = 1 \/ (i - 1 \in DOMAIN t /\ t[i - 1] = s[i])
  BY Popped
<1>2. DOMAIN t \subseteq Nat
  BY <1>1
<1>3. OneAsks(t) /\ AsksLess(t, s)
  BY <1>1, <1>2 DEF OneAsks, AsksLess
<1>4. Asks(Head(s)) => \A i \in DOMAIN t : ~Asks(t[i])
  BY <1>1, <1>2 DEF OneAsks
<1>5. ~Asks(Head(s)) => AsksLess(s, t)
  BY <1>1 DEF AsksLess
<1> QED
  BY <1>1, <1>3, <1>4, <1>5

LEMMA AsksLessIsTransitive ==
  ASSUME NEW r, NEW s, NEW t, AsksLess(r, s), AsksLess(s, t)
  PROVE  AsksLess(r, t)
BY DEF AsksLess

\* No dialog of s asks.
NoneAsks(s) == \A i \in DOMAIN s : ~Asks(s[i])

\* The innermost dialog of t is d, and no other asks.
FirstAsks(t, d) ==
    /\ 1 \in DOMAIN t /\ t[1] = d
    /\ \A i \in DOMAIN t : Asks(t[i]) => t[i] = d

LEMMA PushQuestion ==
  ASSUME NEW s \in Seq(Dialog), NEW d \in Dialog, NEW t, t = <<d>> \o s,
         NoneAsks(s)
  PROVE  t \in Seq(Dialog) /\ OneAsks(t) /\ FirstAsks(t, d)
<1>1. /\ t \in Seq(Dialog)
      /\ 1 \in DOMAIN t /\ t[1] = d
      /\ \A i \in DOMAIN t : i = 1 \/ (i - 1 \in DOMAIN s /\ t[i] = s[i - 1])
  BY Pushed
<1> QED
  BY <1>1 DEF OneAsks, NoneAsks, FirstAsks

LEMMA Appended ==
  ASSUME NEW s \in Seq(Workers), NEW w \in Workers, NEW t, t = Append(s, w),
         \A i \in DOMAIN s : s[i] # w, \A i, j \in DOMAIN s : s[i] = s[j] => i = j
  PROVE  /\ t \in Seq(Workers)
         /\ \A i, j \in DOMAIN t : t[i] = t[j] => i = j
         /\ Messages(t) = Messages(s) \cup {w}
<1>1. /\ t \in Seq(Workers) /\ Len(t) = Len(s) + 1 /\ Len(s) \in Nat
      /\ DOMAIN s = 1..Len(s) /\ DOMAIN t = 1..(Len(s) + 1)
      /\ \A i \in 1..Len(s) : t[i] = s[i]
      /\ t[Len(s) + 1] = w
  OBVIOUS
<1>2. \A i \in DOMAIN t : (i \in DOMAIN s /\ t[i] = s[i]) \/ (i = Len(s) + 1 /\ t[i] = w)
  BY <1>1
<1>3. \A i \in DOMAIN s : i \in DOMAIN t
  BY <1>1
<1>4. Len(s) + 1 \in DOMAIN t
  BY <1>1
<1> QED
  BY <1>1, <1>2, <1>3, <1>4 DEF Messages

LEMMA Taken ==
  ASSUME NEW s \in Seq(Workers), s # <<>>, NEW w, Head(s) = w, NEW t, t = Tail(s),
         \A i, j \in DOMAIN s : s[i] = s[j] => i = j
  PROVE  /\ t \in Seq(Workers)
         /\ \A i, j \in DOMAIN t : t[i] = t[j] => i = j
         /\ Messages(t) = Messages(s) \ {w}
         /\ w \in Messages(s)
<1>1. /\ t \in Seq(Workers) /\ 1 \in DOMAIN s /\ w = s[1] /\ DOMAIN t \subseteq Nat
      /\ \A i \in DOMAIN t : i + 1 \in DOMAIN s /\ i + 1 # 1 /\ t[i] = s[i + 1]
      /\ \A i \in DOMAIN s : i = 1 \/ (i - 1 \in DOMAIN t /\ t[i - 1] = s[i])
  BY Popped
<1>2. \A i, j \in DOMAIN t : t[i] = t[j] => i = j
  <2> SUFFICES ASSUME NEW i \in DOMAIN t, NEW j \in DOMAIN t, t[i] = t[j] PROVE i = j
    OBVIOUS
  <2>1. i + 1 = j + 1
    BY <1>1
  <2> QED
    BY <1>1, <2>1
<1>3. \A i \in DOMAIN t : t[i] # w
  BY <1>1
<1>4. \A i \in DOMAIN s : s[i] # w => \E j \in DOMAIN t : t[j] = s[i]
  BY <1>1
<1>5. \A i \in DOMAIN t : \E j \in DOMAIN s : s[j] = t[i]
  BY <1>1
<1> QED
  BY <1>1, <1>2, <1>3, <1>4, <1>5 DEF Messages

-----------------------------------------------------------------------------
(* Parts of the invariant a step disturbs in one of a few ways.              *)

\* A worker ends and posts its message, or fails to.
LEMMA EndedWork ==
  ASSUME TypeOK, WorkInv, NEW w \in Workers, worker[w] # "idle",
         worker' = [worker EXCEPT ![w] = "idle"], Post(w), UNCHANGED busy_flags
  PROVE  /\ WorkInv' /\ queue' \in Seq(Workers) /\ Waiting' \subseteq Waiting \cup {w}
         /\ worker' \in [Workers -> {"idle", "running", "acting"}]
<1>1. /\ worker \in [Workers -> {"idle", "running", "acting"}] /\ queue \in Seq(Workers)
      /\ worker' \in [Workers -> {"idle", "running", "acting"}]
      /\ worker'[w] = "idle" /\ \A v \in Workers \ {w} : worker'[v] = worker[v]
  BY DEF TypeOK
<1>2. \A v \in Workers : Begun(v)' <=> Begun(v)
  BY DEF Begun, busy_flags
<1>3. w \notin Waiting /\ Begun(w) /\ \A i, j \in DOMAIN queue : queue[i] = queue[j] => i = j
  BY DEF WorkInv, InHand
<1>4. CASE queue' = Append(queue, w) /\ UNCHANGED lost
  <2>1. \A i \in DOMAIN queue : queue[i] # w
    BY <1>3 DEF Waiting, Messages
  <2>2. /\ queue' \in Seq(Workers)
        /\ \A i, j \in DOMAIN queue' : queue'[i] = queue'[j] => i = j
        /\ Waiting' = Waiting \cup {w}
    BY <1>1, <1>3, <1>4, <2>1, Appended DEF Waiting
  <2>3. \A v \in Workers : InHand(v)'
    BY <1>1, <1>2, <1>3, <1>4, <2>2 DEF WorkInv, InHand
  <2> QED
    BY <1>1, <1>4, <2>2, <2>3 DEF WorkInv
<1>5. CASE lost' = lost + 1 /\ UNCHANGED queue
  <2>1. lost' # 0 /\ lost' \in Nat /\ Waiting' = Waiting
    BY <1>5 DEF WorkInv, Waiting
  <2>2. \A v \in Workers : InHand(v)'
    BY <1>1, <1>2, <1>3, <1>5, <2>1 DEF WorkInv, InHand
  <2> QED
    BY <1>1, <1>5, <2>1, <2>2 DEF WorkInv
<1> QED
  BY <1>4, <1>5 DEF Post

\* The window receives a worker's message and clears its flag.
LEMMA ReceivedWork ==
  ASSUME TypeOK, WorkInv, NEW w \in Workers, Received(w), ~Begun(w)',
         \A v \in Workers \ {w} : Begun(v)' <=> Begun(v), UNCHANGED <<worker, lost>>
  PROVE  /\ WorkInv' /\ queue' \in Seq(Workers) /\ Waiting' = Waiting \ {w} /\ w \in Waiting
         /\ Begun(w) /\ worker[w] = "idle"
<1>1. /\ queue \in Seq(Workers) /\ queue # <<>> /\ Head(queue) = w /\ queue' = Tail(queue)
      /\ \A i, j \in DOMAIN queue : queue[i] = queue[j] => i = j
  BY DEF TypeOK, Received, WorkInv
<1>2. /\ queue' \in Seq(Workers)
      /\ \A i, j \in DOMAIN queue' : queue'[i] = queue'[j] => i = j
      /\ Waiting' = Waiting \ {w} /\ w \in Waiting
  BY <1>1, Taken DEF Waiting
<1>3. Begun(w) /\ worker[w] = "idle"
  BY <1>2 DEF WorkInv, InHand
<1>4. \A v \in Workers : InHand(v)'
  BY <1>2, <1>3 DEF WorkInv, InHand
<1> QED
  BY <1>2, <1>3, <1>4 DEF WorkInv

\* A worker is started and its flag set.
LEMMA StartedWork ==
  ASSUME TypeOK, WorkInv, NEW w \in Workers, ~Begun(w), Begun(w)',
         worker' = [worker EXCEPT ![w] = "running"],
         \A v \in Workers \ {w} : Begun(v)' <=> Begun(v), UNCHANGED <<queue, lost>>
  PROVE  /\ WorkInv' /\ Waiting' = Waiting /\ w \notin Waiting
         /\ worker' \in [Workers -> {"idle", "running", "acting"}]
<1>1. /\ worker' \in [Workers -> {"idle", "running", "acting"}]
      /\ worker'[w] = "running" /\ \A v \in Workers \ {w} : worker'[v] = worker[v]
  BY DEF TypeOK
<1>2. w \notin Waiting /\ Waiting' = Waiting
  BY DEF WorkInv, InHand, Waiting
<1>3. \A v \in Workers : InHand(v)'
  BY <1>1, <1>2 DEF WorkInv, InHand
<1> QED
  BY <1>1, <1>2, <1>3 DEF WorkInv

\* A worker reaches its disk.
LEMMA ActingWork ==
  ASSUME TypeOK, WorkInv, NEW w \in Workers, worker[w] = "running",
         worker' = [worker EXCEPT ![w] = "acting"], UNCHANGED <<queue, lost, busy_flags>>
  PROVE  /\ WorkInv' /\ Waiting' = Waiting
         /\ worker' \in [Workers -> {"idle", "running", "acting"}]
<1>1. /\ worker' \in [Workers -> {"idle", "running", "acting"}]
      /\ worker'[w] = "acting" /\ \A v \in Workers \ {w} : worker'[v] = worker[v]
  BY DEF TypeOK
<1>2. \A v \in Workers : Begun(v)' <=> Begun(v)
  BY DEF Begun, busy_flags
<1>3. Waiting' = Waiting
  BY DEF Waiting
<1>4. \A v \in Workers : InHand(v)'
  BY <1>1, <1>2, <1>3 DEF WorkInv, InHand
<1> QED
  BY <1>1, <1>3, <1>4 DEF WorkInv

LEMMA QuietWork ==
  ASSUME WorkInv, UNCHANGED <<worker, queue, lost, busy_flags>>
  PROVE  WorkInv' /\ Waiting' = Waiting
BY DEF WorkInv, InHand, Waiting, Begun, busy_flags

\* A step that asks nothing new: it closes at most a dialog that does not ask, and
\* opens at most a dialog that does not ask.
LEMMA QuietDialogs ==
  ASSUME GuiIInv, NEW d \in Dialog, ~Asks(d),
         \/ UNCHANGED dialogs
         \/ dialogs' = <<d>> \o dialogs
         \/ /\ dialogs # <<>> /\ ~Asks(Head(dialogs))
            /\ dialogs' = Tail(dialogs) \/ dialogs' = <<d>> \o Tail(dialogs),
         planning' => planning, writing' => writing, clean_running' => clean_running,
         UNCHANGED <<elevated, closed>>,
         \/ controls_enabled' \/ Busy' \/ clean_running'
         \/ UNCHANGED <<controls_enabled, busy_flags>>
  PROVE  DialogInv' /\ ClosedInv' /\ ControlInv' /\ AsksLess(dialogs', dialogs)
<1>1. dialogs \in Seq(Dialog) /\ OneAsks(dialogs)
  BY DEF GuiIInv, DialogInv, OneAsks
<1>2. /\ dialogs' \in Seq(Dialog) /\ OneAsks(dialogs')
      /\ AsksLess(dialogs', dialogs) /\ AsksLess(dialogs, dialogs')
  <2>1. CASE UNCHANGED dialogs
    BY <1>1, <2>1 DEF AsksLess
  <2>2. CASE dialogs' = <<d>> \o dialogs
    BY <1>1, <2>2, PushNotice
  <2>3. CASE dialogs # <<>> /\ ~Asks(Head(dialogs)) /\ dialogs' = Tail(dialogs)
    BY <1>1, <2>3, PopDialog
  <2>4. CASE dialogs # <<>> /\ ~Asks(Head(dialogs)) /\ dialogs' = <<d>> \o Tail(dialogs)
    <3>1. /\ Tail(dialogs) \in Seq(Dialog) /\ OneAsks(Tail(dialogs))
          /\ AsksLess(Tail(dialogs), dialogs) /\ AsksLess(dialogs, Tail(dialogs))
      BY <1>1, <2>4, PopDialog
    <3>2. /\ dialogs' \in Seq(Dialog) /\ OneAsks(dialogs')
          /\ AsksLess(dialogs', Tail(dialogs)) /\ AsksLess(Tail(dialogs), dialogs')
      BY <2>4, <3>1, PushNotice
    <3> QED
      BY <3>1, <3>2, AsksLessIsTransitive
  <2> QED
    BY <2>1, <2>2, <2>3, <2>4
<1>3. \A x : x.kind \in {"clean1", "clean2"} => Asks(x)
  BY DEF Asks
<1>4. \A x : x.kind = "plan" => Asks(x)
  BY DEF Asks
<1>5. DialogInv'
  <2>1. Asked' => Asked
    BY <1>2 DEF Asked, AsksLess
  <2>2. \A i \in DOMAIN dialogs' : dialogs'[i].kind \in {"clean1", "clean2"} => ~clean_running'
    BY <1>2, <1>3 DEF AsksLess, GuiIInv, DialogInv
  <2> QED
    BY <1>2, <2>1, <2>2 DEF GuiIInv, DialogInv, OneAsks
<1>6. ClosedInv'
  <2>1. Asked' => Asked
    BY <1>2 DEF Asked, AsksLess
  <2> QED
    BY <2>1 DEF GuiIInv, ClosedInv
<1>7. ControlInv'
  <2>1. CASE UNCHANGED <<controls_enabled, busy_flags>>
    BY <1>2, <1>4, <2>1 DEF GuiIInv, ControlInv, Busy, busy_flags, AsksLess
  <2>2. CASE controls_enabled' \/ Busy' \/ clean_running'
    BY <2>2 DEF ControlInv
  <2> QED
    BY <2>1, <2>2
<1> QED
  BY <1>2, <1>5, <1>6, <1>7

LEMMA NothingOpened ==
  ASSUME GuiIInv, UNCHANGED <<dialogs, busy_flags, elevated, closed, controls_enabled>>
  PROVE  DialogInv' /\ ClosedInv' /\ ControlInv' /\ AsksLess(dialogs', dialogs)
<1>1. Notice({}) \in Dialog /\ ~Asks(Notice({}))
  BY NoticeAsksNothing
<1> QED
  BY <1>1, QuietDialogs DEF busy_flags

LEMMA QuietJob ==
  ASSUME GuiIInv, AsksLess(dialogs', dialogs), UNCHANGED <<planning, writing, job, clean_job>>,
         clean_running' => clean_running,
         \A i \in 1..Numbers : targets[i] \in Entries => targets'[i] \in Entries,
         worker'["write"] # "acting" \/ worker'["write"] = worker["write"]
  PROVE  JobInv'
<1>1. \A x : x.kind \in {"plan", "clean1", "clean2"} => Asks(x)
  BY DEF Asks
<1>2. \A i \in DOMAIN dialogs' :
        dialogs'[i].kind = "plan" => dialogs'[i].shown = job.target /\ job.target \in Entries
  BY <1>1 DEF GuiIInv, JobInv, AsksLess
<1>3. \A i \in DOMAIN dialogs' :
        dialogs'[i].kind \in {"clean1", "clean2"} =>
            dialogs'[i].index \in 1..Numbers /\ targets'[dialogs'[i].index] \in Entries
  BY <1>1 DEF GuiIInv, JobInv, AsksLess
<1> QED
  BY <1>2, <1>3 DEF GuiIInv, JobInv

LEMMA QuietGreen ==
  ASSUME GuiIInv, green' => green, UNCHANGED <<proven, job, clean_job>>,
         \A w \in {"write", "clean"} :
           /\ worker'[w] = "idle" \/ worker'[w] = worker[w]
           /\ w \in Waiting' => w \in Waiting
  PROVE  GreenInv'
BY DEF GuiIInv, GreenInv, GreenWrite

\* A step of the window that starts and ends no work.
LEMMA QuietStep ==
  ASSUME GuiIInv, NEW d \in Dialog, ~Asks(d),
         \/ UNCHANGED dialogs
         \/ dialogs' = <<d>> \o dialogs
         \/ /\ dialogs # <<>> /\ ~Asks(Head(dialogs))
            /\ dialogs' = Tail(dialogs) \/ dialogs' = <<d>> \o Tail(dialogs),
         selected' \in 0..target_count, verify' \in {"full", "none"},
         {dismount', result_visible', write_enabled', clean_enabled', timer', green'}
           \subseteq BOOLEAN,
         green' => green,
         UNCHANGED <<present, lost, busy_flags, source_ready, elevated, targets, target_count,
                     controls_enabled, queue, closed, worker, jobs>>
  PROVE  GuiIInv'
<1>1. TypeOK' /\ ListInv'
  BY DEF GuiIInv, TypeOK, ListInv, busy_flags, jobs
<1>2. WorkInv' /\ Waiting' = Waiting
  BY QuietWork DEF GuiIInv
<1>3. DialogInv' /\ ClosedInv' /\ ControlInv' /\ AsksLess(dialogs', dialogs)
  BY QuietDialogs DEF busy_flags
<1>4. JobInv' /\ GreenInv'
  BY <1>2, <1>3, QuietJob, QuietGreen DEF busy_flags, jobs, list
<1> QED
  BY <1>1, <1>2, <1>3, <1>4 DEF GuiIInv

-----------------------------------------------------------------------------
(* Scanning.                                                                 *)

LEMMA BeginScanKeepsGuiIInv ==
  ASSUME GuiIInv, NEW d, BeginScan(d),
         \/ d = dialogs
         \/ dialogs # <<>> /\ ~Asks(Head(dialogs)) /\ d = Tail(dialogs),
         UNCHANGED <<present, lost, source_hashing, planning, writing, clean_running,
                     source_ready, elevated, list, options, queue, closed, source_ok, job,
                     clean_job, proven>>,
         {result_visible', clean_enabled', timer'} \subseteq BOOLEAN
  PROVE  GuiIInv'
<1> DEFINE n == Notice({"ready", "status", "clean"})
<1>1. n \in Dialog /\ ~Asks(n)
  BY NoticeAsksNothing DEF Reasons
<1> HIDE DEF n
<1>2. \/ UNCHANGED dialogs
      \/ dialogs' = <<n>> \o dialogs
      \/ /\ dialogs # <<>> /\ ~Asks(Head(dialogs))
         /\ dialogs' = Tail(dialogs) \/ dialogs' = <<n>> \o Tail(dialogs)
  BY DEF BeginScan, n
<1>3. CASE UNCHANGED <<scanning, scan_job, worker, controls_enabled, write_enabled>>
           /\ green' \in BOOLEAN /\ (green' => green)
  <2>1. WorkInv' /\ Waiting' = Waiting
    BY <1>3, QuietWork DEF GuiIInv, busy_flags
  <2>2. DialogInv' /\ ClosedInv' /\ ControlInv' /\ AsksLess(dialogs', dialogs)
    BY <1>1, <1>2, <1>3, QuietDialogs DEF busy_flags
  <2>3. TypeOK' /\ ListInv'
    BY <1>3 DEF GuiIInv, TypeOK, ListInv, list, options
  <2>4. JobInv' /\ GreenInv'
    BY <1>3, <2>1, <2>2, QuietJob, QuietGreen DEF list, busy_flags
  <2> QED
    BY <2>1, <2>2, <2>3, <2>4 DEF GuiIInv
<1>4. CASE ~Busy /\ scan_job' = [next |-> 1, found |-> <<>>] /\ green' = FALSE
  <2>1. ListInv' /\ scan_job'.found \in Seq(Entries)
    BY <1>4, DiskAssumption DEF GuiIInv, ListInv, list, options
  <2>2. CASE /\ scanning' = TRUE
             /\ worker' = [worker EXCEPT !["scan"] = "running"]
             /\ Disable
             /\ dialogs' = d
    <3>1. WorkInv' /\ Waiting' = Waiting /\ worker' \in [Workers -> {"idle", "running", "acting"}]
      BY <1>4, <2>2, StartedWork DEF GuiIInv, Begun, Busy, Workers
    <3>2. worker'["write"] = worker["write"] /\ worker'["clean"] = worker["clean"]
      BY <2>2 DEF GuiIInv, TypeOK, Workers
    <3>3. DialogInv' /\ ClosedInv' /\ ControlInv' /\ AsksLess(dialogs', dialogs)
      <4>1. Busy'
        BY <2>2 DEF Busy
      <4> QED
        BY <1>1, <1>2, <4>1, QuietDialogs
    <3>4. TypeOK'
      BY <1>4, <2>1, <2>2, <3>1 DEF GuiIInv, TypeOK, list, options, Disable
    <3>5. JobInv' /\ GreenInv'
      BY <1>4, <3>1, <3>2, <3>3, QuietJob, QuietGreen DEF list, busy_flags
    <3> QED
      BY <2>1, <3>1, <3>3, <3>4, <3>5 DEF GuiIInv
  <2>3. CASE Reenable /\ write_enabled' = FALSE /\ UNCHANGED <<scanning, worker>>
    <3>1. WorkInv' /\ Waiting' = Waiting
      BY <2>3, QuietWork DEF GuiIInv, busy_flags
    <3>2. DialogInv' /\ ClosedInv' /\ ControlInv' /\ AsksLess(dialogs', dialogs)
      <4>1. controls_enabled'
        BY <2>3 DEF Reenable
      <4> QED
        BY <1>1, <1>2, <4>1, QuietDialogs
    <3>3. TypeOK'
      BY <1>4, <2>1, <2>3 DEF GuiIInv, TypeOK, list, options, Reenable
    <3>4. JobInv' /\ GreenInv'
      BY <1>4, <2>3, <3>1, <3>2, QuietJob, QuietGreen DEF list, busy_flags
    <3> QED
      BY <2>1, <3>1, <3>2, <3>3, <3>4 DEF GuiIInv
  <2> QED
    BY <1>4, <2>2, <2>3 DEF BeginScan
<1> QED
  BY <1>3, <1>4 DEF BeginScan, GuiIInv, TypeOK

LEMMA RefreshKeepsGuiIInv == GuiIInv /\ Refresh => GuiIInv'
<1> SUFFICES ASSUME GuiIInv, Refresh PROVE GuiIInv'
  OBVIOUS
<1>1. BeginScan(<<>>) /\ dialogs = <<>>
  BY DEF Refresh, Click
<1>2. {result_visible', clean_enabled', timer'} \subseteq BOOLEAN
  BY DEF Refresh, ForgetResult, UpdateClean, CleanReady, GuiIInv, TypeOK
<1> QED
  BY <1>1, <1>2, BeginScanKeepsGuiIInv DEF Refresh, devices

LEMMA AutoscanKeepsGuiIInv == GuiIInv /\ Autoscan => GuiIInv'
<1> SUFFICES ASSUME GuiIInv, Autoscan PROVE GuiIInv'
  OBVIOUS
<1>1. {result_visible', clean_enabled', timer'} \subseteq BOOLEAN
  BY DEF Autoscan, ForgetResult, UpdateClean, CleanReady, Busy, GuiIInv, TypeOK
<1> QED
  BY <1>1, BeginScanKeepsGuiIInv DEF Autoscan, world, devices

LEMMA RescanAfterCleanKeepsGuiIInv == GuiIInv /\ RescanAfterClean => GuiIInv'
<1> SUFFICES ASSUME GuiIInv, RescanAfterClean PROVE GuiIInv'
  OBVIOUS
<1>1. dialogs # <<>> /\ ~Asks(Head(dialogs))
  BY DEF RescanAfterClean, Asks
<1>2. {result_visible', clean_enabled', timer'} \subseteq BOOLEAN
  BY DEF RescanAfterClean, GuiIInv, TypeOK
<1> QED
  BY <1>1, <1>2, BeginScanKeepsGuiIInv DEF RescanAfterClean, world, devices

LEMMA ScanNextKeepsGuiIInv == GuiIInv /\ ScanNext => GuiIInv'
<1> SUFFICES ASSUME GuiIInv, ScanNext PROVE GuiIInv'
  OBVIOUS
<1>1. UNCHANGED <<world, lost, busy_flags, source_ready, elevated, result_visible, list, options,
                  buttons, green, timer, queue, dialogs, closed, worker, source_ok, job,
                  clean_job, proven>>
  BY DEF ScanNext
<1>2. /\ scan_job \in [next : 1..(Numbers + 1), found : Seq(Entries)]
      /\ Len(scan_job.found) < scan_job.next /\ scan_job.next <= Numbers
      /\ scan_job.next \in Nat /\ scan_job.found \in Seq(Entries) /\ Len(scan_job.found) \in Nat
  BY DEF ScanNext, GuiIInv, ListInv
<1>3. scan_job.next \in 1..Numbers /\ scan_job.next + 1 \in 1..(Numbers + 1)
  BY <1>2, DiskAssumption
<1> DEFINE d == present[scan_job.next]
           e == [path |-> scan_job.next, disk |-> d]
<1>4. ListInv' /\ scan_job'.found \in Seq(Entries)
  <2>1. CASE scan_job' = [next |-> scan_job.next + 1, found |-> scan_job.found]
    BY <1>1, <1>2, <1>3, <2>1 DEF GuiIInv, ListInv, list, options
  <2>2. CASE /\ d \in Disks \ SystemDisks
             /\ scan_job' = [next |-> scan_job.next + 1, found |-> Append(scan_job.found, e)]
    <3>1. e \in Entries
      BY <1>3, <2>2 DEF Entries
    <3> HIDE DEF e
    <3>2. /\ Append(scan_job.found, e) \in Seq(Entries)
          /\ Len(Append(scan_job.found, e)) < scan_job.next + 1
      BY <1>2, <3>1
    <3> QED
      BY <1>1, <1>3, <2>2, <3>2 DEF GuiIInv, ListInv, list, options
  <2> QED
    BY <2>1, <2>2 DEF ScanNext
<1>5. TypeOK'
  BY <1>1, <1>4 DEF GuiIInv, TypeOK, world, devices, busy_flags, list, options, buttons
<1>6. WorkInv' /\ Waiting' = Waiting
  BY <1>1, QuietWork DEF GuiIInv
<1>7. DialogInv' /\ ClosedInv' /\ ControlInv' /\ AsksLess(dialogs', dialogs)
  BY <1>1, NothingOpened DEF buttons
<1>8. JobInv' /\ GreenInv'
  BY <1>1, <1>6, <1>7, QuietJob, QuietGreen DEF busy_flags, list
<1> QED
  BY <1>4, <1>5, <1>6, <1>7, <1>8 DEF GuiIInv

LEMMA ScanDoneKeepsGuiIInv == GuiIInv /\ ScanDone => GuiIInv'
<1> SUFFICES ASSUME GuiIInv, ScanDone PROVE GuiIInv'
  OBVIOUS
<1>1. UNCHANGED <<world, busy_flags, source_ready, elevated, result_visible, list, options,
                  buttons, green, timer, dialogs, closed, jobs>>
  BY DEF ScanDone
<1>2. /\ WorkInv' /\ queue' \in Seq(Workers) /\ Waiting' \subseteq Waiting \cup {"scan"}
      /\ worker' \in [Workers -> {"idle", "running", "acting"}]
  BY <1>1, EndedWork DEF ScanDone, GuiIInv, Workers
<1>3. TypeOK' /\ ListInv'
  BY <1>1, <1>2 DEF GuiIInv, TypeOK, ListInv, world, devices, busy_flags, list, options, buttons,
                    jobs
<1>4. DialogInv' /\ ClosedInv' /\ ControlInv' /\ AsksLess(dialogs', dialogs)
  BY <1>1, NothingOpened DEF buttons
<1>5. worker'["write"] = worker["write"] /\ worker'["clean"] = worker["clean"]
  BY DEF GuiIInv, TypeOK, Workers, ScanDone
<1>6. JobInv' /\ GreenInv'
  BY <1>1, <1>2, <1>4, <1>5, QuietJob, QuietGreen DEF busy_flags, jobs, list
<1> QED
  BY <1>2, <1>3, <1>4, <1>6 DEF GuiIInv

\* A set of numbers has a smallest one.
LEMMA HasSmallest ==
  ASSUME NEW T, T \subseteq Nat, T # {}
  PROVE  \E x \in T : \A y \in T : x <= y
<1> DEFINE R == OpToRel(<, Nat)
<1>1. IsWellFoundedOn(R, Nat)
  BY NatLessThanWellFounded
<1>2. \A x, y \in Nat : y < x => <<y, x>> \in R
  BY DEF OpToRel
<1> HIDE DEF R
<1>3. PICK x \in T : \A y \in T : <<y, x>> \notin R
  BY <1>1, WFMin
<1>4. ASSUME NEW y \in T PROVE x <= y
  <2>1. x \in Nat /\ y \in Nat /\ ~(y < x)
    BY <1>2, <1>3
  <2> QED
    BY <2>1
<1> QED
  BY <1>4

LEMMA FirstUsableIsAnEntry ==
  ASSUME NEW found \in Seq(Entries)
  PROVE  FirstUsable(found) \in 0..Len(found)
<1> DEFINE usable == {i \in DOMAIN found : found[i].disk \notin ReadOnlyDisks}
<1>1. Len(found) \in Nat /\ DOMAIN found = 1..Len(found) /\ (found # <<>> => Len(found) # 0)
  OBVIOUS
<1>2. usable \subseteq Nat /\ usable \subseteq 1..Len(found)
  BY <1>1
<1>3. CASE found = <<>>
  BY <1>1, <1>3 DEF FirstUsable
<1>4. CASE found # <<>> /\ usable = {}
  BY <1>1, <1>4 DEF FirstUsable
<1>5. CASE found # <<>> /\ usable # {}
  <2> DEFINE m == CHOOSE i \in usable : \A j \in usable : i <= j
  <2>1. FirstUsable(found) = m
    BY <1>5 DEF FirstUsable
  <2> HIDE DEF usable
  <2>2. \E i \in usable : \A j \in usable : i <= j
    BY <1>2, <1>5, HasSmallest
  <2>3. m \in usable
    BY <2>2
  <2> HIDE DEF m
  <2>4. m \in 1..Len(found)
    BY <1>2, <2>3
  <2> QED
    BY <1>1, <2>1, <2>4
<1> QED
  BY <1>3, <1>4, <1>5

LEMMA FinishScanKeepsGuiIInv == GuiIInv /\ FinishScan => GuiIInv'
<1> SUFFICES ASSUME GuiIInv, FinishScan PROVE GuiIInv'
  OBVIOUS
<1>1. UNCHANGED <<world, lost, source_hashing, planning, writing, clean_running, source_ready,
                  elevated, options, timer, dialogs, closed, worker, jobs>>
      /\ scanning' = FALSE /\ controls_enabled' = TRUE
  BY DEF FinishScan, Reenable
<1>2. /\ scan_job.found \in Seq(Entries) /\ Len(scan_job.found) \in 0..Numbers
      /\ DOMAIN scan_job.found = 1..Len(scan_job.found)
      /\ Numbers \in Nat
  <2>1. /\ scan_job.found \in Seq(Entries) /\ scan_job.next \in 1..(Numbers + 1)
        /\ Len(scan_job.found) < scan_job.next /\ Numbers \in Nat
    BY DiskAssumption DEF GuiIInv, ListInv
  <2> QED
    BY <2>1
<1>3. /\ target_count' = Len(scan_job.found)
      /\ selected' = FirstUsable(scan_job.found)
      /\ targets' = [i \in 1..Numbers |-> IF i <= Len(scan_job.found)
                                          THEN scan_job.found[i] ELSE targets[i]]
  BY DEF FinishScan
<1>4. target_count' \in 0..Numbers /\ selected' \in 0..target_count'
  BY <1>2, <1>3, FirstUsableIsAnEntry
<1>5. /\ targets' \in [1..Numbers -> Entries \cup {NoEntry}]
      /\ \A i \in 1..target_count' : targets'[i] \in Entries
  <2>1. ASSUME NEW i \in 1..Numbers PROVE targets'[i] \in Entries \cup {NoEntry}
    BY <1>2, <1>3 DEF GuiIInv, TypeOK
  <2>2. ASSUME NEW i \in 1..target_count' PROVE targets'[i] \in Entries
    BY <1>2, <1>3
  <2> QED
    BY <1>3, <2>1, <2>2
<1>6. {scanning', result_visible', write_enabled', clean_enabled', green'} \subseteq BOOLEAN
      /\ (green' => green)
  BY <1>1 DEF FinishScan, UpdateReady, UpdateStatus, UpdateClean, Ready, CleanReady, GuiIInv, TypeOK
<1>7. WorkInv' /\ queue' \in Seq(Workers) /\ Waiting' = Waiting \ {"scan"}
  BY <1>1, ReceivedWork DEF FinishScan, GuiIInv, Workers, Begun
<1>8. TypeOK'
  BY <1>1, <1>4, <1>5, <1>6, <1>7 DEF GuiIInv, TypeOK, world, devices, options, jobs
<1>9. ListInv'
  BY <1>1, <1>5 DEF GuiIInv, ListInv, options, jobs
<1>10. DialogInv' /\ ClosedInv' /\ ControlInv' /\ AsksLess(dialogs', dialogs)
  <2>1. Notice({}) \in Dialog /\ ~Asks(Notice({}))
    BY NoticeAsksNothing
  <2> QED
    BY <1>1, <2>1, QuietDialogs
<1>11. JobInv' /\ GreenInv'
  <2>1. \A i \in 1..Numbers : targets[i] \in Entries => targets'[i] \in Entries
    BY <1>2, <1>3
  <2> QED
    BY <1>1, <1>6, <1>7, <1>10, <2>1, QuietJob, QuietGreen DEF jobs
<1> QED
  BY <1>7, <1>8, <1>9, <1>10, <1>11 DEF GuiIInv

-----------------------------------------------------------------------------
(* The source image.                                                         *)

LEMMA BeginSourceKeepsGuiIInv ==
  ASSUME GuiIInv, ~Busy, BeginSource,
         \/ dialogs = <<>>
         \/ dialogs # <<>> /\ ~Asks(Head(dialogs)) /\ Tail(dialogs) = <<>>,
         clean_enabled' \in BOOLEAN,
         UNCHANGED <<present, lost, scanning, planning, writing, clean_running, elevated, list,
                     options, timer, queue, closed, jobs>>
  PROVE  GuiIInv'
<1> DEFINE n == Notice({"ready", "status", "clean"})
<1>1. n \in Dialog /\ ~Asks(n)
  BY NoticeAsksNothing DEF Reasons
<1> HIDE DEF n
<1>2. \/ UNCHANGED dialogs
      \/ dialogs' = <<n>> \o dialogs
      \/ /\ dialogs # <<>> /\ ~Asks(Head(dialogs))
         /\ dialogs' = Tail(dialogs) \/ dialogs' = <<n>> \o Tail(dialogs)
  <2>1. <<n>> \o <<>> = <<n>>
    BY <1>1
  <2>2. dialogs' = <<>> \/ dialogs' = <<n>>
    BY DEF BeginSource, n
  <2> QED
    BY <2>1, <2>2
<1>3. source_ready' = FALSE /\ result_visible' = FALSE /\ green' = FALSE
  BY DEF BeginSource
<1>4. ListInv'
  BY DEF GuiIInv, ListInv, list, options, jobs
<1>5. CASE source_hashing' = TRUE /\ worker' = [worker EXCEPT !["source"] = "running"] /\ Disable
  <2>1. WorkInv' /\ Waiting' = Waiting /\ worker' \in [Workers -> {"idle", "running", "acting"}]
    BY <1>5, StartedWork DEF GuiIInv, Begun, Busy, Workers
  <2>2. worker'["write"] = worker["write"] /\ worker'["clean"] = worker["clean"]
    BY <1>5 DEF GuiIInv, TypeOK, Workers
  <2>3. DialogInv' /\ ClosedInv' /\ ControlInv' /\ AsksLess(dialogs', dialogs)
    <3>1. Busy'
      BY <1>5 DEF Busy
    <3> QED
      BY <1>1, <1>2, <3>1, QuietDialogs
  <2>4. TypeOK'
    BY <1>3, <1>5, <2>1 DEF GuiIInv, TypeOK, list, options, jobs, Disable
  <2>5. JobInv' /\ GreenInv'
    BY <1>3, <2>1, <2>2, <2>3, QuietJob, QuietGreen DEF jobs, list, busy_flags
  <2> QED
    BY <1>4, <2>1, <2>3, <2>4, <2>5 DEF GuiIInv
<1>6. CASE Reenable /\ write_enabled' = FALSE /\ UNCHANGED <<source_hashing, worker>>
  <2>1. WorkInv' /\ Waiting' = Waiting
    BY <1>6, QuietWork DEF GuiIInv, busy_flags
  <2>2. DialogInv' /\ ClosedInv' /\ ControlInv' /\ AsksLess(dialogs', dialogs)
    <3>1. controls_enabled'
      BY <1>6 DEF Reenable
    <3> QED
      BY <1>1, <1>2, <3>1, QuietDialogs
  <2>3. TypeOK'
    BY <1>3, <1>6 DEF GuiIInv, TypeOK, list, options, jobs, Reenable
  <2>4. JobInv' /\ GreenInv'
    BY <1>3, <1>6, <2>1, <2>2, QuietJob, QuietGreen DEF jobs, list, busy_flags
  <2> QED
    BY <1>4, <2>1, <2>2, <2>3, <2>4 DEF GuiIInv
<1> QED
  BY <1>5, <1>6 DEF BeginSource

LEMMA DropFileKeepsGuiIInv == GuiIInv /\ DropFile => GuiIInv'
<1> SUFFICES ASSUME GuiIInv, DropFile PROVE GuiIInv'
  OBVIOUS
<1>1. ~Busy /\ BeginSource /\ dialogs = <<>> /\ clean_enabled' \in BOOLEAN
  BY DEF DropFile, Click, GuiIInv, TypeOK
<1> QED
  BY <1>1, BeginSourceKeepsGuiIInv DEF DropFile, devices

LEMMA BrowseKeepsGuiIInv == GuiIInv /\ Browse => GuiIInv'
<1> SUFFICES ASSUME GuiIInv, Browse PROVE GuiIInv'
  OBVIOUS
<1>1. UNCHANGED <<devices, lost, busy_flags, source_ready, elevated, result_visible, list, options,
                  buttons, green, timer, queue, closed, worker, jobs>>
  BY DEF Browse
<1> DEFINE b == [kind |-> "browse"]
<1>2. b \in Dialog /\ ~Asks(b) /\ dialogs' = <<b>> \o dialogs
  BY DEF Browse, Open, Dialog, Asks
<1> HIDE DEF b
<1>3. /\ selected' \in 0..target_count /\ verify' \in {"full", "none"} /\ (green' => green)
      /\ {dismount', result_visible', write_enabled', clean_enabled', timer', green'}
           \subseteq BOOLEAN
  BY <1>1 DEF GuiIInv, TypeOK, ListInv, list, options, buttons
<1> QED
  BY <1>1, <1>2, <1>3, QuietStep DEF devices, list, buttons

LEMMA BrowsedKeepsGuiIInv == GuiIInv /\ Browsed => GuiIInv'
<1> SUFFICES ASSUME GuiIInv, Browsed PROVE GuiIInv'
  OBVIOUS
<1>1. UNCHANGED <<world, lost, scanning, planning, writing, clean_running, elevated, list, options,
                  timer, queue, closed, jobs>>
      /\ clean_enabled' \in BOOLEAN
      /\ dialogs # <<>> /\ ~Asks(Head(dialogs))
  BY DEF Browsed, UpdateClean, CleanReady, Asks
<1>2. CASE ~Busy /\ Tail(dialogs) = <<>> /\ BeginSource
  BY <1>1, <1>2, BeginSourceKeepsGuiIInv DEF world, devices
<1>3. CASE /\ dialogs' = Tail(dialogs)
           /\ UNCHANGED <<source_hashing, worker, source_ready, result_visible, green,
                          controls_enabled, write_enabled>>
  <2>1. Notice({}) \in Dialog /\ ~Asks(Notice({}))
    BY NoticeAsksNothing
  <2>2. /\ selected' \in 0..target_count /\ verify' \in {"full", "none"} /\ (green' => green)
        /\ {dismount', result_visible', write_enabled', clean_enabled', timer', green'}
             \subseteq BOOLEAN
    BY <1>1, <1>3 DEF GuiIInv, TypeOK, ListInv, list, options
  <2> QED
    BY <1>1, <1>3, <2>1, <2>2, QuietStep DEF world, devices, busy_flags, list
<1> QED
  BY <1>2, <1>3 DEF Browsed

LEMMA SourceDoneKeepsGuiIInv == GuiIInv /\ SourceDone => GuiIInv'
<1> SUFFICES ASSUME GuiIInv, SourceDone PROVE GuiIInv'
  OBVIOUS
<1>1. UNCHANGED <<world, busy_flags, source_ready, elevated, result_visible, list, options,
                  buttons, green, timer, dialogs, closed, scan_job, job, clean_job, proven>>
      /\ source_ok' \in BOOLEAN
  BY DEF SourceDone
<1>2. /\ WorkInv' /\ queue' \in Seq(Workers) /\ Waiting' \subseteq Waiting \cup {"source"}
      /\ worker' \in [Workers -> {"idle", "running", "acting"}]
  BY <1>1, EndedWork DEF SourceDone, GuiIInv, Workers
<1>3. TypeOK' /\ ListInv'
  BY <1>1, <1>2 DEF GuiIInv, TypeOK, ListInv, world, devices, busy_flags, list, options, buttons
<1>4. DialogInv' /\ ClosedInv' /\ ControlInv' /\ AsksLess(dialogs', dialogs)
  BY <1>1, NothingOpened DEF buttons
<1>5. worker'["write"] = worker["write"] /\ worker'["clean"] = worker["clean"]
  BY DEF GuiIInv, TypeOK, Workers, SourceDone
<1>6. JobInv' /\ GreenInv'
  BY <1>1, <1>2, <1>4, <1>5, QuietJob, QuietGreen DEF busy_flags, list
<1> QED
  BY <1>2, <1>3, <1>4, <1>6 DEF GuiIInv

LEMMA FinishSourceKeepsGuiIInv == GuiIInv /\ FinishSource => GuiIInv'
<1> SUFFICES ASSUME GuiIInv, FinishSource PROVE GuiIInv'
  OBVIOUS
<1> DEFINE n == Notice({"ready", "clean"})
<1>1. n \in Dialog /\ ~Asks(n)
  BY NoticeAsksNothing DEF Reasons
<1>2. UNCHANGED dialogs \/ dialogs' = <<n>> \o dialogs
  BY DEF FinishSource, Open
<1> HIDE DEF n
<1>3. UNCHANGED <<world, lost, scanning, planning, writing, clean_running, elevated, list, options,
                  timer, closed, worker, jobs>>
      /\ source_hashing' = FALSE /\ controls_enabled' = TRUE /\ source_ready' = source_ok
  BY DEF FinishSource, Reenable
<1>4. {result_visible', write_enabled', clean_enabled', green'} \subseteq BOOLEAN
      /\ (green' => green)
  BY <1>3 DEF FinishSource, UpdateReady, UpdateStatus, UpdateClean, Ready, CleanReady, GuiIInv,
              TypeOK
<1>5. WorkInv' /\ queue' \in Seq(Workers) /\ Waiting' = Waiting \ {"source"}
  BY <1>3, ReceivedWork DEF FinishSource, GuiIInv, Workers, Begun
<1>6. TypeOK' /\ ListInv'
  BY <1>3, <1>4, <1>5 DEF GuiIInv, TypeOK, ListInv, world, devices, list, options, jobs
<1>7. DialogInv' /\ ClosedInv' /\ ControlInv' /\ AsksLess(dialogs', dialogs)
  BY <1>1, <1>2, <1>3, QuietDialogs
<1>8. JobInv' /\ GreenInv'
  BY <1>3, <1>4, <1>5, <1>7, QuietJob, QuietGreen DEF jobs, list, busy_flags
<1> QED
  BY <1>5, <1>6, <1>7, <1>8 DEF GuiIInv

-----------------------------------------------------------------------------
(* The operator's choices, and the world.                                    *)

LEMMA ChooseKeepsGuiIInv == GuiIInv /\ Choose => GuiIInv'
<1> SUFFICES ASSUME GuiIInv, Choose PROVE GuiIInv'
  OBVIOUS
<1>1. UNCHANGED <<devices, lost, busy_flags, source_ready, elevated, targets, target_count,
                  controls_enabled, timer, queue, dialogs, closed, worker, jobs>>
      /\ result_visible' = FALSE /\ UpdateReady /\ UpdateStatus /\ UpdateClean
  BY DEF Choose
<1>2. selected' \in 0..target_count /\ verify' \in {"full", "none"} /\ dismount' \in BOOLEAN
  <2>1. selected \in 0..target_count /\ target_count \in Nat
    BY DEF GuiIInv, TypeOK
  <2>2. selected' \in 1..target_count \/ selected' = selected
    BY DEF Choose
  <2>3. selected' \in 0..target_count
    BY <2>1, <2>2
  <2>4. verify' \in {"full", "none"}
    BY DEF Choose, options, GuiIInv, ListInv
  <2>5. dismount' = dismount \/ dismount' = ~dismount
    BY DEF Choose, options
  <2> QED
    BY <2>3, <2>4, <2>5 DEF GuiIInv, TypeOK
<1>3. /\ {dismount', result_visible', write_enabled', clean_enabled', timer', green'}
           \subseteq BOOLEAN
      /\ (green' => green)
  BY <1>1, <1>2 DEF UpdateReady, UpdateStatus, UpdateClean, Ready, CleanReady, GuiIInv, TypeOK
<1>4. Notice({}) \in Dialog /\ ~Asks(Notice({}))
  BY NoticeAsksNothing
<1> QED
  BY <1>1, <1>2, <1>3, <1>4, QuietStep DEF devices

LEMMA CloseNoticeKeepsGuiIInv == GuiIInv /\ CloseNotice => GuiIInv'
<1> SUFFICES ASSUME GuiIInv, CloseNotice PROVE GuiIInv'
  OBVIOUS
<1>1. UNCHANGED <<world, lost, busy_flags, source_ready, elevated, result_visible, list, options,
                  controls_enabled, timer, queue, closed, worker, jobs>>
      /\ dialogs # <<>> /\ dialogs' = Tail(dialogs) /\ ~Asks(Head(dialogs))
  BY DEF CloseNotice, Asks
<1>2. {write_enabled', green', clean_enabled'} \subseteq BOOLEAN /\ (green' => green)
  <2>1. write_enabled' = write_enabled \/ write_enabled' = Ready'
    BY DEF CloseNotice, UpdateReady
  <2>2. green' = green \/ green' = (green /\ (Busy' \/ result_visible'))
    BY DEF CloseNotice, UpdateStatus
  <2>3. clean_enabled' = clean_enabled \/ clean_enabled' = CleanReady'
    BY DEF CloseNotice, UpdateClean
  <2>4. write_enabled \in BOOLEAN /\ clean_enabled \in BOOLEAN /\ green \in BOOLEAN
    BY DEF GuiIInv, TypeOK
  <2>5. Ready' \in BOOLEAN /\ CleanReady' \in BOOLEAN
    BY DEF Ready, CleanReady
  <2>6. write_enabled' \in BOOLEAN
    BY <2>1, <2>4, <2>5, Zenon
  <2>7. clean_enabled' \in BOOLEAN
    BY <2>3, <2>4, <2>5, Zenon
  <2>8. green' \in BOOLEAN /\ (green' => green)
    <3>1. CASE green' = green
      BY <2>4, <3>1
    <3>2. CASE green' = (green /\ (Busy' \/ result_visible'))
      BY <3>2
    <3> QED
      BY <2>2, <3>1, <3>2
  <2> QED
    BY <2>6, <2>7, <2>8
<1>3. /\ {dismount', result_visible', write_enabled', clean_enabled', timer', green'}
           \subseteq BOOLEAN
      /\ selected' \in 0..target_count /\ verify' \in {"full", "none"}
  BY <1>1, <1>2 DEF GuiIInv, TypeOK, ListInv, list, options
<1>4. Notice({}) \in Dialog /\ ~Asks(Notice({}))
  BY NoticeAsksNothing
<1> QED
  BY <1>1, <1>2, <1>3, <1>4, QuietStep DEF world, devices, list

\* The window closes.
LEMMA ClosingKeepsGuiIInv ==
  ASSUME GuiIInv, closed' = TRUE, ~writing, ~clean_running,
         UNCHANGED <<present, lost, busy_flags, source_ready, elevated, result_visible, list,
                     options, buttons, green, timer, queue, dialogs, worker, jobs>>
  PROVE  GuiIInv'
<1>1. TypeOK' /\ ListInv'
  BY DEF GuiIInv, TypeOK, ListInv, busy_flags, list, options, buttons, jobs
<1>2. WorkInv' /\ Waiting' = Waiting
  BY QuietWork DEF GuiIInv
<1>3. DialogInv' /\ ClosedInv' /\ ControlInv'
  BY DEF GuiIInv, DialogInv, ClosedInv, ControlInv, Asked, Busy, busy_flags, buttons
<1>4. JobInv' /\ GreenInv'
  BY <1>2 DEF GuiIInv, JobInv, GreenInv, GreenWrite, busy_flags, list, jobs
<1> QED
  BY <1>1, <1>2, <1>3, <1>4 DEF GuiIInv

\* A dialog that asks nothing is opened, and nothing else happens.
LEMMA OpeningKeepsGuiIInv ==
  ASSUME GuiIInv, NEW d \in Dialog, ~Asks(d), Open(d),
         UNCHANGED <<present, lost, busy_flags, source_ready, elevated, result_visible, list,
                     options, buttons, green, timer, queue, closed, worker, jobs>>
  PROVE  GuiIInv'
<1>1. /\ selected' \in 0..target_count /\ verify' \in {"full", "none"} /\ (green' => green)
      /\ {dismount', result_visible', write_enabled', clean_enabled', timer', green'}
           \subseteq BOOLEAN
  BY DEF GuiIInv, TypeOK, ListInv, list, options, buttons
<1> QED
  BY <1>1, QuietStep DEF Open, list, buttons

LEMMA CloseWindowKeepsGuiIInv == GuiIInv /\ CloseWindow => GuiIInv'
<1> SUFFICES ASSUME GuiIInv, CloseWindow PROVE GuiIInv'
  OBVIOUS
<1>1. UNCHANGED <<devices, lost, busy_flags, source_ready, elevated, result_visible, list, options,
                  buttons, green, timer, queue, worker, jobs>>
  BY DEF CloseWindow
<1>2. CASE Open(Notice({})) /\ UNCHANGED closed
  <2>1. Notice({}) \in Dialog /\ ~Asks(Notice({}))
    BY NoticeAsksNothing
  <2> QED
    BY <1>1, <1>2, <2>1, OpeningKeepsGuiIInv DEF devices
<1>3. CASE ~(Busy \/ clean_running) /\ closed' = TRUE /\ UNCHANGED dialogs
  <2>1. ~writing /\ ~clean_running
    BY <1>3 DEF Busy
  <2> QED
    BY <1>1, <1>3, <2>1, ClosingKeepsGuiIInv DEF devices
<1> QED
  BY <1>2, <1>3 DEF CloseWindow

LEMMA ElevateKeepsGuiIInv == GuiIInv /\ Elevate => GuiIInv'
<1> SUFFICES ASSUME GuiIInv, Elevate PROVE GuiIInv'
  OBVIOUS
<1>1. UNCHANGED <<devices, lost, busy_flags, source_ready, elevated, result_visible, list, options,
                  buttons, green, timer, queue, worker, jobs>>
      /\ ~elevated
  BY DEF Elevate, buttons
<1>2. CASE Open(Notice({"clean"})) /\ UNCHANGED closed
  <2>1. Notice({"clean"}) \in Dialog /\ ~Asks(Notice({"clean"}))
    BY NoticeAsksNothing DEF Reasons
  <2> QED
    BY <1>1, <1>2, <2>1, OpeningKeepsGuiIInv DEF devices
<1>3. CASE closed' = TRUE /\ UNCHANGED dialogs
  <2>1. ~writing /\ ~clean_running
    BY <1>1 DEF GuiIInv, ClosedInv
  <2> QED
    BY <1>1, <1>3, <2>1, ClosingKeepsGuiIInv DEF devices
<1> QED
  BY <1>2, <1>3 DEF Elevate

LEMMA PlugKeepsGuiIInv == GuiIInv /\ Plug => GuiIInv'
<1> SUFFICES ASSUME GuiIInv, Plug PROVE GuiIInv'
  OBVIOUS
<1>1. UNCHANGED <<clicks, lost, busy_flags, source_ready, elevated, result_visible, list, options,
                  buttons, green, timer, queue, dialogs, closed, worker, jobs>>
      /\ present' \in [1..Numbers -> Disks \cup {Missing}]
  BY DEF Plug, GuiIInv, TypeOK
<1>2. TypeOK' /\ ListInv'
  BY <1>1 DEF GuiIInv, TypeOK, ListInv, busy_flags, list, options, buttons, jobs
<1>3. WorkInv' /\ Waiting' = Waiting
  BY <1>1, QuietWork DEF GuiIInv
<1>4. DialogInv' /\ ClosedInv' /\ ControlInv' /\ AsksLess(dialogs', dialogs)
  BY <1>1, NothingOpened DEF buttons
<1>5. JobInv' /\ GreenInv'
  BY <1>1, <1>3, <1>4, QuietJob, QuietGreen DEF busy_flags, jobs, list
<1> QED
  BY <1>2, <1>3, <1>4, <1>5 DEF GuiIInv

-----------------------------------------------------------------------------
(* Plan, confirmation and write.                                             *)

LEMMA NewJobIsAJob ==
  ASSUME GuiIInv, selected # 0
  PROVE  NewJob \in Job /\ NewJob.target \in Entries
<1>1. targets[selected] \in Entries
  BY DiskAssumption DEF GuiIInv, TypeOK, ListInv
<1>2. dismount \in BOOLEAN /\ verify \in {"full", "none"}
  BY DEF GuiIInv, TypeOK, ListInv
<1> QED
  BY <1>1, <1>2 DEF NewJob, Job

\* Without an asking dialog, JobInv speaks of the workers' jobs only.
LEMMA UnaskedJob ==
  ASSUME \A i \in DOMAIN dialogs' : ~Asks(dialogs'[i]), job' \in Job, clean_job' \in CleanJob,
         planning' => job'.target \in Entries,
         writing' => job'.shown = job'.target /\ job'.target \in Entries,
         worker'["write"] = "acting" => Ident[job'.disk] = Ident[job'.target.disk],
         clean_running' => clean_job'.target \in Entries
  PROVE  JobInv'
BY DEF JobInv, Asks

LEMMA BeginPlanKeepsGuiIInv == GuiIInv /\ BeginPlan => GuiIInv'
<1> SUFFICES ASSUME GuiIInv, BeginPlan PROVE GuiIInv'
  OBVIOUS
<1>1. UNCHANGED <<devices, lost, scanning, source_hashing, writing, clean_running, source_ready,
                  elevated, list, options, timer, queue, closed, scan_job, source_ok,
                  clean_job, proven>>
      /\ job' = NewJob /\ selected # 0 /\ ~Busy /\ elevated
      /\ dialogs = <<>>
  BY DEF BeginPlan, Click
<1>2. job' \in Job /\ job'.target \in Entries
  BY <1>1, NewJobIsAJob
<1>3. ~scanning /\ ~source_hashing /\ ~planning /\ ~writing
  BY <1>1 DEF Busy
<1>4. worker["write"] = "idle" /\ "write" \notin Waiting
  BY <1>3 DEF GuiIInv, WorkInv, InHand, Begun, Workers
<1>5. ListInv'
  BY <1>1 DEF GuiIInv, ListInv, list, options
<1>6. {job', clean_job'} \subseteq [target : Entries \cup {NoEntry}] \cup Job \cup CleanJob
      /\ job'.target \in Entries \cup {NoEntry} /\ clean_job' = clean_job
  BY <1>1, <1>2 DEF GuiIInv, JobInv
<1>7. CASE UNCHANGED <<planning, worker>>
           /\ \E n \in Dialog : ~Asks(n) /\ dialogs' = <<n>> \o dialogs
           /\ {result_visible', green', controls_enabled', write_enabled', clean_enabled'}
                \subseteq BOOLEAN
           /\ (green' => green) /\ (controls_enabled' \/ UNCHANGED controls_enabled)
  <2>1. WorkInv' /\ Waiting' = Waiting
    BY <1>1, <1>7, QuietWork DEF GuiIInv, busy_flags
  <2>2. DialogInv' /\ ClosedInv' /\ ControlInv' /\ AsksLess(dialogs', dialogs)
    BY <1>1, <1>7, QuietDialogs DEF busy_flags
  <2>3. TypeOK'
    BY <1>1, <1>6, <1>7 DEF GuiIInv, TypeOK, devices, list, options
  <2>4. JobInv'
    <3>1. \A i \in DOMAIN dialogs' : ~Asks(dialogs'[i])
      BY <1>1, <2>2 DEF AsksLess
    <3> QED
      BY <1>1, <1>2, <1>3, <1>4, <1>7, <3>1, UnaskedJob DEF GuiIInv, JobInv
  <2>5. GreenInv'
    BY <1>1, <1>4, <1>7, <2>1 DEF GuiIInv, GreenInv
  <2> QED
    BY <1>5, <2>1, <2>2, <2>3, <2>4, <2>5 DEF GuiIInv
<1>8. CASE /\ planning' = TRUE /\ result_visible' = FALSE /\ green' = FALSE
           /\ worker' = [worker EXCEPT !["plan"] = "running"]
           /\ Disable /\ UpdateClean
           /\ UNCHANGED dialogs
  <2>1. WorkInv' /\ Waiting' = Waiting /\ worker' \in [Workers -> {"idle", "running", "acting"}]
    BY <1>1, <1>3, <1>8, StartedWork DEF GuiIInv, Begun, Workers
  <2>2. worker'["write"] = "idle" /\ worker'["clean"] = worker["clean"]
    BY <1>4, <1>8 DEF GuiIInv, TypeOK, Workers
  <2>3. \A i \in DOMAIN dialogs' : ~Asks(dialogs'[i])
    BY <1>1, <1>8
  <2>4. DialogInv' /\ ClosedInv' /\ ControlInv'
    <3>1. DialogInv'
      BY <1>1, <1>3, <1>8, <2>3 DEF GuiIInv, DialogInv, Asked, Asks
    <3>2. ClosedInv'
      BY <1>1, <1>3, <1>8, <2>3 DEF GuiIInv, ClosedInv, Asked
    <3>3. ControlInv'
      BY <1>8 DEF ControlInv, Busy
    <3> QED
      BY <3>1, <3>2, <3>3
  <2>5. clean_enabled' \in BOOLEAN
    BY <1>8 DEF UpdateClean, CleanReady
  <2>6. TypeOK'
    BY <1>1, <1>6, <1>8, <2>1, <2>5 DEF GuiIInv, TypeOK, devices, list, options, Disable
  <2>7. JobInv' /\ GreenInv'
    <3>1. JobInv'
      BY <1>1, <1>2, <1>3, <2>2, <2>3, UnaskedJob DEF GuiIInv, JobInv
    <3>2. GreenInv'
      BY <1>1, <1>4, <1>8, <2>1 DEF GuiIInv, GreenInv
    <3> QED
      BY <3>1, <3>2
  <2> QED
    BY <1>5, <2>1, <2>4, <2>6, <2>7 DEF GuiIInv
<1>9. CASE /\ Open(Notice({"clean"}))
           /\ UNCHANGED <<planning, worker, result_visible, green, buttons>>
  <2>1. Notice({"clean"}) \in Dialog /\ ~Asks(Notice({"clean"}))
    BY NoticeAsksNothing DEF Reasons
  <2>2. {result_visible', green', controls_enabled', write_enabled', clean_enabled'}
          \subseteq BOOLEAN
    BY <1>9 DEF buttons, GuiIInv, TypeOK
  <2> QED
    BY <1>7, <1>9, <2>1, <2>2 DEF Open, buttons
<1>10. CASE /\ result_visible' = FALSE /\ green' = FALSE
            /\ Reenable /\ write_enabled' = FALSE
            /\ Open(Notice({"ready", "status", "clean"}))
            /\ UNCHANGED <<planning, worker, clean_enabled>>
  <2>1. /\ Notice({"ready", "status", "clean"}) \in Dialog
        /\ ~Asks(Notice({"ready", "status", "clean"}))
    BY NoticeAsksNothing DEF Reasons
  <2>2. /\ {result_visible', green', controls_enabled', write_enabled', clean_enabled'}
             \subseteq BOOLEAN
        /\ controls_enabled' = TRUE
    BY <1>10 DEF Reenable, GuiIInv, TypeOK
  <2> QED
    BY <1>7, <1>10, <2>1, <2>2 DEF Open
<1> QED
  BY <1>8, <1>9, <1>10 DEF BeginPlan

LEMMA PlanDoneKeepsGuiIInv == GuiIInv /\ PlanDone => GuiIInv'
<1> SUFFICES ASSUME GuiIInv, PlanDone PROVE GuiIInv'
  OBVIOUS
<1>1. UNCHANGED <<world, busy_flags, source_ready, elevated, result_visible, list, options,
                  buttons, green, timer, dialogs, closed, scan_job, source_ok, clean_job, proven>>
      /\ worker["plan"] = "running"
  BY DEF PlanDone
<1>2. PICK ok \in BOOLEAN : job' = [job EXCEPT !.ok = ok]
  BY DEF PlanDone
<1>3. /\ WorkInv' /\ queue' \in Seq(Workers) /\ Waiting' \subseteq Waiting \cup {"plan"}
      /\ worker' \in [Workers -> {"idle", "running", "acting"}]
  BY <1>1, EndedWork DEF PlanDone, GuiIInv, Workers
<1>4. planning /\ ~writing
  BY <1>1 DEF GuiIInv, WorkInv, InHand, DialogInv, Begun, Workers
<1>5. worker["write"] = "idle" /\ "write" \notin Waiting
  BY <1>4 DEF GuiIInv, WorkInv, InHand, Begun, Workers
<1>6. worker'["write"] = "idle" /\ worker'["clean"] = worker["clean"]
  BY <1>5 DEF GuiIInv, TypeOK, Workers, PlanDone
<1>7. job' \in Job /\ job'.target = job.target
  BY <1>2 DEF GuiIInv, JobInv, Job
<1>8. TypeOK' /\ ListInv'
  <2>1. job'.target \in Entries \cup {NoEntry}
    BY <1>7 DEF Job
  <2>2. TypeOK'
    BY <1>1, <1>3, <2>1 DEF GuiIInv, TypeOK, world, devices, busy_flags, list, options, buttons
  <2> QED
    BY <1>1, <2>2 DEF GuiIInv, ListInv, list, options
<1>9. DialogInv' /\ ClosedInv' /\ ControlInv' /\ AsksLess(dialogs', dialogs)
  BY <1>1, NothingOpened DEF buttons
<1>10. JobInv'
  <2>1. \A i \in DOMAIN dialogs' : ~Asks(dialogs'[i])
    BY <1>1, <1>4 DEF GuiIInv, DialogInv, Asked
  <2> QED
    BY <1>1, <1>4, <1>6, <1>7, <2>1, UnaskedJob DEF GuiIInv, JobInv, busy_flags
<1>11. GreenInv'
  BY <1>1, <1>3, <1>5, <1>6 DEF GuiIInv, GreenInv
<1> QED
  BY <1>3, <1>8, <1>9, <1>10, <1>11 DEF GuiIInv

LEMMA FinishPlanKeepsGuiIInv == GuiIInv /\ FinishPlan => GuiIInv'
<1> SUFFICES ASSUME GuiIInv, FinishPlan PROVE GuiIInv'
  OBVIOUS
<1>1. UNCHANGED <<world, lost, scanning, source_hashing, writing, clean_running, source_ready,
                  elevated, result_visible, list, options, write_enabled, clean_enabled, timer,
                  closed, worker, jobs>>
      /\ planning' = FALSE
  BY DEF FinishPlan
<1>2. WorkInv' /\ queue' \in Seq(Workers) /\ Waiting' = Waiting \ {"plan"} /\ planning
  BY <1>1, ReceivedWork DEF FinishPlan, GuiIInv, Workers, Begun
<1>3. ~writing /\ elevated /\ job.target \in Entries
  BY <1>2 DEF GuiIInv, DialogInv, ClosedInv, JobInv
<1>4. dialogs \in Seq(Dialog) /\ \A i \in DOMAIN dialogs : ~Asks(dialogs[i])
  BY <1>2 DEF GuiIInv, DialogInv, Asked
<1>5. {green', controls_enabled'} \subseteq BOOLEAN /\ (green' => green)
  BY DEF FinishPlan, Reenable, GuiIInv, TypeOK
<1>6. TypeOK' /\ ListInv'
  BY <1>1, <1>2, <1>5 DEF GuiIInv, TypeOK, ListInv, world, devices, list, options, jobs
<1>7. GreenInv'
  BY <1>1, <1>2, <1>5, QuietGreen DEF jobs
<1>8. CASE Open(Confirm("plan", 0, job.target)) /\ UNCHANGED <<controls_enabled, green>>
  <2> DEFINE d == Confirm("plan", 0, job.target)
  <2>1. d \in Dialog /\ d.kind = "plan" /\ d.shown = job.target
    BY <1>3, DiskAssumption DEF Confirm, Dialog
  <2>2. dialogs' = <<d>> \o dialogs
    BY <1>8 DEF Open
  <2> HIDE DEF d
  <2>3. /\ dialogs' \in Seq(Dialog) /\ OneAsks(dialogs')
        /\ \A i \in DOMAIN dialogs' : Asks(dialogs'[i]) => dialogs'[i] = d
        /\ 1 \in DOMAIN dialogs' /\ dialogs'[1] = d
    <3>1. NoneAsks(dialogs)
      BY <1>4 DEF NoneAsks
    <3>2. dialogs' \in Seq(Dialog) /\ OneAsks(dialogs') /\ FirstAsks(dialogs', d)
      BY <1>4, <2>1, <2>2, <3>1, PushQuestion
    <3> QED
      BY <3>2 DEF FirstAsks
  <2>4. DialogInv'
    BY <1>1, <1>3, <2>1, <2>3 DEF DialogInv, OneAsks, Asks
  <2>5. ClosedInv' /\ ControlInv'
    BY <1>1, <1>3, <2>1, <2>3 DEF GuiIInv, ClosedInv, ControlInv
  <2>6. JobInv'
    BY <1>1, <1>3, <2>1, <2>3 DEF GuiIInv, JobInv, Asks, jobs
  <2> QED
    BY <1>2, <1>6, <1>7, <2>4, <2>5, <2>6 DEF GuiIInv
<1>9. CASE Reenable /\ green' = FALSE /\ Open(Notice({"ready", "clean"}))
  <2>1. Notice({"ready", "clean"}) \in Dialog /\ ~Asks(Notice({"ready", "clean"}))
    BY NoticeAsksNothing DEF Reasons
  <2>2. controls_enabled' /\ dialogs' = <<Notice({"ready", "clean"})>> \o dialogs
    BY <1>9 DEF Reenable, Open
  <2>3. DialogInv' /\ ClosedInv' /\ ControlInv' /\ AsksLess(dialogs', dialogs)
    BY <1>1, <2>1, <2>2, QuietDialogs
  <2>4. \A i \in DOMAIN dialogs' : ~Asks(dialogs'[i])
    BY <1>4, <2>3 DEF AsksLess
  <2>5. JobInv'
    BY <1>1, <2>4, UnaskedJob DEF GuiIInv, JobInv, jobs
  <2> QED
    BY <1>2, <1>6, <1>7, <2>3, <2>5 DEF GuiIInv
<1> QED
  BY <1>8, <1>9 DEF FinishPlan

\* A question is answered: none is left.
LEMMA Answered ==
  ASSUME GuiIInv, dialogs # <<>>, Asks(Head(dialogs)), NEW n \in Dialog, ~Asks(n),
         dialogs' = Tail(dialogs) \/ dialogs' = <<n>> \o Tail(dialogs)
  PROVE  /\ dialogs' \in Seq(Dialog) /\ \A i \in DOMAIN dialogs' : ~Asks(dialogs'[i])
         /\ ~planning /\ ~writing /\ elevated
         /\ Head(dialogs) \in Dialog /\ 1 \in DOMAIN dialogs /\ dialogs[1] = Head(dialogs)
<1>1. dialogs \in Seq(Dialog) /\ OneAsks(dialogs)
  BY DEF GuiIInv, DialogInv, OneAsks
<1>2. /\ Tail(dialogs) \in Seq(Dialog) /\ OneAsks(Tail(dialogs))
      /\ \A i \in DOMAIN Tail(dialogs) : ~Asks(Tail(dialogs)[i])
      /\ Head(dialogs) \in Dialog /\ 1 \in DOMAIN dialogs /\ dialogs[1] = Head(dialogs)
  BY <1>1, PopDialog
<1>3. dialogs' \in Seq(Dialog) /\ \A i \in DOMAIN dialogs' : ~Asks(dialogs'[i])
  <2>1. CASE dialogs' = Tail(dialogs)
    BY <1>2, <2>1
  <2>2. CASE dialogs' = <<n>> \o Tail(dialogs)
    BY <1>2, <2>2, PushNotice DEF AsksLess
  <2> QED
    BY <2>1, <2>2
<1>4. Asked
  BY <1>2 DEF Asked
<1> QED
  BY <1>2, <1>3, <1>4 DEF GuiIInv, DialogInv, ClosedInv

\* What DialogInv, ClosedInv and ControlInv say when nothing asks any more.
LEMMA Unasked ==
  ASSUME GuiIInv, dialogs' \in Seq(Dialog), \A i \in DOMAIN dialogs' : ~Asks(dialogs'[i]),
         elevated, ~closed, UNCHANGED <<elevated, closed>>,
         ~(planning' /\ writing'), controls_enabled' \/ Busy' \/ clean_running'
  PROVE  DialogInv' /\ ClosedInv' /\ ControlInv'
<1>1. DialogInv'
  BY DEF DialogInv, Asked, Asks
<1>2. ClosedInv'
  BY DEF ClosedInv
<1>3. ControlInv'
  BY DEF ControlInv
<1> QED
  BY <1>1, <1>2, <1>3

LEMMA ConfirmPlanKeepsGuiIInv == GuiIInv /\ ConfirmPlan => GuiIInv'
<1> SUFFICES ASSUME GuiIInv, ConfirmPlan PROVE GuiIInv'
  OBVIOUS
<1> DEFINE n == Notice({"ready", "status", "clean"})
<1>1. n \in Dialog /\ ~Asks(n)
  BY NoticeAsksNothing DEF Reasons
<1>2. UNCHANGED <<world, lost, scanning, source_hashing, planning, clean_running, source_ready,
                  elevated, result_visible, list, options, timer, queue, closed, scan_job,
                  source_ok, clean_job>>
      /\ green' = FALSE /\ ~closed /\ clean_enabled' \in BOOLEAN
      /\ dialogs # <<>> /\ Asks(Head(dialogs)) /\ Head(dialogs).kind = "plan"
      /\ (dialogs' = Tail(dialogs) \/ dialogs' = <<n>> \o Tail(dialogs))
  BY DEF ConfirmPlan, UpdateClean, CleanReady, Asks
<1> HIDE DEF n
<1>3. /\ dialogs' \in Seq(Dialog) /\ \A i \in DOMAIN dialogs' : ~Asks(dialogs'[i])
      /\ ~planning /\ ~writing /\ elevated
      /\ Head(dialogs) \in Dialog /\ 1 \in DOMAIN dialogs /\ dialogs[1] = Head(dialogs)
  BY <1>1, <1>2, Answered
<1>4. Head(dialogs).shown = job.target /\ job.target \in Entries
  BY <1>2, <1>3 DEF GuiIInv, JobInv
<1>5. worker["write"] = "idle" /\ "write" \notin Waiting
  BY <1>3 DEF GuiIInv, WorkInv, InHand, Begun, Workers
<1>6. ListInv'
  BY <1>2 DEF GuiIInv, ListInv, list, options
<1>7. CASE /\ UNCHANGED <<writing, worker, job, proven>>
           /\ Reenable /\ write_enabled' \in BOOLEAN
  <2>1. WorkInv' /\ Waiting' = Waiting
    BY <1>2, <1>7, QuietWork DEF GuiIInv, busy_flags
  <2>2. TypeOK'
    BY <1>2, <1>7 DEF GuiIInv, TypeOK, world, devices, list, options, Reenable
  <2>3. DialogInv' /\ ClosedInv' /\ ControlInv'
    <3>1. controls_enabled' /\ ~(planning' /\ writing')
      BY <1>2, <1>3, <1>7 DEF Reenable
    <3> QED
      BY <1>2, <1>3, <3>1, Unasked
  <2>4. JobInv' /\ GreenInv'
    <3>1. JobInv'
      BY <1>2, <1>3, <1>5, <1>7, UnaskedJob DEF GuiIInv, JobInv
    <3> QED
      BY <1>2, <1>5, <1>7, <2>1, <3>1 DEF GuiIInv, GreenInv
  <2> QED
    BY <1>6, <2>1, <2>2, <2>3, <2>4 DEF GuiIInv
<1>8. CASE /\ writing' = TRUE
           /\ worker' = [worker EXCEPT !["write"] = "running"]
           /\ job' = [job EXCEPT !.shown = Head(dialogs).shown]
           /\ proven' = proven \ {"write"}
           /\ UNCHANGED <<controls_enabled, write_enabled>>
  <2>1. WorkInv' /\ Waiting' = Waiting /\ worker' \in [Workers -> {"idle", "running", "acting"}]
    BY <1>2, <1>3, <1>8, StartedWork DEF GuiIInv, Begun, Workers
  <2>2. worker'["write"] = "running" /\ worker'["clean"] = worker["clean"]
    BY <1>8 DEF GuiIInv, TypeOK, Workers
  <2>3. job' \in Job /\ job'.shown = job'.target /\ job'.target = job.target
    BY <1>4, <1>8 DEF GuiIInv, JobInv, Job
  <2>4. TypeOK'
    BY <1>2, <1>4, <1>8, <2>1, <2>3 DEF GuiIInv, TypeOK, world, devices, list, options
  <2>5. DialogInv' /\ ClosedInv' /\ ControlInv'
    <3>1. Busy' /\ ~(planning' /\ writing')
      BY <1>2, <1>3, <1>8 DEF Busy
    <3> QED
      BY <1>2, <1>3, <3>1, Unasked
  <2>6. JobInv'
    BY <1>2, <1>3, <1>4, <2>2, <2>3, UnaskedJob DEF GuiIInv, JobInv
  <2>7. GreenInv'
    BY <1>2, <1>5, <1>8, <2>1 DEF GuiIInv, GreenInv
  <2> QED
    BY <1>6, <2>1, <2>4, <2>5, <2>6, <2>7 DEF GuiIInv
<1>9. UpdateReady => write_enabled' \in BOOLEAN
  BY DEF UpdateReady, Ready
<1>10. write_enabled \in BOOLEAN
  BY DEF GuiIInv, TypeOK
<1> QED
  BY <1>7, <1>8, <1>9, <1>10 DEF ConfirmPlan

LEMMA WriteOpensKeepsGuiIInv == GuiIInv /\ WriteOpens => GuiIInv'
<1> SUFFICES ASSUME GuiIInv, WriteOpens PROVE GuiIInv'
  OBVIOUS
<1>1. UNCHANGED <<world, lost, busy_flags, source_ready, elevated, result_visible, list, options,
                  buttons, green, timer, queue, dialogs, closed, scan_job, source_ok,
                  clean_job, proven>>
      /\ worker["write"] = "running" /\ worker' = [worker EXCEPT !["write"] = "acting"]
      /\ job' = [job EXCEPT !.disk = present[job.target.path]]
      /\ Ident[present[job.target.path]] = Ident[job.target.disk]
  BY DEF WriteOpens, JobTarget, Allowed
<1>2. writing /\ "write" \notin Waiting
  BY <1>1 DEF GuiIInv, WorkInv, InHand, Begun, Workers
<1>3. job \in Job /\ job.shown = job.target /\ job.target \in Entries
  BY <1>2 DEF GuiIInv, JobInv
<1>4. present[job.target.path] \in Disks \cup {Missing}
  BY <1>3 DEF Entries, GuiIInv, TypeOK
<1>5. /\ job' \in Job /\ job'.target = job.target /\ job'.shown = job.shown
      /\ job'.disk = present[job.target.path]
  BY <1>1, <1>3, <1>4 DEF Job
<1>6. WorkInv' /\ Waiting' = Waiting /\ worker' \in [Workers -> {"idle", "running", "acting"}]
  BY <1>1, ActingWork DEF GuiIInv, Workers
<1>7. worker'["clean"] = worker["clean"]
  BY <1>1 DEF GuiIInv, TypeOK, Workers
<1>8. TypeOK' /\ ListInv'
  <2>1. job'.target \in Entries \cup {NoEntry}
    BY <1>3, <1>5
  <2> QED
    BY <1>1, <1>6, <2>1 DEF GuiIInv, TypeOK, ListInv, world, devices, busy_flags, list, options,
                            buttons
<1>9. DialogInv' /\ ClosedInv' /\ ControlInv' /\ AsksLess(dialogs', dialogs)
  BY <1>1, NothingOpened DEF buttons
<1>10. JobInv'
  <2>1. \A i \in DOMAIN dialogs' : ~Asks(dialogs'[i])
    BY <1>1, <1>2 DEF GuiIInv, DialogInv, Asked
  <2> QED
    BY <1>1, <1>3, <1>5, <2>1, UnaskedJob DEF GuiIInv, JobInv, busy_flags
<1>11. GreenInv'
  BY <1>1, <1>2, <1>6, <1>7 DEF GuiIInv, GreenInv
<1> QED
  BY <1>6, <1>8, <1>9, <1>10, <1>11 DEF GuiIInv

LEMMA WriteDoneKeepsGuiIInv == GuiIInv /\ WriteDone => GuiIInv'
<1> SUFFICES ASSUME GuiIInv, WriteDone PROVE GuiIInv'
  OBVIOUS
<1>1. UNCHANGED <<world, busy_flags, source_ready, elevated, result_visible, list, options,
                  buttons, green, timer, dialogs, closed, scan_job, source_ok, clean_job>>
      /\ worker["write"] # "idle"
  BY DEF WriteDone
<1>2. PICK ok \in BOOLEAN, reported \in BOOLEAN :
        /\ job' = [job EXCEPT !.ok = ok, !.reported = reported]
        /\ proven' = IF ok /\ reported /\ job.verify # "none" THEN proven \cup {"write"}
                     ELSE proven \ {"write"}
  BY DEF WriteDone
<1>3. /\ WorkInv' /\ queue' \in Seq(Workers) /\ Waiting' \subseteq Waiting \cup {"write"}
      /\ worker' \in [Workers -> {"idle", "running", "acting"}]
  BY <1>1, EndedWork DEF WriteDone, GuiIInv, Workers
<1>4. writing
  BY <1>1 DEF GuiIInv, WorkInv, InHand, Begun, Workers
<1>5. worker'["write"] = "idle" /\ worker'["clean"] = worker["clean"]
  BY DEF GuiIInv, TypeOK, Workers, WriteDone
<1>6. /\ job' \in Job /\ job'.target = job.target /\ job'.shown = job.shown
      /\ job'.ok = ok /\ job'.reported = reported /\ job'.verify = job.verify
  BY <1>2 DEF GuiIInv, JobInv, Job
<1>7. TypeOK' /\ ListInv'
  <2>1. job'.target \in Entries \cup {NoEntry}
    BY <1>6 DEF GuiIInv, TypeOK
  <2> QED
    BY <1>1, <1>3, <2>1 DEF GuiIInv, TypeOK, ListInv, world, devices, busy_flags, list, options,
                            buttons
<1>8. DialogInv' /\ ClosedInv' /\ ControlInv' /\ AsksLess(dialogs', dialogs)
  BY <1>1, NothingOpened DEF buttons
<1>9. JobInv'
  <2>1. \A i \in DOMAIN dialogs' : ~Asks(dialogs'[i])
    BY <1>1, <1>4 DEF GuiIInv, DialogInv, Asked
  <2> QED
    BY <1>1, <1>4, <1>5, <1>6, <2>1, UnaskedJob DEF GuiIInv, JobInv, busy_flags
<1>10. GreenInv'
  <2>1. "clean" \in proven' <=> "clean" \in proven
    BY <1>2
  <2>2. (~green') \/ ("clean" \in proven' /\ worker'["clean"] = "idle")
    BY <1>1, <1>5, <2>1 DEF GuiIInv, GreenInv
  <2>3. GreenWrite' => "write" \in proven'
    BY <1>2, <1>6 DEF GreenWrite
  <2>4. "clean" \in Waiting' => "clean" \in Waiting
    BY <1>3
  <2> QED
    BY <1>1, <2>1, <2>2, <2>3, <2>4 DEF GuiIInv, GreenInv
<1> QED
  BY <1>3, <1>7, <1>8, <1>9, <1>10 DEF GuiIInv

LEMMA FinishWriteKeepsGuiIInv == GuiIInv /\ FinishWrite => GuiIInv'
<1> SUFFICES ASSUME GuiIInv, FinishWrite PROVE GuiIInv'
  OBVIOUS
<1> DEFINE n == Notice({"clean"})
<1>1. n \in Dialog /\ ~Asks(n)
  BY NoticeAsksNothing DEF Reasons
<1>2. dialogs' = <<n>> \o dialogs
  BY DEF FinishWrite, Open
<1> HIDE DEF n
<1>3. UNCHANGED <<world, lost, scanning, source_hashing, planning, clean_running, source_ready,
                  elevated, list, options, clean_enabled, timer, closed, worker, jobs>>
      /\ writing' = FALSE /\ result_visible' = TRUE /\ controls_enabled' = TRUE
      /\ green' = GreenWrite /\ write_enabled' = Ready'
  BY DEF FinishWrite, Reenable, UpdateReady
<1>4. /\ WorkInv' /\ queue' \in Seq(Workers) /\ Waiting' = Waiting \ {"write"}
      /\ "write" \in Waiting /\ writing /\ worker["write"] = "idle"
  BY <1>3, ReceivedWork DEF FinishWrite, GuiIInv, Workers, Begun
<1>5. TypeOK' /\ ListInv'
  <2>1. GreenWrite \in BOOLEAN /\ Ready' \in BOOLEAN
    BY DEF GreenWrite, Ready
  <2> QED
    BY <1>3, <1>4, <2>1 DEF GuiIInv, TypeOK, ListInv, world, devices, list, options, jobs
<1>6. DialogInv' /\ ClosedInv' /\ ControlInv' /\ AsksLess(dialogs', dialogs)
  BY <1>1, <1>2, <1>3, QuietDialogs
<1>7. JobInv'
  <2>1. \A i \in DOMAIN dialogs' : ~Asks(dialogs'[i])
    BY <1>4, <1>6 DEF GuiIInv, DialogInv, Asked, AsksLess
  <2> QED
    BY <1>3, <2>1, UnaskedJob DEF GuiIInv, JobInv, jobs
<1>8. GreenInv'
  <2>1. green' => "write" \in proven' /\ worker'["write"] = "idle"
    BY <1>3, <1>4 DEF GuiIInv, GreenInv, jobs
  <2>2. "write" \notin Waiting' /\ ("clean" \in Waiting' => "clean" \in Waiting)
    BY <1>4
  <2> QED
    BY <1>3, <2>1, <2>2 DEF GuiIInv, GreenInv, jobs
<1> QED
  BY <1>4, <1>5, <1>6, <1>7, <1>8 DEF GuiIInv

-----------------------------------------------------------------------------
(* Clean.                                                                    *)

LEMMA BeginCleanKeepsGuiIInv == GuiIInv /\ BeginClean => GuiIInv'
<1> SUFFICES ASSUME GuiIInv, BeginClean PROVE GuiIInv'
  OBVIOUS
<1>1. UNCHANGED <<devices, lost, busy_flags, source_ready, elevated, result_visible, list, options,
                  buttons, green, timer, queue, closed, worker, jobs>>
      /\ selected # 0 /\ ~clean_running /\ ~Busy /\ elevated /\ ~closed /\ dialogs = <<>>
  BY DEF BeginClean, Click
<1>2. CASE Open(Notice({}))
  <2>1. Notice({}) \in Dialog /\ ~Asks(Notice({}))
    BY NoticeAsksNothing
  <2> QED
    BY <1>1, <1>2, <2>1, OpeningKeepsGuiIInv DEF devices
<1>3. CASE Open(Confirm("clean1", selected, targets[selected]))
  <2> DEFINE d == Confirm("clean1", selected, targets[selected])
  <2>1. selected \in 1..Numbers /\ selected \in 0..Numbers /\ targets[selected] \in Entries
    BY <1>1, DiskAssumption DEF GuiIInv, TypeOK, ListInv
  <2>2. /\ d \in Dialog /\ d.kind = "clean1" /\ d.index = selected
        /\ dialogs' = <<d>> \o dialogs
    BY <1>3, <2>1 DEF Confirm, Dialog, Open
  <2> HIDE DEF d
  <2>3. dialogs' \in Seq(Dialog) /\ OneAsks(dialogs') /\ FirstAsks(dialogs', d)
    <3>1. NoneAsks(dialogs) /\ dialogs \in Seq(Dialog)
      BY <1>1 DEF NoneAsks, GuiIInv, DialogInv
    <3> QED
      BY <2>2, <3>1, PushQuestion
  <2>4. ~planning /\ ~writing
    BY <1>1 DEF Busy
  <2>5. DialogInv'
    BY <1>1, <2>2, <2>3, <2>4 DEF DialogInv, OneAsks, FirstAsks, Asks, busy_flags
  <2>6. ClosedInv'
    BY <1>1, <2>4 DEF GuiIInv, ClosedInv, busy_flags
  <2>7. ControlInv'
    BY <1>1 DEF GuiIInv, ControlInv, busy_flags, buttons, Busy
  <2>8. JobInv'
    BY <1>1, <2>1, <2>2, <2>3 DEF GuiIInv, JobInv, FirstAsks, Asks, busy_flags, jobs, list
  <2>9. TypeOK' /\ ListInv'
    BY <1>1 DEF GuiIInv, TypeOK, ListInv, devices, busy_flags, list, options, buttons, jobs
  <2>10. WorkInv' /\ Waiting' = Waiting
    BY <1>1, QuietWork DEF GuiIInv
  <2>11. GreenInv'
    BY <1>1, <2>10, QuietGreen DEF jobs
  <2> QED
    BY <2>5, <2>6, <2>7, <2>8, <2>9, <2>10, <2>11 DEF GuiIInv
<1> QED
  BY <1>2, <1>3 DEF BeginClean

LEMMA ConfirmCleanOnceKeepsGuiIInv == GuiIInv /\ ConfirmCleanOnce => GuiIInv'
<1> SUFFICES ASSUME GuiIInv, ConfirmCleanOnce PROVE GuiIInv'
  OBVIOUS
<1>1. UNCHANGED <<world, lost, busy_flags, source_ready, elevated, result_visible, list, options,
                  buttons, timer, queue, closed, worker, jobs>>
      /\ ~closed /\ dialogs # <<>> /\ Head(dialogs).kind = "clean1" /\ Asks(Head(dialogs))
  BY DEF ConfirmCleanOnce, Asks
<1>2. green' \in BOOLEAN /\ (green' => green)
  <2>1. CASE green' = FALSE
    BY <2>1
  <2>2. CASE UNCHANGED green
    BY <2>2 DEF GuiIInv, TypeOK
  <2> QED
    BY <2>1, <2>2 DEF ConfirmCleanOnce
<1>3. dialogs \in Seq(Dialog) /\ OneAsks(dialogs)
  BY DEF GuiIInv, DialogInv, OneAsks
<1>4. /\ Tail(dialogs) \in Seq(Dialog) /\ NoneAsks(Tail(dialogs))
      /\ Head(dialogs) \in Dialog /\ 1 \in DOMAIN dialogs /\ dialogs[1] = Head(dialogs)
  BY <1>1, <1>3, PopDialog DEF NoneAsks
<1>5. Asked /\ ~planning /\ ~writing /\ elevated /\ ~clean_running
  <2>1. Asked
    BY <1>1, <1>4 DEF Asked
  <2> QED
    BY <1>1, <1>4, <2>1 DEF GuiIInv, DialogInv, ClosedInv
<1>6. /\ Head(dialogs).index \in 1..Numbers /\ targets[Head(dialogs).index] \in Entries
  BY <1>1, <1>4 DEF GuiIInv, JobInv
<1>7. TypeOK' /\ ListInv'
  BY <1>1, <1>2 DEF GuiIInv, TypeOK, ListInv, world, devices, busy_flags, list, options, buttons,
                    jobs
<1>8. WorkInv' /\ Waiting' = Waiting
  BY <1>1, QuietWork DEF GuiIInv
<1>9. GreenInv'
  BY <1>1, <1>2, <1>8, QuietGreen DEF jobs
<1>10. \A i \in DOMAIN dialogs : dialogs[i].kind # "plan"
  <2>1. \A i \in DOMAIN dialogs : dialogs[i].kind = "plan" => i = 1
    BY <1>1, <1>3, <1>4 DEF OneAsks, Asks
  <2> QED
    BY <1>1, <1>4, <2>1
<1>11. ClosedInv' /\ ControlInv'
  BY <1>1, <1>5, <1>10 DEF GuiIInv, ClosedInv, ControlInv, Busy, busy_flags, buttons
<1>12. CASE dialogs' = Tail(dialogs)
  <2>1. DialogInv'
    BY <1>1, <1>4, <1>5, <1>12 DEF DialogInv, NoneAsks, Asked, Asks, busy_flags
  <2>2. \A i \in DOMAIN dialogs' : ~Asks(dialogs'[i])
    BY <1>4, <1>12 DEF NoneAsks
  <2>3. JobInv'
    BY <1>1, <2>2, UnaskedJob DEF GuiIInv, JobInv, busy_flags, jobs
  <2> QED
    BY <1>7, <1>8, <1>9, <1>11, <2>1, <2>3 DEF GuiIInv
<1>13. CASE dialogs' = <<[Head(dialogs) EXCEPT !.kind = "clean2"]>> \o Tail(dialogs)
  <2> DEFINE d == [Head(dialogs) EXCEPT !.kind = "clean2"]
  <2>1. d \in Dialog /\ d.kind = "clean2" /\ d.index = Head(dialogs).index
    BY <1>1, <1>4 DEF Dialog
  <2> HIDE DEF d
  <2>2. dialogs' = <<d>> \o Tail(dialogs)
    BY <1>13 DEF d
  <2>3. dialogs' \in Seq(Dialog) /\ OneAsks(dialogs') /\ FirstAsks(dialogs', d)
    BY <1>4, <2>1, <2>2, PushQuestion
  <2>4. DialogInv'
    BY <1>1, <1>5, <2>1, <2>3 DEF DialogInv, OneAsks, FirstAsks, Asks, busy_flags
  <2>5. JobInv'
    BY <1>1, <1>5, <1>6, <2>1, <2>3 DEF GuiIInv, JobInv, FirstAsks, Asks, busy_flags, jobs, list
  <2> QED
    BY <1>7, <1>8, <1>9, <1>11, <2>4, <2>5 DEF GuiIInv
<1> QED
  BY <1>12, <1>13 DEF ConfirmCleanOnce

LEMMA ConfirmCleanTwiceKeepsGuiIInv == GuiIInv /\ ConfirmCleanTwice => GuiIInv'
<1> SUFFICES ASSUME GuiIInv, ConfirmCleanTwice PROVE GuiIInv'
  OBVIOUS
<1> DEFINE d == Head(dialogs)
           rest == Tail(dialogs)
           filled == [target |-> targets[d.index], shown |-> d.shown, ok |-> FALSE,
                      reported |-> FALSE, disk |-> Missing]
           none == Notice({})
           failed == Notice({"ready", "status"})
<1>1. UNCHANGED <<world, lost, scanning, source_hashing, planning, writing, source_ready, elevated,
                  list, options, queue, closed, scan_job, source_ok, job>>
      /\ ~closed /\ dialogs # <<>> /\ d.kind = "clean2" /\ Asks(d)
  BY DEF ConfirmCleanTwice, Asks
<1>2. /\ none \in Dialog /\ ~Asks(none) /\ failed \in Dialog /\ ~Asks(failed)
  BY NoticeAsksNothing DEF Reasons
<1>3. dialogs' = rest \/ dialogs' = <<none>> \o rest \/ dialogs' = <<failed>> \o rest
  BY DEF ConfirmCleanTwice
<1> HIDE DEF none, failed
<1>4. /\ dialogs' \in Seq(Dialog) /\ \A i \in DOMAIN dialogs' : ~Asks(dialogs'[i])
      /\ ~planning /\ ~writing /\ elevated
      /\ d \in Dialog /\ 1 \in DOMAIN dialogs /\ dialogs[1] = d
  BY <1>1, <1>2, <1>3, Answered
<1>5. ~clean_running /\ targets[d.index] \in Entries
  BY <1>1, <1>4 DEF GuiIInv, DialogInv, JobInv
<1>6. filled \in CleanJob /\ filled.target \in Entries
  <2>1. d.shown \in Entries \cup {NoEntry}
    BY <1>1, <1>4 DEF Dialog
  <2> QED
    BY <1>5, <2>1 DEF CleanJob
<1>7. worker["clean"] = "idle" /\ "clean" \notin Waiting
      /\ worker["write"] = "idle" /\ "write" \notin Waiting
  BY <1>4, <1>5 DEF GuiIInv, WorkInv, InHand, Begun, Workers
<1>8. ListInv'
  BY <1>1 DEF GuiIInv, ListInv, list, options
<1> HIDE DEF d, rest, filled
<1>9. CASE /\ UNCHANGED <<clean_running, worker, proven>>
           /\ clean_job' = clean_job \/ clean_job' = filled
           /\ {result_visible', timer', green', controls_enabled', write_enabled', clean_enabled'}
                \subseteq BOOLEAN
           /\ (green' => green) /\ (controls_enabled' \/ UNCHANGED controls_enabled)
  <2>1. WorkInv' /\ Waiting' = Waiting
    BY <1>1, <1>9, QuietWork DEF GuiIInv, busy_flags
  <2>2. clean_job' \in CleanJob /\ clean_job'.target \in Entries \cup {NoEntry}
    BY <1>6, <1>9 DEF GuiIInv, JobInv, TypeOK
  <2>3. TypeOK'
    BY <1>1, <1>9, <2>1, <2>2 DEF GuiIInv, TypeOK, world, devices, list, options
  <2>4. controls_enabled' \/ Busy' \/ clean_running'
    <3>1. CASE controls_enabled'
      BY <3>1
    <3>2. CASE UNCHANGED controls_enabled
      <4>1. \A i \in DOMAIN dialogs : dialogs[i].kind # "plan"
        <5>1. \A i \in DOMAIN dialogs : dialogs[i].kind = "plan" => i = 1
          BY <1>1, <1>4 DEF GuiIInv, DialogInv, Asks
        <5> QED
          BY <1>1, <1>4, <5>1
      <4>2. controls_enabled \/ Busy \/ clean_running
        BY <4>1 DEF GuiIInv, ControlInv
      <4> QED
        BY <1>1, <1>9, <3>2, <4>2 DEF Busy
    <3> QED
      BY <1>9, <3>1, <3>2
  <2>5. DialogInv' /\ ClosedInv' /\ ControlInv'
    BY <1>1, <1>4, <2>4, Unasked
  <2>6. JobInv'
    BY <1>1, <1>4, <1>5, <1>7, <1>9, <2>2, UnaskedJob DEF GuiIInv, JobInv
  <2>7. GreenInv'
    BY <1>1, <1>7, <1>9, <2>1 DEF GuiIInv, GreenInv
  <2> QED
    BY <1>8, <2>1, <2>3, <2>5, <2>6, <2>7 DEF GuiIInv
<1>10. CASE /\ clean_job' = filled
            /\ clean_running' = TRUE /\ result_visible' = FALSE /\ timer' = FALSE
            /\ worker' = [worker EXCEPT !["clean"] = "running"]
            /\ Disable /\ clean_enabled' = FALSE /\ green' = FALSE
            /\ proven' = proven \ {"clean"}
  <2>1. WorkInv' /\ Waiting' = Waiting /\ worker' \in [Workers -> {"idle", "running", "acting"}]
    BY <1>1, <1>5, <1>10, StartedWork DEF GuiIInv, Begun, Workers
  <2>2. worker'["write"] = "idle"
    BY <1>7, <1>10 DEF GuiIInv, TypeOK, Workers
  <2>3. clean_job' \in CleanJob /\ clean_job'.target \in Entries
    BY <1>6, <1>10
  <2>4. TypeOK'
    BY <1>1, <1>10, <2>1, <2>3 DEF GuiIInv, TypeOK, world, devices, list, options, Disable
  <2>5. DialogInv' /\ ClosedInv' /\ ControlInv'
    <3>1. clean_running'
      BY <1>10
    <3> QED
      BY <1>1, <1>4, <3>1, Unasked
  <2>6. JobInv'
    BY <1>1, <1>4, <2>2, <2>3, UnaskedJob DEF GuiIInv, JobInv
  <2>7. GreenInv'
    BY <1>7, <1>10, <2>1 DEF GreenInv
  <2> QED
    BY <1>8, <2>1, <2>4, <2>5, <2>6, <2>7 DEF GuiIInv
<1>11. UpdateClean => clean_enabled' \in BOOLEAN
  BY DEF UpdateClean, CleanReady
<1>12. {result_visible, timer, green, controls_enabled, write_enabled, clean_enabled}
         \subseteq BOOLEAN
  BY DEF GuiIInv, TypeOK
<1>13. CASE /\ green' = FALSE
            /\ UNCHANGED <<clean_job, clean_running, result_visible, timer, worker, buttons,
                           proven>>
  BY <1>9, <1>12, <1>13 DEF buttons
<1>14. CASE /\ clean_job' = filled
            /\ UNCHANGED <<clean_running, result_visible, timer, worker, green, buttons, proven>>
  BY <1>9, <1>12, <1>14 DEF buttons
<1>15. CASE /\ clean_job' = filled
            /\ result_visible' = FALSE /\ timer' = FALSE
            /\ UNCHANGED <<clean_running, worker, proven>>
            /\ Reenable /\ write_enabled' = FALSE /\ UpdateClean /\ green' = FALSE
  <2>1. /\ {result_visible', timer', green', controls_enabled', write_enabled', clean_enabled'}
             \subseteq BOOLEAN
        /\ controls_enabled'
    BY <1>11, <1>15 DEF Reenable
  <2>2. ~green'
    BY <1>15
  <2> QED
    BY <1>9, <1>15, <2>1, <2>2
<1> QED
  BY <1>10, <1>13, <1>14, <1>15 DEF ConfirmCleanTwice, d, filled

LEMMA CleanOpensKeepsGuiIInv == GuiIInv /\ CleanOpens => GuiIInv'
<1> SUFFICES ASSUME GuiIInv, CleanOpens PROVE GuiIInv'
  OBVIOUS
<1>1. UNCHANGED <<world, lost, busy_flags, source_ready, elevated, result_visible, list, options,
                  buttons, green, timer, queue, dialogs, closed, scan_job, source_ok, job, proven>>
      /\ worker["clean"] = "running" /\ worker' = [worker EXCEPT !["clean"] = "acting"]
      /\ clean_job' = [clean_job EXCEPT !.disk = present[clean_job.target.path]]
  BY DEF CleanOpens
<1>2. clean_running /\ "clean" \notin Waiting
  BY <1>1 DEF GuiIInv, WorkInv, InHand, Begun, Workers
<1>3. clean_job \in CleanJob /\ clean_job.target \in Entries
  BY <1>2 DEF GuiIInv, JobInv
<1>4. present[clean_job.target.path] \in Disks \cup {Missing}
  BY <1>3 DEF Entries, GuiIInv, TypeOK
<1>5. clean_job' \in CleanJob /\ clean_job'.target = clean_job.target
  BY <1>1, <1>3, <1>4 DEF CleanJob
<1>6. WorkInv' /\ Waiting' = Waiting /\ worker' \in [Workers -> {"idle", "running", "acting"}]
  BY <1>1, ActingWork DEF GuiIInv, Workers
<1>7. worker'["write"] = worker["write"] /\ worker["clean"] # "idle"
  BY <1>1 DEF GuiIInv, TypeOK, Workers
<1>8. TypeOK' /\ ListInv'
  <2>1. clean_job'.target \in Entries \cup {NoEntry}
    BY <1>3, <1>5
  <2> QED
    BY <1>1, <1>6, <2>1 DEF GuiIInv, TypeOK, ListInv, world, devices, busy_flags, list, options,
                            buttons
<1>9. DialogInv' /\ ClosedInv' /\ ControlInv' /\ AsksLess(dialogs', dialogs)
  BY <1>1, NothingOpened DEF buttons
<1>10. JobInv'
  BY <1>1, <1>3, <1>5, <1>7 DEF GuiIInv, JobInv, busy_flags, list
<1>11. GreenInv'
  BY <1>1, <1>2, <1>6, <1>7 DEF GuiIInv, GreenInv, GreenWrite
<1> QED
  BY <1>6, <1>8, <1>9, <1>10, <1>11 DEF GuiIInv

LEMMA CleanDoneKeepsGuiIInv == GuiIInv /\ CleanDone => GuiIInv'
<1> SUFFICES ASSUME GuiIInv, CleanDone PROVE GuiIInv'
  OBVIOUS
<1>1. UNCHANGED <<world, busy_flags, source_ready, elevated, result_visible, list, options,
                  buttons, green, timer, dialogs, closed, scan_job, source_ok, job>>
      /\ worker["clean"] # "idle"
  BY DEF CleanDone
<1>2. PICK ok \in BOOLEAN, reported \in BOOLEAN :
        /\ clean_job' = [clean_job EXCEPT !.ok = ok, !.reported = reported]
        /\ proven' = IF ok /\ reported THEN proven \cup {"clean"} ELSE proven \ {"clean"}
  BY DEF CleanDone
<1>3. /\ WorkInv' /\ queue' \in Seq(Workers) /\ Waiting' \subseteq Waiting \cup {"clean"}
      /\ worker' \in [Workers -> {"idle", "running", "acting"}]
  BY <1>1, EndedWork DEF CleanDone, GuiIInv, Workers
<1>4. worker'["clean"] = "idle" /\ worker'["write"] = worker["write"]
  BY DEF GuiIInv, TypeOK, Workers, CleanDone
<1>5. /\ clean_job' \in CleanJob /\ clean_job'.target = clean_job.target
      /\ clean_job'.ok = ok /\ clean_job'.reported = reported
  BY <1>2 DEF GuiIInv, JobInv, CleanJob
<1>6. TypeOK' /\ ListInv'
  <2>1. clean_job'.target \in Entries \cup {NoEntry}
    BY <1>5 DEF GuiIInv, TypeOK
  <2> QED
    BY <1>1, <1>3, <2>1 DEF GuiIInv, TypeOK, ListInv, world, devices, busy_flags, list, options,
                            buttons
<1>7. DialogInv' /\ ClosedInv' /\ ControlInv' /\ AsksLess(dialogs', dialogs)
  BY <1>1, NothingOpened DEF buttons
<1>8. JobInv'
  BY <1>1, <1>4, <1>5 DEF GuiIInv, JobInv, busy_flags, list
<1>9. GreenInv'
  <2>1. "write" \in proven' <=> "write" \in proven
    BY <1>2
  <2>2. (~green') \/ ("write" \in proven' /\ worker'["write"] = "idle")
    BY <1>1, <1>4, <2>1 DEF GuiIInv, GreenInv
  <2>3. clean_job'.ok /\ clean_job'.reported => "clean" \in proven'
    BY <1>2, <1>5
  <2>4. "write" \in Waiting' => "write" \in Waiting
    BY <1>3
  <2> QED
    BY <1>1, <2>1, <2>2, <2>3, <2>4 DEF GuiIInv, GreenInv, GreenWrite
<1> QED
  BY <1>3, <1>6, <1>7, <1>8, <1>9 DEF GuiIInv

LEMMA FinishCleanKeepsGuiIInv == GuiIInv /\ FinishClean => GuiIInv'
<1> SUFFICES ASSUME GuiIInv, FinishClean PROVE GuiIInv'
  OBVIOUS
<1>1. UNCHANGED <<world, lost, scanning, source_hashing, planning, writing, source_ready, elevated,
                  list, options, write_enabled, clean_enabled, timer, closed, worker, jobs>>
      /\ clean_running' = FALSE /\ result_visible' = TRUE /\ controls_enabled' = TRUE
      /\ green' = (clean_job.ok /\ clean_job.reported)
  BY DEF FinishClean, Reenable
<1>2. PICK n \in Dialog : ~Asks(n) /\ dialogs' = <<n>> \o dialogs
  <2>1. CASE clean_job.ok
    <3>1. Notice({"rescan"}) \in Dialog /\ ~Asks(Notice({"rescan"}))
      BY NoticeAsksNothing DEF Reasons
    <3> QED
      BY <2>1, <3>1 DEF FinishClean, Open
  <2>2. CASE ~clean_job.ok
    <3>1. Notice({"ready", "clean"}) \in Dialog /\ ~Asks(Notice({"ready", "clean"}))
      BY NoticeAsksNothing DEF Reasons
    <3> QED
      BY <2>2, <3>1 DEF FinishClean, Open
  <2> QED
    BY <2>1, <2>2
<1>3. /\ WorkInv' /\ queue' \in Seq(Workers) /\ Waiting' = Waiting \ {"clean"}
      /\ "clean" \in Waiting /\ clean_running /\ worker["clean"] = "idle"
  BY <1>1, ReceivedWork DEF FinishClean, GuiIInv, Workers, Begun
<1>4. TypeOK' /\ ListInv'
  BY <1>1, <1>3 DEF GuiIInv, TypeOK, ListInv, world, devices, list, options, jobs
<1>5. DialogInv' /\ ClosedInv' /\ ControlInv' /\ AsksLess(dialogs', dialogs)
  BY <1>1, <1>2, QuietDialogs
<1>6. JobInv'
  BY <1>1, <1>5, QuietJob DEF jobs, list
<1>7. GreenInv'
  <2>1. green' => "clean" \in proven' /\ worker'["clean"] = "idle"
    BY <1>1, <1>3 DEF GuiIInv, GreenInv, jobs
  <2>2. "clean" \notin Waiting' /\ ("write" \in Waiting' => "write" \in Waiting)
    BY <1>3
  <2> QED
    BY <1>1, <2>1, <2>2 DEF GuiIInv, GreenInv, GreenWrite, jobs
<1> QED
  BY <1>3, <1>4, <1>5, <1>6, <1>7 DEF GuiIInv

-----------------------------------------------------------------------------
(* The theorems.                                                             *)

LEMMA InitEstablishesGuiIInv == Init => GuiIInv
<1> SUFFICES ASSUME Init PROVE GuiIInv
  OBVIOUS
<1>1. Numbers \in Nat /\ 1 \in 1..(Numbers + 1) /\ 0 \in 0..Numbers
  BY DiskAssumption
<1>2. <<>> \in Seq(Entries) /\ <<>> \in Seq(Workers) /\ <<>> \in Seq(Dialog) /\ Len(<<>>) = 0
  OBVIOUS
<1>3. TypeOK
  <2>1. present \in [1..Numbers -> Disks \cup {Missing}]
    BY DiskAssumption DEF Init
  <2>2. targets \in [1..Numbers -> Entries \cup {NoEntry}]
    BY DEF Init
  <2>3. job.target = NoEntry /\ clean_job.target = NoEntry /\ scan_job.found = <<>>
    BY DEF Init
  <2>4. {scanning, source_hashing, planning, writing, clean_running, source_ready, elevated,
         result_visible, dismount, controls_enabled, write_enabled, clean_enabled, green, timer,
         closed, source_ok} \subseteq BOOLEAN
    BY DEF Init
  <2>5. worker \in [Workers -> {"idle", "running", "acting"}]
    BY DEF Init
  <2> QED
    BY <1>1, <1>2, <2>1, <2>2, <2>3, <2>4, <2>5 DEF Init, TypeOK
<1>4. ListInv
  BY <1>1, <1>2 DEF Init, ListInv
<1>5. Waiting = {}
  BY DEF Init, Waiting, Messages
<1>6. WorkInv
  BY <1>5 DEF Init, WorkInv, InHand, Begun, Workers
<1>7. DialogInv /\ ClosedInv /\ ControlInv
  BY <1>2 DEF Init, DialogInv, ClosedInv, ControlInv, Asked
<1>8. JobInv
  <2>1. job \in Job
    BY DEF Init, Job
  <2>2. clean_job \in CleanJob
    BY DEF Init, CleanJob
  <2>3. worker["write"] = "idle" /\ DOMAIN dialogs = {}
    BY DEF Init, Workers
  <2> QED
    BY <2>1, <2>2, <2>3 DEF Init, JobInv
<1>9. GreenInv
  BY <1>5 DEF Init, GreenInv
<1> QED
  BY <1>3, <1>4, <1>6, <1>7, <1>8, <1>9 DEF GuiIInv

LEMMA StutterKeepsGuiIInv == GuiIInv /\ UNCHANGED vars => GuiIInv'
<1> SUFFICES ASSUME GuiIInv, UNCHANGED vars PROVE GuiIInv'
  OBVIOUS
<1>1. UNCHANGED <<present, plugs, clicks, lost, busy_flags, source_ready, elevated, result_visible,
                  list, options, buttons, green, timer, queue, dialogs, closed, worker, jobs>>
  BY DEF vars, world, devices
<1>2. TypeOK' /\ ListInv'
  BY <1>1 DEF GuiIInv, TypeOK, ListInv, busy_flags, list, options, buttons, jobs
<1>3. WorkInv' /\ Waiting' = Waiting
  BY <1>1, QuietWork DEF GuiIInv
<1>4. DialogInv' /\ ClosedInv' /\ ControlInv' /\ AsksLess(dialogs', dialogs)
  BY <1>1, NothingOpened DEF buttons
<1>5. JobInv' /\ GreenInv'
  BY <1>1, <1>3, <1>4, QuietJob, QuietGreen DEF busy_flags, jobs, list
<1> QED
  BY <1>2, <1>3, <1>4, <1>5 DEF GuiIInv

\* Every reachable state of the front end satisfies the inductive invariant.
THEOREM GuiInduction == Spec => []GuiIInv
<1>1. GuiIInv /\ [Next]_vars => GuiIInv'
  <2> SUFFICES ASSUME GuiIInv, [Next]_vars PROVE GuiIInv'
    OBVIOUS
  <2>1. CASE WorkerSteps
    BY <2>1, ScanNextKeepsGuiIInv, ScanDoneKeepsGuiIInv, SourceDoneKeepsGuiIInv,
       PlanDoneKeepsGuiIInv, WriteOpensKeepsGuiIInv, WriteDoneKeepsGuiIInv,
       CleanOpensKeepsGuiIInv, CleanDoneKeepsGuiIInv DEF WorkerSteps
  <2>2. CASE Handlers
    BY <2>2, FinishScanKeepsGuiIInv, FinishSourceKeepsGuiIInv, FinishPlanKeepsGuiIInv,
       FinishWriteKeepsGuiIInv, FinishCleanKeepsGuiIInv DEF Handlers
  <2>3. CASE Operator
    BY <2>3, RefreshKeepsGuiIInv, DropFileKeepsGuiIInv, BrowseKeepsGuiIInv, BrowsedKeepsGuiIInv,
       ChooseKeepsGuiIInv, CloseNoticeKeepsGuiIInv, RescanAfterCleanKeepsGuiIInv,
       CloseWindowKeepsGuiIInv, ElevateKeepsGuiIInv, BeginPlanKeepsGuiIInv,
       ConfirmPlanKeepsGuiIInv, BeginCleanKeepsGuiIInv, ConfirmCleanOnceKeepsGuiIInv,
       ConfirmCleanTwiceKeepsGuiIInv DEF Operator
  <2>4. CASE Autoscan \/ Plug
    BY <2>4, AutoscanKeepsGuiIInv, PlugKeepsGuiIInv
  <2>5. CASE UNCHANGED vars
    BY <2>5, StutterKeepsGuiIInv
  <2> QED
    BY <2>1, <2>2, <2>3, <2>4, <2>5 DEF Next
<1> QED
  BY InitEstablishesGuiIInv, <1>1, PTL DEF Spec

\* The state of the window and of its workers has the types the code declares.
THEOREM WindowIsTyped == Spec => []TypeOK
<1>1. GuiIInv => TypeOK
  BY DEF GuiIInv
<1> QED
  BY <1>1, GuiInduction, PTL

\* The drive a write worker acts on carries the token of the entry the final
\* confirmation showed, whatever was scanned, plugged or chosen meanwhile.
THEOREM TheConfirmedPlanIsWritten == Spec => []WritesTheConfirmedPlan
<1>1. GuiIInv => WritesTheConfirmedPlan
  BY DEF GuiIInv, JobInv, WorkInv, InHand, Begun, Workers, WritesTheConfirmedPlan
<1> QED
  BY <1>1, GuiInduction, PTL

\* The window is not closed over a running write or clean, by WM_CLOSE or by the
\* restart with administrator rights.
THEOREM TheWindowOutlivesWork == Spec => []WindowOutlivesWork
<1>1. GuiIInv => WindowOutlivesWork
  BY DEF GuiIInv, ClosedInv, WorkInv, InHand, Begun, Workers, WindowOutlivesWork
<1> QED
  BY <1>1, GuiInduction, PTL

\* A green banner has an operation behind it whose last run succeeded and left its
\* evidence, although both kinds of operation may be under way at once.
THEOREM GreenIsEarned == Spec => []GreenMeansProven
<1>1. GuiIInv => GreenMeansProven
  BY DEF GuiIInv, GreenInv, GreenMeansProven
<1> QED
  BY <1>1, GuiInduction, PTL

\* A window without work, messages and dialogs can be used: no path leaves a busy
\* flag set or the controls disabled.
THEOREM TheIdleWindowIsUsable == Spec => []IdleMeansUsable
<1>1. GuiIInv => IdleMeansUsable
  <2> SUFFICES ASSUME GuiIInv, dialogs = <<>>, queue = <<>>, lost = 0,
                      \A w \in Workers : worker[w] = "idle"
               PROVE  controls_enabled /\ ~Busy /\ ~clean_running
    BY DEF IdleMeansUsable
  <2>1. Waiting = {}
    BY DEF Waiting, Messages
  <2>2. ~Busy /\ ~clean_running
    BY <2>1 DEF GuiIInv, WorkInv, InHand, Begun, Workers, Busy
  <2> QED
    BY <2>2 DEF GuiIInv, ControlInv
<1> QED
  BY <1>1, GuiInduction, PTL


=============================================================================
