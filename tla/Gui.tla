--------------------------------- MODULE Gui ---------------------------------
(***************************************************************************)
(* The Windows front end (src/src/gui_win32_bootstrap.c, which includes    *)
(* gui_win32_final.c): one window thread, five kinds of worker threads     *)
(* that report back by posted messages, an autoscan timer, and modal       *)
(* dialogs.  A modal dialog blocks the operator's input to the window, but *)
(* its loop goes on dispatching posted messages and the timer, so that a   *)
(* handler waiting for an answer finds the state changed when it goes on.  *)
(*                                                                         *)
(* A write and a clean are what WriteImage and CleanDisk say of them: they *)
(* check the drive once more and then succeed or fail.                     *)
(***************************************************************************)
EXTENDS Naturals, Sequences

CONSTANTS
    Disks,          \* physical disks
    Missing,        \* a disk number that names nothing
    Numbers,        \* PhysicalDrive numbers, 1..Numbers (32 in the code)
    Ident,          \* Ident[d]: the fields hashed into disk d's token
    SystemDisks, ReadOnlyDisks, MountedDisks,
    SmallDisks,     \* disks the source image does not fit on
    UsbDisks,       \* removable USB disks
    InitialDisks,   \* InitialDisks[n]: the disk number n names at the start
    MaxPlugs,       \* bound on drives plugged or pulled
    MaxLost,        \* bound on messages PostMessage could not queue
    MaxClicks       \* bound on what the operator does on the window, dialogs apart

ASSUME DiskAssumption ==
    /\ Missing \notin Disks
    /\ UNION {SystemDisks, ReadOnlyDisks, MountedDisks, SmallDisks, UsbDisks} \subseteq Disks
    /\ {Numbers, MaxPlugs, MaxLost, MaxClicks} \subseteq Nat
    /\ InitialDisks \in [1..Numbers -> Disks \cup {Missing}]

VARIABLES
    (* the world *)
    present,        \* present[n]: the disk number n names
    plugs, lost, clicks,    \* how much of each bound is used up
    (* g_gui *)
    scanning, source_hashing, planning, writing, clean_running,
    source_ready, elevated, result_visible,
    targets,        \* the array, whose entries past target_count are stale
    target_count,
    selected,       \* entry selected in the list, 0 for none
    verify, dismount,   \* chosen verification and "lock + dismount"
    (* window *)
    controls_enabled, write_enabled, clean_enabled,
    green,          \* the status banner says COMPLETE in green
    timer,          \* the autoscan timer is armed
    queue,          \* posted messages
    dialogs,        \* open modal dialogs, the innermost first
    closed,
    (* workers and their jobs *)
    worker,         \* worker[w]: "idle", "running" or, on a disk, "acting"
    scan_job, source_ok, job, clean_job,
    (* observer *)
    proven          \* operations whose last run succeeded, was verified and left evidence

busy_flags == <<scanning, source_hashing, planning, writing, clean_running>>
list == <<targets, target_count, selected>>
options == <<verify, dismount>>
buttons == <<controls_enabled, write_enabled, clean_enabled>>
jobs == <<scan_job, source_ok, job, clean_job, proven>>
devices == <<present, plugs>>
world == <<devices, clicks>>
vars == <<world, lost, busy_flags, source_ready, elevated, result_visible, list, options, buttons,
          green, timer, queue, dialogs, closed, worker, jobs>>

-----------------------------------------------------------------------------
Workers == {"scan", "source", "plan", "write", "clean"}
Entries == [path : 1..Numbers, disk : Disks]
NoEntry == [path |-> 0, disk |-> Missing]

\* Seeded defect: a running write does not keep the window busy.
BusyUntilWriting == scanning \/ source_hashing \/ planning

\* df_gui_busy
Busy == scanning \/ source_hashing \/ planning \/ writing

\* df_gui_update_ready: when WRITE is enabled.
Ready ==
    /\ elevated /\ ~Busy /\ source_ready /\ selected # 0
    /\ LET d == targets[selected].disk
       IN  /\ d \notin UNION {SystemDisks, ReadOnlyDisks, SmallDisks}
           /\ d \in MountedDisks => dismount

\* df_gui_clean_target_allowed
CleanAllowed(d) == d \in UsbDisks \ (ReadOnlyDisks \cup SystemDisks)

\* df_gui_clean_update_enabled: when CLEAN is enabled.
CleanReady ==
    elevated /\ ~clean_running /\ ~Busy /\ selected # 0 /\ CleanAllowed(targets[selected].disk)

UpdateReady == write_enabled' = Ready'
UpdateClean == clean_enabled' = CleanReady'

\* update_ready(true) also takes a green banner down, unless a result is shown.
UpdateStatus == green' = (green /\ (Busy' \/ result_visible'))

\* Seeded defect: the controls stay disabled.
ReenableNot == UNCHANGED controls_enabled

\* df_gui_enable_operation_controls(true)
Reenable == controls_enabled' = TRUE

Disable == controls_enabled' = FALSE /\ write_enabled' = FALSE

\* Seeded defect: what is posted while a dialog is open is dropped.
PostUnlessModal(m) ==
    /\ queue' = IF dialogs = <<>> THEN Append(queue, m) ELSE queue
    /\ UNCHANGED lost

\* PostMessageW, whose result the workers ignore.
Post(m) ==
    \/ queue' = Append(queue, m) /\ UNCHANGED lost
    \/ lost < MaxLost /\ lost' = lost + 1 /\ UNCHANGED queue

\* A message box, and what the handler that opened it does when it is closed.
Notice(then) == [kind |-> "notice", then |-> then]

\* A confirmation shows an entry; the clean goes on with the array element.
Confirm(kind, index, shown) == [kind |-> kind, index |-> index, shown |-> shown]

Open(d) == dialogs' = <<d>> \o dialogs

\* The operator reaches the window only when no dialog is open.
Click == ~closed /\ dialogs = <<>> /\ clicks < MaxClicks /\ clicks' = clicks + 1

Received(m) == ~closed /\ queue # <<>> /\ Head(queue) = m /\ queue' = Tail(queue)

-----------------------------------------------------------------------------
(* Scanning.                                                               *)

\* df_gui_begin_scan, with the dialogs d open; CreateThread may fail.
BeginScan(d) ==
    IF Busy
    THEN UNCHANGED <<scanning, scan_job, worker, green, controls_enabled, write_enabled>>
         /\ dialogs' = d
    ELSE /\ scan_job' = [next |-> 1, found |-> <<>>]
         /\ green' = FALSE
         /\ \/ /\ scanning' = TRUE
               /\ worker' = [worker EXCEPT !["scan"] = "running"]
               /\ Disable
               /\ dialogs' = d
            \/ /\ Reenable /\ write_enabled' = FALSE
               /\ dialogs' = <<Notice({"ready", "status", "clean"})>> \o d
               /\ UNCHANGED <<scanning, worker>>

\* A scan that begins takes a shown result down.
ForgetResult == result_visible' = (result_visible /\ Busy)

\* The REFRESH button, or F5 while no clean is running.
Refresh ==
    /\ Click
    /\ ForgetResult
    /\ BeginScan(<<>>)
    /\ UNCHANGED <<devices, lost, source_hashing, planning, writing, clean_running, source_ready,
                   elevated, list, options, timer, queue, closed, source_ok, job, clean_job,
                   proven>>
    /\ \/ controls_enabled /\ UpdateClean
       \/ ~clean_running /\ UNCHANGED clean_enabled

\* WM_TIMER, which is dispatched when no message is waiting.
Autoscan ==
    /\ ~closed /\ timer /\ queue = <<>>
    /\ timer' = Busy
    /\ ForgetResult
    /\ BeginScan(dialogs)
    /\ UNCHANGED <<world, lost, source_hashing, planning, writing, clean_running, source_ready,
                   elevated, list, options, queue, closed, source_ok, job, clean_job, proven>>
    /\ UpdateClean

\* df_gui_scan_thread looks at one number after the other.
ScanNext ==
    /\ ~closed /\ worker["scan"] = "running" /\ scan_job.next <= Numbers
    /\ LET n == scan_job.next
           d == present[n]
       IN  scan_job' = [next |-> n + 1,
                        found |-> IF d \in Disks \ SystemDisks
                                  THEN Append(scan_job.found, [path |-> n, disk |-> d])
                                  ELSE scan_job.found]
    /\ UNCHANGED <<world, lost, busy_flags, source_ready, elevated, result_visible, list, options,
                   buttons, green, timer, queue, dialogs, closed, worker, source_ok, job,
                   clean_job, proven>>

ScanDone ==
    /\ ~closed /\ worker["scan"] = "running" /\ scan_job.next > Numbers
    /\ worker' = [worker EXCEPT !["scan"] = "idle"]
    /\ Post("scan")
    /\ UNCHANGED <<world, busy_flags, source_ready, elevated, result_visible, list, options,
                   buttons, green, timer, dialogs, closed, jobs>>

\* Seeded defect: the list keeps its selection when it is filled again.
SameSelection(found) == selected

\* The first entry that is not read-only, or else the first.
FirstUsable(found) ==
    LET usable == {i \in DOMAIN found : found[i].disk \notin ReadOnlyDisks}
    IN  IF found = <<>> THEN 0
        ELSE IF usable = {} THEN 1
        ELSE CHOOSE i \in usable : \A j \in usable : i <= j

FinishScan ==
    /\ Received("scan")
    /\ scanning' = FALSE
    /\ LET found == scan_job.found
       IN  /\ targets' = [i \in 1..Numbers |-> IF i <= Len(found) THEN found[i] ELSE targets[i]]
           /\ target_count' = Len(found)
           /\ selected' = FirstUsable(found)
           /\ result_visible' = (result_visible /\ found = <<>>)
    /\ UNCHANGED <<world, lost, source_hashing, planning, writing, clean_running, source_ready,
                   elevated, options, timer, dialogs, closed, worker, jobs>>
    /\ Reenable /\ UpdateReady /\ UpdateStatus /\ UpdateClean

-----------------------------------------------------------------------------
(* The source image.                                                       *)

\* df_gui_begin_source, once the dialogs d are all that is open.
BeginSource ==
    /\ source_ready' = FALSE /\ result_visible' = FALSE /\ green' = FALSE
    /\ \/ /\ source_hashing' = TRUE
          /\ worker' = [worker EXCEPT !["source"] = "running"]
          /\ Disable
          /\ dialogs' = <<>>
       \/ /\ Reenable /\ write_enabled' = FALSE
          /\ dialogs' = <<Notice({"ready", "status", "clean"})>>
          /\ UNCHANGED <<source_hashing, worker>>

\* A file dropped on the window.
DropFile ==
    /\ Click /\ ~clean_running /\ ~Busy
    /\ BeginSource
    /\ UNCHANGED <<devices, lost, scanning, planning, writing, clean_running, elevated, list,
                   options, clean_enabled, timer, queue, closed, jobs>>

Browse ==
    /\ Click /\ controls_enabled /\ ~Busy
    /\ Open([kind |-> "browse"])
    /\ UNCHANGED <<devices, lost, busy_flags, source_ready, elevated, result_visible, list, options,
                   buttons, green, timer, queue, closed, worker, jobs>>

\* The file dialog is closed; a chosen file is ignored if work began meanwhile.
Browsed ==
    /\ ~closed /\ dialogs # <<>> /\ Head(dialogs).kind = "browse"
    /\ \/ ~Busy /\ Tail(dialogs) = <<>> /\ BeginSource
       \/ /\ dialogs' = Tail(dialogs)
          /\ UNCHANGED <<source_hashing, worker, source_ready, result_visible, green,
                         controls_enabled, write_enabled>>
    /\ UNCHANGED <<world, lost, scanning, planning, writing, clean_running, elevated, list, options,
                   timer, queue, closed, jobs>>
    /\ UpdateClean

SourceDone ==
    /\ ~closed /\ worker["source"] = "running"
    /\ worker' = [worker EXCEPT !["source"] = "idle"]
    /\ source_ok' \in BOOLEAN
    /\ Post("source")
    /\ UNCHANGED <<world, busy_flags, source_ready, elevated, result_visible, list, options,
                   buttons, green, timer, dialogs, closed, scan_job, job, clean_job, proven>>

FinishSource ==
    /\ Received("source")
    /\ source_hashing' = FALSE /\ source_ready' = source_ok
    /\ UNCHANGED <<world, lost, scanning, planning, writing, clean_running, elevated, list, options,
                   timer, closed, worker, jobs>>
    /\ Reenable
    /\ IF source_ok
       THEN /\ result_visible' = (result_visible /\ selected = 0)
            /\ UpdateReady /\ UpdateStatus /\ UpdateClean
            /\ UNCHANGED dialogs
       ELSE /\ green' = FALSE
            /\ Open(Notice({"ready", "clean"}))
            /\ UNCHANGED <<result_visible, write_enabled, clean_enabled>>

-----------------------------------------------------------------------------
(* The operator's choices.                                                 *)

\* df_gui_show_target, and the handlers of the verification list and of the box.
Choose ==
    /\ Click /\ controls_enabled
    /\ \/ selected' \in 1..target_count /\ UNCHANGED options
       \/ verify' \in {"full", "none"} /\ UNCHANGED <<selected, dismount>>
       \/ dismount' = ~dismount /\ UNCHANGED <<selected, verify>>
    /\ result_visible' = FALSE
    /\ UNCHANGED <<devices, lost, busy_flags, source_ready, elevated, targets, target_count,
                   controls_enabled, timer, queue, dialogs, closed, worker, jobs>>
    /\ UpdateReady /\ UpdateStatus /\ UpdateClean

\* A message box is closed, and the handler that opened it goes on.
CloseNotice ==
    /\ ~closed /\ dialogs # <<>> /\ Head(dialogs).kind = "notice"
    /\ dialogs' = Tail(dialogs)
    /\ UNCHANGED <<world, lost, busy_flags, source_ready, elevated, result_visible, list, options,
                   controls_enabled, timer, queue, closed, worker, jobs>>
    /\ LET then == Head(dialogs).then
       IN  /\ "rescan" \notin then
           /\ IF "ready" \in then THEN UpdateReady ELSE UNCHANGED write_enabled
           /\ IF "status" \in then THEN UpdateStatus ELSE UNCHANGED green
           /\ IF "clean" \in then THEN UpdateClean ELSE UNCHANGED clean_enabled

\* After a clean that succeeded the drives are scanned again.
RescanAfterClean ==
    /\ ~closed /\ dialogs # <<>> /\ Head(dialogs).kind = "notice" /\ "rescan" \in Head(dialogs).then
    /\ result_visible' = FALSE
    /\ BeginScan(Tail(dialogs))
    /\ UNCHANGED <<world, lost, source_hashing, planning, writing, clean_running, source_ready,
                   elevated, list, options, clean_enabled, timer, queue, closed, source_ok, job,
                   clean_job, proven>>

\* WM_CLOSE is refused with a notice while there is work.
CloseWindow ==
    /\ Click
    /\ IF Busy \/ clean_running
       THEN Open(Notice({})) /\ UNCHANGED closed
       ELSE closed' = TRUE /\ UNCHANGED dialogs
    /\ UNCHANGED <<devices, lost, busy_flags, source_ready, elevated, result_visible, list, options,
                   buttons, green, timer, queue, worker, jobs>>

\* df_gui_restart_elevated, on a button that an elevated window does not show.
Elevate ==
    /\ Click /\ ~elevated
    /\ \/ closed' = TRUE /\ UNCHANGED <<dialogs, clean_enabled>>
       \/ Open(Notice({"clean"})) /\ UNCHANGED <<closed, clean_enabled>>
    /\ UNCHANGED <<devices, lost, busy_flags, source_ready, elevated, result_visible, list, options,
                   controls_enabled, write_enabled, green, timer, queue, worker, jobs>>

-----------------------------------------------------------------------------
(* Plan, confirmation and write.                                           *)

\* What the core's checks leave of a job: the number still names a disk with the
\* token, and policy allows it.
Allowed(target, force) ==
    LET d == present[target.path]
    IN  /\ d # Missing /\ Ident[d] = Ident[target.disk]
        /\ d \notin SystemDisks \cup ReadOnlyDisks
        /\ d \in MountedDisks => force

NewJob == [target |-> targets[selected], force |-> dismount, verify |-> verify,
           shown |-> NoEntry, ok |-> FALSE, reported |-> FALSE, disk |-> Missing]

\* df_gui_begin_plan; the evidence folder or the thread may not be created.
BeginPlan ==
    /\ Click /\ write_enabled
    /\ selected # 0 /\ ~Busy /\ source_ready /\ elevated
    /\ UNCHANGED <<devices, lost, scanning, source_hashing, writing, clean_running, source_ready,
                   elevated, list, options, timer, queue, closed, scan_job, source_ok,
                   clean_job, proven>>
    /\ job' = NewJob
    /\ \/ /\ Open(Notice({"clean"}))
          /\ UNCHANGED <<planning, worker, result_visible, green, buttons>>
       \/ /\ planning' = TRUE /\ result_visible' = FALSE /\ green' = FALSE
          /\ worker' = [worker EXCEPT !["plan"] = "running"]
          /\ Disable /\ UpdateClean
          /\ UNCHANGED dialogs
       \/ /\ result_visible' = FALSE /\ green' = FALSE
          /\ Reenable /\ write_enabled' = FALSE
          /\ Open(Notice({"ready", "status", "clean"}))
          /\ UNCHANGED <<planning, worker, clean_enabled>>

\* df_attest_plan
PlanDone ==
    /\ ~closed /\ worker["plan"] = "running"
    /\ worker' = [worker EXCEPT !["plan"] = "idle"]
    /\ \E ok \in BOOLEAN :
         /\ ok => Allowed(job.target, job.force)
         /\ job' = [job EXCEPT !.ok = ok]
    /\ Post("plan")
    /\ UNCHANGED <<world, busy_flags, source_ready, elevated, result_visible, list, options,
                   buttons, green, timer, dialogs, closed, scan_job, source_ok, clean_job, proven>>

FinishPlan ==
    /\ Received("plan")
    /\ planning' = FALSE
    /\ IF job.ok
       THEN /\ Open(Confirm("plan", 0, job.target))
            /\ UNCHANGED <<controls_enabled, green>>
       ELSE /\ Reenable /\ green' = FALSE
            /\ Open(Notice({"ready", "clean"}))
    /\ UNCHANGED <<world, lost, scanning, source_hashing, writing, clean_running, source_ready,
                   elevated, result_visible, list, options, write_enabled, clean_enabled, timer,
                   closed, worker, jobs>>

\* The final confirmation is answered; df_gui_finish_plan goes on.
ConfirmPlan ==
    /\ ~closed /\ dialogs # <<>> /\ Head(dialogs).kind = "plan"
    /\ UNCHANGED <<world, lost, scanning, source_hashing, planning, clean_running, source_ready,
                   elevated, result_visible, list, options, timer, queue, closed, scan_job,
                   source_ok, clean_job>>
    /\ green' = FALSE
    /\ \/ /\ dialogs' = Tail(dialogs)                                   \* NO
          /\ UNCHANGED <<writing, worker, job, proven>>
          /\ Reenable /\ UpdateReady
       \/ /\ dialogs' = Tail(dialogs)                                   \* YES
          /\ writing' = TRUE
          /\ worker' = [worker EXCEPT !["write"] = "running"]
          /\ job' = [job EXCEPT !.shown = Head(dialogs).shown]
          /\ proven' = proven \ {"write"}
          /\ UNCHANGED <<controls_enabled, write_enabled>>
       \/ /\ dialogs' = <<Notice({"ready", "status", "clean"})>> \o Tail(dialogs)
          /\ Reenable                                                   \* no thread
          /\ UNCHANGED <<writing, worker, write_enabled, job, proven>>
    /\ UpdateClean

\* Seeded defect: the worker takes the target that is selected when it starts.
SelectedTarget == IF selected = 0 THEN job.target ELSE targets[selected]

JobTarget == job.target

\* df_write_image_attested opens the target ...
WriteOpens ==
    /\ ~closed /\ worker["write"] = "running"
    /\ Allowed(JobTarget, job.force)
    /\ job' = [job EXCEPT !.disk = present[JobTarget.path]]
    /\ worker' = [worker EXCEPT !["write"] = "acting"]
    /\ UNCHANGED <<world, lost, busy_flags, source_ready, elevated, result_visible, list, options,
                   buttons, green, timer, queue, dialogs, closed, scan_job, source_ok,
                   clean_job, proven>>

\* ... and returns, and df_write_json_report may fail.
WriteDone ==
    /\ ~closed /\ worker["write"] # "idle"
    /\ \E ok, reported \in BOOLEAN :
         /\ ok => worker["write"] = "acting" /\ job.disk \notin SmallDisks
         /\ job' = [job EXCEPT !.ok = ok, !.reported = reported]
         /\ proven' = IF ok /\ reported /\ job.verify # "none" THEN proven \cup {"write"}
                      ELSE proven \ {"write"}
    /\ worker' = [worker EXCEPT !["write"] = "idle"]
    /\ Post("write")
    /\ UNCHANGED <<world, busy_flags, source_ready, elevated, result_visible, list, options,
                   buttons, green, timer, dialogs, closed, scan_job, source_ok, clean_job>>

\* Seeded defect: a lost evidence file does not dim the banner.
GreenWithoutEvidence == job.ok /\ job.verify # "none"

GreenWrite == job.ok /\ job.verify # "none" /\ job.reported

FinishWrite ==
    /\ Received("write")
    /\ writing' = FALSE /\ result_visible' = TRUE
    /\ green' = GreenWrite
    /\ UNCHANGED <<world, lost, scanning, source_hashing, planning, clean_running, source_ready,
                   elevated, list, options, clean_enabled, timer, closed, worker, jobs>>
    /\ Reenable /\ UpdateReady
    /\ Open(Notice({"clean"}))

-----------------------------------------------------------------------------
(* Clean.                                                                  *)

\* df_gui_begin_clean up to its first dialog, which shows the selected entry.
BeginClean ==
    /\ Click /\ clean_enabled
    /\ selected # 0 /\ ~clean_running /\ ~Busy /\ elevated
    /\ IF CleanAllowed(targets[selected].disk)
       THEN Open(Confirm("clean1", selected, targets[selected]))
       ELSE Open(Notice({}))
    /\ UNCHANGED <<devices, lost, busy_flags, source_ready, elevated, result_visible, list, options,
                   buttons, green, timer, queue, closed, worker, jobs>>

\* The first dialog is answered.
ConfirmCleanOnce ==
    /\ ~closed /\ dialogs # <<>> /\ Head(dialogs).kind = "clean1"
    /\ \/ dialogs' = Tail(dialogs) /\ green' = FALSE
       \/ /\ dialogs' = <<[Head(dialogs) EXCEPT !.kind = "clean2"]>> \o Tail(dialogs)
          /\ UNCHANGED green
    /\ UNCHANGED <<world, lost, busy_flags, source_ready, elevated, result_visible, list, options,
                   buttons, timer, queue, closed, worker, jobs>>

\* The second one is: the job is filled from the array element, and the worker
\* started, unless the evidence folder or the thread cannot be created.
ConfirmCleanTwice ==
    /\ ~closed /\ dialogs # <<>> /\ Head(dialogs).kind = "clean2"
    /\ UNCHANGED <<world, lost, scanning, source_hashing, planning, writing, source_ready, elevated,
                   list, options, queue, closed, scan_job, source_ok, job>>
    /\ LET d == Head(dialogs)
           rest == Tail(dialogs)
       IN  \/ /\ dialogs' = rest /\ green' = FALSE
              /\ UNCHANGED <<clean_job, clean_running, result_visible, timer, worker, buttons,
                             proven>>
           \/ /\ clean_job' = [target |-> targets[d.index], shown |-> d.shown, ok |-> FALSE,
                               reported |-> FALSE, disk |-> Missing]
              /\ \/ /\ dialogs' = <<Notice({})>> \o rest
                    /\ UNCHANGED <<clean_running, result_visible, timer, worker, green, buttons,
                                   proven>>
                 \/ /\ clean_running' = TRUE /\ result_visible' = FALSE /\ timer' = FALSE
                    /\ worker' = [worker EXCEPT !["clean"] = "running"]
                    /\ Disable /\ clean_enabled' = FALSE /\ green' = FALSE
                    /\ dialogs' = rest /\ proven' = proven \ {"clean"}
                 \/ /\ result_visible' = FALSE /\ timer' = FALSE
                    /\ UNCHANGED <<clean_running, worker, proven>>
                    /\ Reenable /\ write_enabled' = FALSE /\ UpdateClean /\ green' = FALSE
                    /\ dialogs' = <<Notice({"ready", "status"})>> \o rest

\* df_clean_disk gets to the disk ...
CleanOpens ==
    /\ ~closed /\ worker["clean"] = "running"
    /\ Allowed(clean_job.target, TRUE)
    /\ CleanAllowed(present[clean_job.target.path])
    /\ clean_job' = [clean_job EXCEPT !.disk = present[clean_job.target.path]]
    /\ worker' = [worker EXCEPT !["clean"] = "acting"]
    /\ UNCHANGED <<world, lost, busy_flags, source_ready, elevated, result_visible, list, options,
                   buttons, green, timer, queue, dialogs, closed, scan_job, source_ok, job, proven>>

\* ... and returns, and its report may fail.
CleanDone ==
    /\ ~closed /\ worker["clean"] # "idle"
    /\ \E ok, reported \in BOOLEAN :
         /\ ok => worker["clean"] = "acting"
         /\ clean_job' = [clean_job EXCEPT !.ok = ok, !.reported = reported]
         /\ proven' = IF ok /\ reported THEN proven \cup {"clean"} ELSE proven \ {"clean"}
    /\ worker' = [worker EXCEPT !["clean"] = "idle"]
    /\ Post("clean")
    /\ UNCHANGED <<world, busy_flags, source_ready, elevated, result_visible, list, options,
                   buttons, green, timer, dialogs, closed, scan_job, source_ok, job>>

FinishClean ==
    /\ Received("clean")
    /\ clean_running' = FALSE /\ result_visible' = TRUE
    /\ green' = (clean_job.ok /\ clean_job.reported)
    /\ Reenable
    /\ Open(Notice(IF clean_job.ok THEN {"rescan"} ELSE {"ready", "clean"}))
    /\ UNCHANGED <<world, lost, scanning, source_hashing, planning, writing, source_ready, elevated,
                   list, options, write_enabled, clean_enabled, timer, closed, worker, jobs>>

-----------------------------------------------------------------------------
\* A drive is plugged in or pulled.
Plug ==
    /\ ~closed /\ plugs < MaxPlugs
    /\ \E n \in 1..Numbers, d \in Disks \cup {Missing} :
         /\ d # present[n]
         /\ d = Missing \/ \A k \in 1..Numbers : present[k] # d
         /\ present' = [present EXCEPT ![n] = d]
    /\ plugs' = plugs + 1
    /\ UNCHANGED <<clicks, lost, busy_flags, source_ready, elevated, result_visible, list, options,
                   buttons, green, timer, queue, dialogs, closed, worker, jobs>>

Init ==
    /\ present = InitialDisks /\ plugs = 0 /\ lost = 0 /\ clicks = 0
    /\ scanning = FALSE /\ source_hashing = FALSE /\ planning = FALSE /\ writing = FALSE
    /\ clean_running = FALSE
    /\ source_ready = FALSE /\ elevated \in BOOLEAN /\ result_visible = FALSE
    /\ targets = [i \in 1..Numbers |-> NoEntry] /\ target_count = 0 /\ selected = 0
    /\ verify = "full" /\ dismount = TRUE
    /\ controls_enabled = TRUE /\ write_enabled = FALSE /\ clean_enabled = FALSE
    /\ green = FALSE /\ timer \in BOOLEAN /\ queue = <<>> /\ dialogs = <<>> /\ closed = FALSE
    /\ worker = [w \in Workers |-> "idle"]
    /\ scan_job = [next |-> 1, found |-> <<>>] /\ source_ok = FALSE
    /\ job = [target |-> NoEntry, force |-> FALSE, verify |-> "full",
              shown |-> NoEntry, ok |-> FALSE, reported |-> FALSE, disk |-> Missing]
    /\ clean_job = [target |-> NoEntry, shown |-> NoEntry, ok |-> FALSE, reported |-> FALSE,
                    disk |-> Missing]
    /\ proven = {}

WorkerSteps ==
    ScanNext \/ ScanDone \/ SourceDone \/ PlanDone \/ WriteOpens \/ WriteDone
    \/ CleanOpens \/ CleanDone
Handlers == FinishScan \/ FinishSource \/ FinishPlan \/ FinishWrite \/ FinishClean
Operator ==
    Refresh \/ DropFile \/ Browse \/ Browsed \/ Choose \/ CloseNotice \/ RescanAfterClean
    \/ CloseWindow \/ Elevate \/ BeginPlan \/ ConfirmPlan \/ BeginClean
    \/ ConfirmCleanOnce \/ ConfirmCleanTwice

Next == WorkerSteps \/ Handlers \/ Operator \/ Autoscan \/ Plug

Spec == Init /\ [][Next]_vars

\* Threads run, what they call returns, and some loop dispatches what is posted.
FairSpec == Spec /\ WF_vars(ScanNext \/ ScanDone) /\ WF_vars(SourceDone) /\ WF_vars(PlanDone)
                 /\ WF_vars(WriteDone) /\ WF_vars(CleanDone) /\ WF_vars(Handlers)

-----------------------------------------------------------------------------
(* Properties.                                                             *)

TypeOK ==
    /\ present \in [1..Numbers -> Disks \cup {Missing}]
    /\ {scanning, source_hashing, planning, writing, clean_running, source_ready, elevated,
        result_visible, dismount, controls_enabled, write_enabled, clean_enabled, green, timer,
        closed, source_ok} \subseteq BOOLEAN
    /\ targets \in [1..Numbers -> Entries \cup {NoEntry}]
    /\ target_count \in 0..Numbers /\ selected \in 0..target_count
    /\ queue \in Seq(Workers)
    /\ worker \in [Workers -> {"idle", "running", "acting"}]
    /\ scan_job.found \in Seq(Entries)
    /\ {job.target, clean_job.target} \subseteq Entries \cup {NoEntry}

\* What is written is the drive the final confirmation named, in every order of
\* scans, plugging and answers.  (GUI.txt:99-104; df_gui_finish_plan.)
WritesTheConfirmedPlan ==
    worker["write"] = "acting" =>
        /\ job.shown \in Entries
        /\ Ident[job.disk] = Ident[job.shown.disk]

\* What is cleaned is the drive both confirmations named.
\* (README.md:414, "integrated CLEAN DISK worker with two confirmations".)
CleansTheConfirmedDisk ==
    worker["clean"] = "acting" => Ident[clean_job.disk] = Ident[clean_job.shown.disk]

\* A disk is not cleaned while it is written to.  WRITE is disabled when a clean
\* begins (gui_win32_bootstrap.c:244-246) and GUI.txt:71 wants it to stay so.
OneDestructiveWorker ==
    ~(worker["write"] = "acting" /\ worker["clean"] = "acting" /\ job.disk = clean_job.disk)

\* The window is never gone while a drive is written or cleaned.  (GUI.txt:179.)
WindowOutlivesWork == closed => worker["write"] = "idle" /\ worker["clean"] = "idle"

\* A green banner stands for an operation that succeeded, was read back and left
\* its evidence.  (GUI.txt:134-149, "A green completion state requires".)
GreenMeansProven ==
    green => proven # {}

\* When no worker runs, no message waits and no dialog is open, the window can be
\* used: every path of every handler, failed threads and refusals included, has
\* given the controls back and cleared its busy flag.
IdleMeansUsable ==
    (/\ ~closed /\ dialogs = <<>> /\ queue = <<>> /\ lost = 0
     /\ \A w \in Workers : worker[w] = "idle") =>
        controls_enabled /\ ~Busy /\ ~clean_running

\* Work that was begun is over some time, and the window learns of it, whichever
\* dialogs are open, unless the message that ends it could not be posted.
\* (GUI.txt:178-179, final.c:1816-1825.)
WorkSettles ==
    /\ scanning ~> (~scanning \/ closed \/ lost > 0)
    /\ source_hashing ~> (~source_hashing \/ closed \/ lost > 0)
    /\ planning ~> (~planning \/ lost > 0)
    /\ writing ~> (~writing \/ lost > 0)
    /\ clean_running ~> (~clean_running \/ lost > 0)

-----------------------------------------------------------------------------
(* What makes the invariants inductive.                                    *)

\* The types TypeOK states, and those of the jobs, the options and the dialogs.
Reasons == {"ready", "status", "clean", "rescan"}
Dialog ==
    [kind : {"notice"}, then : SUBSET Reasons] \cup [kind : {"browse"}]
    \cup [kind : {"plan", "clean1", "clean2"}, index : 0..Numbers, shown : Entries \cup {NoEntry}]
Job == [target : Entries \cup {NoEntry}, force : BOOLEAN, verify : {"full", "none"},
        shown : Entries \cup {NoEntry}, ok : BOOLEAN, reported : BOOLEAN,
        disk : Disks \cup {Missing}]
CleanJob == [target : Entries \cup {NoEntry}, shown : Entries \cup {NoEntry}, ok : BOOLEAN,
             reported : BOOLEAN, disk : Disks \cup {Missing}]

\* The entries that count name disks, and a scan finds no more than there are numbers.
ListInv ==
    /\ verify \in {"full", "none"}
    /\ \A i \in 1..target_count : targets[i] \in Entries
    /\ scan_job \in [next : 1..(Numbers + 1), found : Seq(Entries)]
    /\ Len(scan_job.found) < scan_job.next

\* The busy flag of a kind of worker.
Begun(w) ==
    \/ w = "scan" /\ scanning
    \/ w = "source" /\ source_hashing
    \/ w = "plan" /\ planning
    \/ w = "write" /\ writing
    \/ w = "clean" /\ clean_running

Messages(q) == {q[i] : i \in DOMAIN q}
Waiting == Messages(queue)

\* A worker's flag is set from its start until its one message is received.
InHand(w) ==
    /\ worker[w] # "idle" => Begun(w) /\ w \notin Waiting
    /\ w \in Waiting => Begun(w)
    /\ lost = 0 /\ Begun(w) => worker[w] # "idle" \/ w \in Waiting
WorkInv ==
    /\ lost \in Nat
    /\ \A i, j \in DOMAIN queue : queue[i] = queue[j] => i = j
    /\ \A w \in Workers : InHand(w)

\* At most one dialog asks whether to write or to clean; nothing is planned or
\* written meanwhile.
Asks(d) == d.kind \in {"plan", "clean1", "clean2"}
Asked == \E i \in DOMAIN dialogs : Asks(dialogs[i])
DialogInv ==
    /\ dialogs \in Seq(Dialog)
    /\ \A i, j \in DOMAIN dialogs : Asks(dialogs[i]) /\ Asks(dialogs[j]) => i = j
    /\ Asked => ~planning /\ ~writing
    /\ \A i \in DOMAIN dialogs : dialogs[i].kind \in {"clean1", "clean2"} => ~clean_running
    /\ ~(planning /\ writing)

\* Nothing destructive begins in a window that is not elevated.
ClosedInv ==
    /\ Asked \/ planning \/ writing \/ clean_running => elevated
    /\ closed => ~writing /\ ~clean_running

\* The planned, the confirmed and the written drive are one; the cleaned one is
\* an entry of the array.
JobInv ==
    /\ job \in Job /\ clean_job \in CleanJob
    /\ planning => job.target \in Entries
    /\ \A i \in DOMAIN dialogs :
         dialogs[i].kind = "plan" => dialogs[i].shown = job.target /\ job.target \in Entries
    /\ writing => job.shown = job.target /\ job.target \in Entries
    /\ worker["write"] = "acting" => Ident[job.disk] = Ident[job.target.disk]
    /\ \A i \in DOMAIN dialogs :
         dialogs[i].kind \in {"clean1", "clean2"} =>
             dialogs[i].index \in 1..Numbers /\ targets[dialogs[i].index] \in Entries
    /\ clean_running => clean_job.target \in Entries

\* Whoever runs again has taken a green banner down that rested on its last run.
GreenInv ==
    /\ \/ ~green
       \/ "write" \in proven /\ worker["write"] = "idle"
       \/ "clean" \in proven /\ worker["clean"] = "idle"
    /\ "write" \in Waiting /\ GreenWrite => "write" \in proven
    /\ "clean" \in Waiting /\ clean_job.ok /\ clean_job.reported => "clean" \in proven

\* The controls are only disabled while there is work or a plan to confirm.
ControlInv ==
    ~controls_enabled =>
        Busy \/ clean_running \/ \E i \in DOMAIN dialogs : dialogs[i].kind = "plan"

GuiIInv ==
    /\ TypeOK /\ ListInv /\ WorkInv /\ DialogInv /\ ClosedInv /\ JobInv /\ GreenInv /\ ControlInv
=============================================================================
