------------------------------ MODULE Reports ------------------------------
(***************************************************************************)
(* E-mail reports.                                                         *)
(*                                                                         *)
(* An hourly timer, or an administrator, checks whether the daily report   *)
(* or the reminder of the coming reset is due, mails both in one letter    *)
(* and then records what was mailed.  All of it happens under the          *)
(* operation lock; the letter and its record are two steps nothing ties    *)
(* together.                                                               *)
(*                                                                         *)
(* A letter is the set of its occasions: [kind, key], the key a day in the *)
(* display zone or the instant of a reset.                                 *)
(***************************************************************************)
EXTENDS Accounting, Bags

CONSTANTS
  Hourly,          \* sbctl-email.service
  Checkers,        \* administrators running `sbctl email check`
  DisplayZone,     \* client_display_timezone
  ReminderWindow   \* reset_reminder_hours; 0 asks for none

Mailers == {Hourly} \cup Checkers

Letter == [occasions : SUBSET [kind : {"daily", "reminder"}, key : Int],
           mailed : BOOLEAN]

ASSUME ReportsAssumption ==
  /\ Hourly \notin Checkers /\ Mailers \cap (Procs \cup {None}) = {}
  /\ DisplayZone \in Zones
  /\ ReminderWindow \in Nat
  /\ None \notin Int \cup Letter

VARIABLES
  delivery,   \* var/lib/sbctl/email-state.json
  letter,     \* what each mailer is mailing
  inbox       \* how often each occasion reached the recipient

post    == <<delivery, letter, inbox>>
allVars == <<vars, post>>

-----------------------------------------------------------------------------
DayOf == [t \in Moments |-> Wall(DisplayZone, t) \div Day]

(* Neither the day nor the next reset of a schedule moves back as time     *)
(* passes: no zone is set back from one day into the one before.           *)
ASSUME ForwardAssumption ==
  /\ \A t \in Moments : DayOf[t] \in Int
  /\ \A s \in Schedules, t \in Moments : Period[s][t].next \in Int
  /\ \A t, u \in Moments : t <= u =>
       /\ DayOf[t] <= DayOf[u]
       /\ \A s \in Schedules : Period[s][t].next <= Period[s][u].next

Today(now) == [kind |-> "daily", key |-> DayOf[now]]

(* report(): a state that does not describe the period names no reset. *)
ComingReset(now) ==
  LET next == Period[config.schedule][now].next
  IN  {[kind |-> "reminder", key |-> next] :
         n \in {n \in {next} : Current /\ n - now \in 1..ReminderWindow}}

Due(now) ==
  {o \in {Today(now)} \cup ComingReset(now) : delivery[o.kind] # o.key}

InitPost ==
  /\ delivery = [kind \in {"daily", "reminder"} |-> None]
  /\ letter = [m \in Mailers |-> None]
  /\ inbox = EmptyBag

Done(m) ==
  /\ letter' = [letter EXCEPT ![m] = None]
  /\ lock' = None

Undisturbed ==
  UNCHANGED <<config, state, pc, job, clock, boot, wire, zero, audit, commands, resets>>

CheckFor(m, occasions) ==
  /\ letter[m] = None /\ lock = None
  /\ letter' = [letter EXCEPT ![m] = [occasions |-> occasions, mailed |-> FALSE]]
  /\ lock' = m
  /\ Undisturbed /\ UNCHANGED <<faults, delivery, inbox>>

CheckForReport(m) == Today(clock) \in Due(clock) /\ CheckFor(m, Due(clock))

(* With the lock it reads the configuration, the delivery state and the    *)
(* clock; a check that finds nothing due changes nothing.                  *)
Check(m) == Due(clock) # {} /\ CheckFor(m, Due(clock))

Deliver(m) ==
  /\ letter[m] # None /\ ~letter[m].mailed
  /\ inbox' = inbox (+) SetToBag(letter[m].occasions)
  /\ letter' = [letter EXCEPT ![m].mailed = TRUE]
  /\ Undisturbed /\ UNCHANGED <<lock, faults, delivery>>

(* curl reports a failure, also of a letter the server had accepted. *)
DeliverFails(m) ==
  /\ letter[m] # None /\ ~letter[m].mailed
  /\ Fault
  /\ \E accepted \in {{}, letter[m].occasions} : inbox' = inbox (+) SetToBag(accepted)
  /\ Done(m)
  /\ Undisturbed /\ UNCHANGED delivery

(* What would be recorded without the record read before. *)
RecordedAnew(kind, occasions) ==
  LET keys == {o.key : o \in {o \in occasions : o.kind = kind}}
  IN  IF keys = {} THEN None ELSE CHOOSE key \in keys : TRUE

(* The record of the other kind stays as it was read.                      *)
Recorded(kind, occasions) ==
  LET keys == {o.key : o \in {o \in occasions : o.kind = kind}}
  IN  IF keys = {} THEN delivery[kind] ELSE CHOOSE key \in keys : TRUE

Record(m) ==
  /\ letter[m] # None /\ letter[m].mailed
  /\ delivery' = [kind \in DOMAIN delivery |-> Recorded(kind, letter[m].occasions)]
  /\ Done(m)
  /\ Undisturbed /\ UNCHANGED <<faults, inbox>>

(* The record cannot be written, or the process is ended (TimeoutStartSec). *)
MailerDies(m) ==
  /\ letter[m] # None
  /\ Fault
  /\ Done(m)
  /\ Undisturbed /\ UNCHANGED <<delivery, inbox>>

RebootAll ==
  /\ Reboot
  /\ letter' = [m \in Mailers |-> None]
  /\ UNCHANGED <<delivery, inbox>>

NextAll ==
  \/ Running /\ UNCHANGED post
  \/ \E m \in Mailers :
       Check(m) \/ Deliver(m) \/ DeliverFails(m) \/ Record(m) \/ MailerDies(m)
  \/ RebootAll

SpecAll == Init /\ InitPost /\ [][NextAll]_allVars

(* Both timers fire again and again, and what has begun goes on.  A check  *)
(* that waits for the lock gets it though the accounting timer keeps       *)
(* taking it: flock wakes those who wait.                                  *)
FairSpecAll ==
  /\ SpecAll
  /\ WF_allVars(TimerFires /\ UNCHANGED post)
  /\ \A p \in Procs : WF_allVars(Step(p) /\ UNCHANGED post)
  /\ SF_allVars(Check(Hourly))
  /\ \A m \in Mailers : WF_allVars(Deliver(m)) /\ WF_allVars(Record(m))

-----------------------------------------------------------------------------
(* What is recorded as mailed was mailed, and no day or reset is mailed    *)
(* again unless a record was lost, by a death, a failed delivery or a      *)
(* reboot between the letter and its record; a reset also when the         *)
(* schedule was changed and changed back (send, due).                      *)
MailedAsRecorded ==
  /\ \A kind \in DOMAIN delivery :
       delivery[kind] # None => BagIn([kind |-> kind, key |-> delivery[kind]], inbox)
  /\ \A o \in BagToSet(inbox) :
       inbox[o] <= 1 + faults + (IF o.kind = "daily" THEN 0 ELSE commands)

(* Nothing stays due: once the clock and the configuration rest, the       *)
(* hourly timer has mailed the day's report and the reminder, whatever     *)
(* failed before (send).                                                   *)
NothingOwed == <>[](Due(clock) = {})
=============================================================================
