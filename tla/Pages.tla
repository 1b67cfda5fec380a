------------------------------- MODULE Pages -------------------------------
(***************************************************************************)
(* The pages of the network menu (src/web/js/network.js): the audit, the   *)
(* capture of interfaces and the LLDP neighbourhood. A page reads the      *)
(* controller again every few seconds. Audit and LLDP are then rewritten   *)
(* whole; the page of capture writes its two forms once, and only its list *)
(* afterwards, so that what is being typed stays.                          *)
(*                                                                         *)
(* A reading may be answered, applied and lost in any order with others.   *)
(* An order (POST or PUT) is one step, and the reading that follows it     *)
(* another. What a closed page still receives goes into elements that are  *)
(* no longer in the document: it is dropped with the page.                 *)
(*                                                                         *)
(* A page is closed with its interval (fermer), but one that another       *)
(* window has taken the place of keeps it: at its next turn that interval  *)
(* finds its page gone, and empties the root of the windows, whatever has  *)
(* been opened there since (LateTick).                                     *)
(***************************************************************************)
EXTENDS Naturals, SequencesExt

CONSTANTS
  Runs,        \* captures that may exist
  Settings,    \* trigger and quota of the capture, or delay of LLDP
  None,
  MaxCalls,    \* bound on the readings under way
  MaxLate      \* bound on the intervals left behind

Titles == {"audit", "capture", "lldp"}
States == {"none", "running", "done", "gone"}

VARIABLES
  run,         \* captures of the controller
  setting,     \* settings of the controller, by page
  page,        \* page that is open; "other": another window, with no interval here
  text,        \* the report to copy by hand has taken the place of the page
  body,        \* what the page shows
  form,        \* the forms of the page of capture were written
  fields,      \* what the fields of the page hold
  list,        \* captures the list shows
  calls,       \* readings under way
  late,        \* intervals whose page is gone, before their next turn
  typed        \* history: last choice of the operator in the fields of capture
vars == <<run, setting, page, text, body, form, fields, list, calls, late, typed>>
controller == <<run, setting>>
shown == <<page, text, body, form, fields, list, typed, late>>

Nothing == [r \in Runs |-> "none"]

TypeOK ==
  /\ run \in [Runs -> States] /\ list \in [Runs -> States]
  /\ setting \in [{"capture", "lldp"} -> Settings]
  /\ page \in Titles \cup {"other", "closed"} /\ text \in BOOLEAN
  /\ body \in {"empty", "shown", "error"} /\ form \in BOOLEAN
  /\ {fields, typed} \subseteq Settings \cup {None}
  /\ Len(calls) <= MaxCalls /\ late \in 0..MaxLate

Init ==
  /\ run = Nothing /\ setting \in [{"capture", "lldp"} -> Settings]
  /\ page = "closed" /\ text = FALSE /\ body = "empty" /\ form = FALSE
  /\ fields = None /\ list = Nothing /\ calls = <<>>
  /\ late = 0 /\ typed = None

-----------------------------------------------------------------------------
(* Readings: of the timer ("tick"), or after an order ("refresh").         *)

Reading(op) == [op |-> op, answer |-> <<>>]
Asked(op) == Len(calls) < MaxCalls /\ calls' = Append(calls, Reading(op))

Tick ==
  /\ page \in Titles /\ ~text /\ Asked("tick")
  /\ UNCHANGED <<controller, shown>>

\* The root of the windows is emptied.
Emptied ==
  /\ page' = "closed" /\ text' = FALSE /\ calls' = <<>> /\ body' = "empty"
  /\ form' = FALSE /\ fields' = None /\ typed' = None /\ list' = Nothing

\* The interval of a page that is gone: a page it closes leaves its own.
LateTick ==
  /\ late > 0 /\ Emptied
  /\ late' = IF page \in Titles /\ ~text THEN late ELSE late - 1
  /\ UNCHANGED controller

Answered(i) ==
  /\ calls[i].answer = <<>>
  /\ calls' = [calls EXCEPT ![i].answer = <<[run |-> run, setting |-> setting]>>]
  /\ UNCHANGED <<controller, shown>>

\* The page of capture: forms the first time, list every time.
pageCapture(answer) ==
  IF ~form
  THEN /\ body' = "shown" /\ form' = TRUE /\ list' = answer.run
       /\ fields' = answer.setting["capture"]
  ELSE /\ UNCHANGED <<body, form, fields>>
       /\ list' = IF body = "shown" THEN answer.run ELSE list

pageLldp(answer) ==
  /\ body' = "shown" /\ fields' = answer.setting["lldp"]
  /\ UNCHANGED <<form, list>>

pageAudit ==
  /\ body' = "shown" /\ UNCHANGED <<form, fields, list>>

\* majTout: the list alone; without a list, nothing.
majTout(answer) ==
  /\ list' = IF body = "shown" THEN answer.run ELSE list
  /\ UNCHANGED <<body, form, fields>>

Applied(i) ==
  /\ calls[i].answer # <<>>
  /\ LET answer == calls[i].answer[1] IN
       \/ calls[i].op = "tick" /\ page = "capture" /\ pageCapture(answer)
       \/ calls[i].op = "tick" /\ page = "lldp" /\ pageLldp(answer)
       \/ calls[i].op = "tick" /\ page = "audit" /\ pageAudit
       \/ calls[i].op = "refresh" /\ majTout(answer)
  /\ calls' = RemoveAt(calls, i)
  /\ UNCHANGED <<controller, page, text, typed, late>>

\* What the page showed gives way to « Serveur injoignable », forms included.
Lost(i) ==
  /\ calls' = RemoveAt(calls, i)
  /\ IF calls[i].op = "tick"
     THEN /\ body' = "error"
          /\ fields' = None /\ typed' = None /\ list' = Nothing
     ELSE UNCHANGED <<body, fields, typed, list>>
  /\ UNCHANGED <<controller, page, text, form, late>>

-----------------------------------------------------------------------------
(* The operator.                                                           *)

ouvrirPage(t) ==
  /\ page = "closed"
  /\ page' = t /\ body' = "empty" /\ form' = FALSE /\ fields' = None
  /\ list' = Nothing /\ typed' = None
  /\ calls' = <<Reading("tick")>>
  /\ UNCHANGED <<controller, text, late>>

OpenOther ==
  /\ page = "closed" /\ page' = "other"
  /\ UNCHANGED <<controller, text, body, form, fields, list, calls, typed, late>>

fermer ==
  /\ page # "closed" /\ ~text
  /\ Emptied /\ UNCHANGED <<controller, late>>

\* « Copier le rapport », when the browser refuses its clipboard: the text takes
\* the place of the page, whose interval goes on.
CopyByHand ==
  /\ page = "audit" /\ body = "shown" /\ ~text /\ late < MaxLate
  /\ text' = TRUE /\ calls' = <<>> /\ late' = late + 1
  /\ UNCHANGED <<controller, page, body, form, fields, list, typed>>

CloseText ==
  /\ text /\ Emptied /\ UNCHANGED <<controller, late>>

On(t) == page = t /\ body = "shown" /\ ~text

Type(v) ==
  /\ On("capture") /\ v # fields
  /\ fields' = v /\ typed' = v
  /\ UNCHANGED <<controller, page, text, body, form, list, calls, late>>

\* An order is done or not, and its answer may be lost; the list follows.
Order(done) ==
  /\ On("capture") /\ Asked("refresh")
  /\ done \/ UNCHANGED controller
  /\ UNCHANGED shown

Start ==
  Order(\E r \in Runs : /\ run[r] = "none" /\ run' = [run EXCEPT ![r] = "running"]
                        /\ UNCHANGED setting)
\* The buttons are those of the list, the captures those of the controller.
Stop(r) ==
  /\ list[r] = "running"
  /\ Order(run[r] = "running" /\ run' = [run EXCEPT ![r] = "done"] /\ UNCHANGED setting)
Delete(r) ==
  /\ list[r] = "done"
  /\ Order(run[r] = "done" /\ run' = [run EXCEPT ![r] = "gone"] /\ UNCHANGED setting)
Apply ==
  Order(setting' = [setting EXCEPT !["capture"] = fields] /\ UNCHANGED run)

\* The delay of LLDP leaves as soon as it is chosen.
ChooseDelay(v) ==
  /\ On("lldp")
  /\ fields' = v /\ setting' \in {setting, [setting EXCEPT !["lldp"] = v]}
  /\ UNCHANGED <<run, page, text, body, form, list, calls, typed, late>>

\* Other stations, and the ends of the captures.
Elsewhere ==
  /\ \/ \E r \in Runs, s \in {<<"none", "running">>, <<"running", "done">>, <<"done", "gone">>} :
          run[r] = s[1] /\ run' = [run EXCEPT ![r] = s[2]] /\ UNCHANGED setting
     \/ \E p \in {"capture", "lldp"}, v \in Settings :
          setting' = [setting EXCEPT ![p] = v] /\ UNCHANGED run
  /\ UNCHANGED <<shown, calls>>

Next ==
  \/ Tick \/ LateTick
  \/ \E i \in DOMAIN calls : Answered(i) \/ Applied(i) \/ Lost(i)
  \/ \E t \in Titles : ouvrirPage(t)
  \/ OpenOther \/ fermer \/ CopyByHand \/ CloseText
  \/ \E v \in Settings : Type(v) \/ ChooseDelay(v)
  \/ Start \/ Apply \/ \E r \in Runs : Stop(r) \/ Delete(r)
  \/ Elsewhere

Spec == Init /\ [][Next]_vars

-----------------------------------------------------------------------------
(* What the operator has typed in the forms of capture stays there, and is *)
(* what « Appliquer » sends, as long as their page is open, whatever       *)
(* readings come back meanwhile and whatever other stations apply: the     *)
(* forms are written once (pageCapture, `form`). A page that has shown an  *)
(* error has no form left, and one that a late interval closes takes its   *)
(* forms with it (LateTick).                                               *)
TypedKept == page = "capture" /\ typed # None => fields = typed

(* « Supprimer » is offered for captures that are over, however late the   *)
(* readings behind the list are: it never meets one that runs.             *)
DoneIsDone == \A r \in Runs : list[r] = "done" => run[r] \in {"done", "gone"}

\* The page of capture neither loses what is typed nor offers to delete a
\* capture that runs.
FormsHold == TypedKept /\ DoneIsDone
=============================================================================
