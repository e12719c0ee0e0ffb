------------------------------ MODULE BootMailbox ------------------------------
(***************************************************************************)
(* The RAM mailbox of boot_mailbox.h, store by store.  A reset may come    *)
(* between any two stores of either program.  A warm one leaves SRAM as it *)
(* is, a cold one lets any of its fields decay before the supply is back.  *)
(*                                                                         *)
(* A check word is an exclusive-or of constants and shifted bytes: it is   *)
(* never 0, and no two field contents share one.  So it is modelled as the *)
(* tuple of the bytes it was computed over, which a decayed field (Junk)   *)
(* or a cleared one (Zero) never equals.                                   *)
(*                                                                         *)
(* stores is what the function on the stack has yet to store, in order.    *)
(***************************************************************************)
EXTENDS Naturals, Sequences

CONSTANTS
  Requests,           \* records [command, arg]
  Acks,               \* records [status, req_cmd, detail]
  NoRequest, NoAck,
  Magic, Zero, Junk,  \* contents of a word: its magic, 0, whatever SRAM holds
  Decaying            \* the fields a cold reset may change

ASSUME NothingAssumption == NoRequest \notin Requests /\ NoAck \notin Acks
ASSUME WordAssumption == Magic # Zero /\ Magic # Junk /\ Zero # Junk
ASSUME FieldAssumption ==
  /\ \A r \in Requests :
        r = [command |-> r.command, arg |-> r.arg] /\ Junk \notin {r.command, r.arg}
  /\ \A a \in Acks : a = [status |-> a.status, req_cmd |-> a.req_cmd, detail |-> a.detail]

\* What a field of a request or a report may hold.
Holds(values) == values \cup {Junk}

Commands == Holds({r.command : r \in Requests})
Args == Holds({r.arg : r \in Requests})
Statuses == Holds({a.status : a \in Acks})
ReqCmds == Holds({a.req_cmd : a \in Acks})
Details == Holds({a.detail : a \in Acks})

ASSUME CheckWordAssumption ==
  {Zero, Junk} \cap ((Commands \X Args) \cup (Statuses \X ReqCmds \X Details)) = {}

VARIABLES
  mailbox,
  place,      \* what runs: see Places
  stores,
  asked,      \* history: what the application asked for since a boot last consumed a request
  report,     \* history: the result this boot stores, or stored
  last        \* history: the last result whose last store has landed

mail_vars == <<mailbox, place, stores, asked, report, last>>

RequestFields == {"magic", "command", "arg", "check"}
AckFields == {"ack_magic", "status", "req_cmd", "detail", "ack_check"}
Fields == RequestFields \cup AckFields \cup {"spare"}

ASSUME DecayAssumption == Decaying \subseteq Fields

Places == {"decay", "mailbox", "clearing", "working", "reporting", "trapping", "jump", "app", "fatal"}

\* Mutant: the check word does not cover arg.
boot_mailbox_check_command_only(command, arg) == <<command>>

boot_mailbox_check(command, arg) == <<command, arg>>

boot_mailbox_pending ==
  /\ mailbox["magic"] = Magic
  /\ mailbox["check"] = boot_mailbox_check(mailbox["command"], mailbox["arg"])

Request == [command |-> mailbox["command"], arg |-> mailbox["arg"]]

\* Mutant: the check word does not cover detail.
boot_mailbox_ack_check_no_detail(status, req_cmd, detail) == <<status, req_cmd>>

boot_mailbox_ack_check(status, req_cmd, detail) == <<status, req_cmd, detail>>

boot_mailbox_ack_valid ==
  /\ mailbox["ack_magic"] = Magic
  /\ mailbox["ack_check"] =
        boot_mailbox_ack_check(mailbox["status"], mailbox["req_cmd"], mailbox["detail"])

Ack == [status |-> mailbox["status"], req_cmd |-> mailbox["req_cmd"], detail |-> mailbox["detail"]]

-------------------------------------------------------------------------------
(* Functions that store.                                                   *)

boot_mailbox_clear == << <<"magic", Zero>>, <<"check", Zero>> >>

\* Mutant: the check word is not written.
boot_mailbox_set_ack_unsealed(a) ==
  << <<"ack_magic", Zero>>, <<"status", a.status>>, <<"req_cmd", a.req_cmd>>,
     <<"detail", a.detail>>, <<"ack_magic", Magic>> >>

boot_mailbox_set_ack(a) ==
  << <<"ack_magic", Zero>>, <<"status", a.status>>, <<"req_cmd", a.req_cmd>>,
     <<"detail", a.detail>>,
     <<"ack_check", boot_mailbox_ack_check(a.status, a.req_cmd, a.detail)>>,
     <<"ack_magic", Magic>> >>

\* The application, in the order in which the scripts of this repository do it.
FillRequest(r) ==
  << <<"command", r.command>>, <<"arg", r.arg>>,
     <<"check", boot_mailbox_check(r.command, r.arg)>>, <<"magic", Magic>> >>

\* The next store lands.
Store(from) ==
  /\ place = from /\ stores # << >>
  /\ mailbox' = [mailbox EXCEPT ![Head(stores)[1]] = Head(stores)[2]]
  /\ stores' = Tail(stores)
  /\ UNCHANGED <<place, report>>

-------------------------------------------------------------------------------
(* The bootloader.                                                         *)

Decay ==
  /\ place = "decay"
  /\ \E f \in Decaying : mailbox' = [mailbox EXCEPT ![f] = Junk]
  /\ UNCHANGED <<place, stores, asked, report, last>>

PowerUp ==
  /\ place = "decay" /\ place' = "mailbox"
  /\ UNCHANGED <<mailbox, stores, asked, report, last>>

\* boot_process_mailbox() without a request: the mailbox is left as it is.
NothingPending ==
  /\ place = "mailbox" /\ ~ boot_mailbox_pending
  /\ place' = "working"
  /\ UNCHANGED <<mailbox, stores, asked, report, last>>

\* Mutant: the request is not cleared.
RequestHandled_uncleared ==
  /\ place = "mailbox" /\ boot_mailbox_pending
  /\ place' = "clearing" /\ stores' = << >>
  /\ UNCHANGED <<mailbox, asked, report, last>>

\* What it does with a request, until it clears it, is in Bootloader.
RequestHandled ==
  /\ place = "mailbox" /\ boot_mailbox_pending
  /\ place' = "clearing" /\ stores' = boot_mailbox_clear
  /\ UNCHANGED <<mailbox, asked, report, last>>

ClearStore ==
  /\ Store("clearing")
  /\ asked' = {}
  /\ UNCHANGED last

MailboxCleared ==
  /\ place = "clearing" /\ stores = << >>
  /\ place' = "working"
  /\ UNCHANGED <<mailbox, stores, asked, report, last>>

\* hal_entry() has done the rest of its work, and stores its report.
BeginReport(a, to) ==
  /\ place = "working"
  /\ place' = to /\ report' = a /\ stores' = boot_mailbox_set_ack(a)
  /\ UNCHANGED <<mailbox, asked, last>>

AckStore ==
  /\ Store("reporting") \/ Store("trapping")
  /\ last' = IF Len(stores) = 1 THEN report ELSE last
  /\ UNCHANGED asked

BootMailboxStep ==
  \/ Decay \/ PowerUp \/ NothingPending \/ RequestHandled
  \/ ClearStore \/ MailboxCleared \/ AckStore

-------------------------------------------------------------------------------
(* The application, and a reset.                                           *)

AppAsk ==
  /\ place = "app" /\ stores = << >>
  /\ \E r \in Requests :
        /\ stores' = FillRequest(r)
        /\ asked' = asked \cup {r}
  /\ UNCHANGED <<mailbox, place, report, last>>

AppStore == Store("app") /\ UNCHANGED <<asked, last>>

MailboxReset ==
  /\ place' \in {"decay", "mailbox"}
  /\ stores' = << >>
  /\ report' = NoAck
  /\ UNCHANGED <<mailbox, asked, last>>

\* SRAM after a first power-on holds anything but what the check words would accept.
MailboxInit ==
  /\ mailbox = [f \in Fields |-> Junk]
  /\ place = "mailbox" /\ stores = << >>
  /\ asked = {} /\ report = NoAck /\ last = NoAck

MailboxTypeOK ==
  /\ DOMAIN mailbox = Fields
  /\ mailbox["magic"] \in {Magic, Zero, Junk} /\ mailbox["ack_magic"] \in {Magic, Zero, Junk}
  /\ mailbox["command"] \in Commands /\ mailbox["arg"] \in Args
  /\ mailbox["status"] \in Statuses /\ mailbox["req_cmd"] \in ReqCmds /\ mailbox["detail"] \in Details
  /\ place \in Places
  /\ Len(stores) <= 6 /\ \A i \in 1 .. Len(stores) : stores[i][1] \in Fields
  /\ asked \subseteq Requests
  /\ report \in Acks \cup {NoAck} /\ last \in Acks \cup {NoAck}

-------------------------------------------------------------------------------

(* A request the bootloader would accept is one the application made, with *)
(* the argument it made it with, and which no boot has consumed: never the *)
(* mixture of two requests a reset has interrupted, nor a consumed one that *)
(* comes back because the clear or a later request was cut off             *)
(* (boot_mailbox.h: "so the request is processed exactly once").           *)
OnlyWhatWasAsked == boot_mailbox_pending => Request \in asked

(* Whoever reads the acknowledgement, at any instant, sees nothing or the  *)
(* whole of the last report that was completed, through any number of cut  *)
(* or decayed boots (boot_mailbox.h: "a partial write is never accepted",  *)
(* "Rejects random SRAM contents").                                        *)
AckWhole == boot_mailbox_ack_valid => Ack = last

===============================================================================
