---------------------------- MODULE HandOverProofs ----------------------------
(***************************************************************************)
(* Proofs about the mailbox and the hand-off, for every set of requests,   *)
(* reports and vector tables and every number of interrupt registers, with *)
(* a reset between any two stores and any fields lost to a cold one.       *)
(***************************************************************************)
EXTENDS HandOver, TLAPS

-------------------------------------------------------------------------------
(* What a function that stores has yet to store.                           *)

ClearLeft == { << <<"magic", Zero>>, <<"check", Zero>> >>, << <<"check", Zero>> >>, << >> }

Sealed(r) == boot_mailbox_check(r.command, r.arg)

FillLeft(r) ==
  { << <<"command", r.command>>, <<"arg", r.arg>>, <<"check", Sealed(r)>>, <<"magic", Magic>> >>,
    << <<"arg", r.arg>>, <<"check", Sealed(r)>>, <<"magic", Magic>> >>,
    << <<"check", Sealed(r)>>, <<"magic", Magic>> >>,
    << <<"magic", Magic>> >> }

AckSealed(a) == boot_mailbox_ack_check(a.status, a.req_cmd, a.detail)

\* A report without its first store, which takes the old one back, without its second, and so on.
Left1(a) == << <<"ack_magic", Magic>> >>
Left2(a) == << <<"ack_check", AckSealed(a)>>, <<"ack_magic", Magic>> >>
Left3(a) == << <<"detail", a.detail>>, <<"ack_check", AckSealed(a)>>, <<"ack_magic", Magic>> >>
Left4(a) == << <<"req_cmd", a.req_cmd>>, <<"detail", a.detail>>,
               <<"ack_check", AckSealed(a)>>, <<"ack_magic", Magic>> >>
Left5(a) == << <<"status", a.status>>, <<"req_cmd", a.req_cmd>>, <<"detail", a.detail>>,
               <<"ack_check", AckSealed(a)>>, <<"ack_magic", Magic>> >>

ReportLeft(a) == {Left1(a), Left2(a), Left3(a), Left4(a), Left5(a)}

\* They are as many as they look.
LEMMA LeftsDiffer ==
  ASSUME NEW a
  PROVE  /\ boot_mailbox_set_ack(a) \notin {Left1(a), Left2(a), Left3(a), Left4(a), Left5(a), << >>}
         /\ Left5(a) \notin {Left1(a), Left2(a), Left3(a), Left4(a), << >>}
         /\ Left4(a) \notin {Left1(a), Left2(a), Left3(a), << >>}
         /\ Left3(a) \notin {Left1(a), Left2(a), << >>}
         /\ Left2(a) \notin {Left1(a), << >>}
         /\ Left1(a) # << >>
<1>1. /\ boot_mailbox_set_ack(a) # Left1(a) /\ boot_mailbox_set_ack(a) # Left2(a)
      /\ boot_mailbox_set_ack(a) # Left3(a) /\ boot_mailbox_set_ack(a) # Left4(a)
      /\ boot_mailbox_set_ack(a) # Left5(a) /\ boot_mailbox_set_ack(a) # << >>
  BY DEF boot_mailbox_set_ack, Left1, Left2, Left3, Left4, Left5
<1>2. Left5(a) \notin {Left1(a), Left2(a), Left3(a), Left4(a), << >>}
  BY DEF Left1, Left2, Left3, Left4, Left5
<1>3. Left4(a) \notin {Left1(a), Left2(a), Left3(a), << >>}
  BY DEF Left1, Left2, Left3, Left4
<1>4. Left3(a) \notin {Left1(a), Left2(a), << >>}
  BY DEF Left1, Left2, Left3
<1>5. Left2(a) \notin {Left1(a), << >>} /\ Left1(a) # << >>
  BY DEF Left1, Left2
<1> QED BY <1>1, <1>2, <1>3, <1>4, <1>5

\* The next of them.
LEMMA NextStore ==
  ASSUME NEW from, Store(from), NEW f, NEW v, NEW rest, Head(stores) = <<f, v>>, Tail(stores) = rest
  PROVE  mailbox' = [mailbox EXCEPT ![f] = v] /\ stores' = rest
<1>1. Head(stores)[1] = f /\ Head(stores)[2] = v
  OBVIOUS
<1> QED BY <1>1 DEF Store

-------------------------------------------------------------------------------
(* The invariant.                                                          *)

FieldTypes ==
  /\ DOMAIN mailbox = Fields
  /\ mailbox["magic"] \in {Magic, Zero, Junk} /\ mailbox["ack_magic"] \in {Magic, Zero, Junk}
  /\ mailbox["command"] \in Commands /\ mailbox["arg"] \in Args
  /\ mailbox["status"] \in Statuses /\ mailbox["req_cmd"] \in ReqCmds /\ mailbox["detail"] \in Details
  /\ asked \subseteq Requests
  /\ report \in Acks \cup {NoAck}

\* What is on the stack of which program.
StackInv ==
  /\ stores # << >> => place \in {"clearing", "reporting", "trapping", "app"}
  /\ place = "clearing" => stores \in ClearLeft
  /\ place \in {"reporting", "trapping"} =>
        report \in Acks /\ stores \in {boot_mailbox_set_ack(report), << >>} \cup ReportLeft(report)
  /\ place = "app" /\ stores # << >> => \E r \in asked : stores \in FillLeft(r)

\* A check word under a magic was computed over a request that was made.
RequestSealed ==
  \A c \in Commands, a \in Args :
    mailbox["magic"] = Magic /\ mailbox["check"] = <<c, a>> => [command |-> c, arg |-> a] \in asked

SealInv ==
  /\ RequestSealed
  /\ place = "clearing" /\ stores = << <<"check", Zero>> >> => mailbox["magic"] # Magic
  /\ place = "app" /\ stores = << <<"magic", Magic>> >> =>
        \E r \in asked : mailbox["check"] = <<r.command, r.arg>>

\* And over the last report that was completed.
ReportSealed ==
  \A s \in Statuses, q \in ReqCmds, d \in Details :
    mailbox["ack_magic"] = Magic /\ mailbox["ack_check"] = <<s, q, d>> =>
      [status |-> s, req_cmd |-> q, detail |-> d] = last

AckSealInv ==
  /\ ReportSealed
  /\ place \in {"reporting", "trapping"} =>
        /\ stores \in ReportLeft(report) => mailbox["ack_magic"] # Magic
        /\ stores = << <<"ack_magic", Magic>> >> =>
              mailbox["ack_check"] = <<report.status, report.req_cmd, report.detail>>

MailInv == FieldTypes /\ StackInv /\ SealInv /\ AckSealInv

\* SRAM after the first power-on.
LEMMA MailInit == Init => MailInv
  BY WordAssumption
  DEF Init, MailboxInit, MailInv, FieldTypes, StackInv, SealInv, AckSealInv, RequestSealed, ReportSealed, Fields, RequestFields,
      AckFields, Commands, Args, Statuses, ReqCmds, Details, Holds

\* A field that is lost.
LEMMA JunkInv ==
  ASSUME MailInv,
         DOMAIN mailbox' = Fields, \A f \in Fields : mailbox'[f] \in {mailbox[f], Junk},
         UNCHANGED <<asked, last>>, report' \in {report, NoAck}, stores' = << >>,
         place' \notin {"clearing", "reporting", "trapping"}
  PROVE  MailInv'
<1> USE DEF MailInv, Fields, RequestFields, AckFields
<1>1. FieldTypes'
  BY DEF FieldTypes, Commands, Args, Statuses, ReqCmds, Details, Holds
<1>2. StackInv'
  BY DEF StackInv
<1>3. \A c \in Commands, a \in Args : Junk # <<c, a>>
  BY CheckWordAssumption
<1>4. \A s \in Statuses, q \in ReqCmds, d \in Details : Junk # <<s, q, d>>
  BY CheckWordAssumption
<1>5. SealInv'
  BY <1>3, WordAssumption DEF SealInv, RequestSealed
<1>6. AckSealInv'
  BY <1>4, WordAssumption DEF AckSealInv, ReportSealed
<1> QED BY <1>1, <1>2, <1>5, <1>6

\* A store to a field that no magic and no check word is in.
LEMMA PlainStore ==
  ASSUME FieldTypes, RequestSealed, ReportSealed, UNCHANGED <<asked, report, last>>,
         NEW f \in {"command", "arg", "status", "req_cmd", "detail"}, NEW v,
         mailbox' = [mailbox EXCEPT ![f] = v],
         f = "command" => v \in Commands, f = "arg" => v \in Args,
         f = "status" => v \in Statuses, f = "req_cmd" => v \in ReqCmds, f = "detail" => v \in Details
  PROVE  /\ FieldTypes' /\ RequestSealed' /\ ReportSealed'
         /\ mailbox'["magic"] = mailbox["magic"] /\ mailbox'["ack_magic"] = mailbox["ack_magic"]
<1>1. FieldTypes'
  BY DEF FieldTypes, Fields, RequestFields, AckFields
<1>2. \A g \in {"magic", "check", "ack_magic", "ack_check"} : mailbox'[g] = mailbox[g]
  BY DEF FieldTypes, Fields, RequestFields, AckFields
<1>3. RequestSealed'
  BY <1>2 DEF RequestSealed
<1>4. ReportSealed'
  BY <1>2 DEF ReportSealed
<1> QED BY <1>1, <1>2, <1>3, <1>4

\* The two stores that take a request back.
LEMMA ClearInv ==
  ASSUME MailInv, ClearStore
  PROVE  MailInv'
<1> USE DEF MailInv
<1>1. /\ place = "clearing" /\ place' = place /\ stores # << >>
      /\ asked' = {} /\ UNCHANGED <<report, last>>
  BY DEF ClearStore, Store
<1>2. CASE stores = << <<"magic", Zero>>, <<"check", Zero>> >>
  <2>1. mailbox' = [mailbox EXCEPT !["magic"] = Zero] /\ stores' = << <<"check", Zero>> >>
    <3>1. Head(stores) = <<"magic", Zero>>
      BY <1>2 DEF ClearStore
    <3>2. Tail(stores) = << <<"check", Zero>> >>
      BY <1>2 DEF ClearStore
    <3> QED BY <1>2, <3>1, <3>2, NextStore DEF ClearStore
  <2> QED BY <1>1, <2>1, WordAssumption DEF FieldTypes, StackInv, SealInv, AckSealInv, RequestSealed, ReportSealed, ClearLeft, Fields,
                                            RequestFields, AckFields
<1>3. CASE stores = << <<"check", Zero>> >>
  <2>1. mailbox' = [mailbox EXCEPT !["check"] = Zero] /\ stores' = << >>
    <3>1. Head(stores) = <<"check", Zero>>
      BY <1>3 DEF ClearStore
    <3>2. Tail(stores) = << >>
      BY <1>3 DEF ClearStore
    <3> QED BY <1>3, <3>1, <3>2, NextStore DEF ClearStore
  <2> QED BY <1>1, <1>3, <2>1 DEF FieldTypes, StackInv, SealInv, AckSealInv, RequestSealed, ReportSealed, ClearLeft, Fields,
                                  RequestFields, AckFields
<1> QED BY <1>1, <1>2, <1>3 DEF StackInv, ClearLeft

\* A request the application makes, up to any of its stores.
LEMMA AppInv ==
  ASSUME MailInv, AppAsk \/ AppStore
  PROVE  MailInv'
<1> USE DEF MailInv
<1>1. CASE AppAsk
  <2>1. PICK r \in Requests : stores' = FillRequest(r) /\ asked' = asked \cup {r}
    BY <1>1 DEF AppAsk
  <2>2. FillRequest(r) \in FillLeft(r) /\ FillRequest(r) # << <<"magic", Magic>> >>
    BY DEF FillRequest, FillLeft, Sealed
  <2> QED BY <1>1, <2>1, <2>2 DEF AppAsk, FieldTypes, StackInv, SealInv, AckSealInv, RequestSealed, ReportSealed
<1>2. CASE AppStore
  <2>1. place = "app" /\ place' = "app" /\ stores # << >> /\ UNCHANGED <<asked, report, last>> /\ Store("app")
    BY <1>2 DEF AppStore, Store
  <2>2. PICK r \in asked : stores \in FillLeft(r)
    BY <2>1 DEF StackInv
  <2>3. r \in Requests /\ r.command \in Commands /\ r.arg \in Args
        /\ r = [command |-> r.command, arg |-> r.arg]
    BY <2>2, FieldAssumption DEF FieldTypes, Commands, Args, Holds
  <2> USE DEF StackInv, SealInv, AckSealInv
  <2>4. CASE stores = << <<"command", r.command>>, <<"arg", r.arg>>, <<"check", Sealed(r)>>,
                         <<"magic", Magic>> >>
    <3>1. /\ mailbox' = [mailbox EXCEPT !["command"] = r.command]
          /\ stores' = << <<"arg", r.arg>>, <<"check", Sealed(r)>>, <<"magic", Magic>> >>
      <4>1. Head(stores) = <<"command", r.command>>
        BY <2>1, <2>4
      <4>2. Tail(stores) = << <<"arg", r.arg>>, <<"check", Sealed(r)>>, <<"magic", Magic>> >>
        BY <2>1, <2>4
      <4> QED BY <2>1, <2>4, <4>1, <4>2, NextStore
    <3>2. stores' \in FillLeft(r) /\ stores' # << <<"magic", Magic>> >>
      BY <3>1 DEF FillLeft
    <3>3. FieldTypes' /\ RequestSealed' /\ ReportSealed'
      BY <2>1, <2>3, <3>1, PlainStore
    <3> QED BY <2>1, <2>2, <3>2, <3>3
  <2>5. CASE stores = << <<"arg", r.arg>>, <<"check", Sealed(r)>>, <<"magic", Magic>> >>
    <3>1. /\ mailbox' = [mailbox EXCEPT !["arg"] = r.arg]
          /\ stores' = << <<"check", Sealed(r)>>, <<"magic", Magic>> >>
      <4>1. Head(stores) = <<"arg", r.arg>>
        BY <2>1, <2>5
      <4>2. Tail(stores) = << <<"check", Sealed(r)>>, <<"magic", Magic>> >>
        BY <2>1, <2>5
      <4> QED BY <2>1, <2>5, <4>1, <4>2, NextStore
    <3>2. stores' \in FillLeft(r) /\ stores' # << <<"magic", Magic>> >>
      BY <3>1 DEF FillLeft
    <3>3. FieldTypes' /\ RequestSealed' /\ ReportSealed'
      BY <2>1, <2>3, <3>1, PlainStore
    <3> QED BY <2>1, <2>2, <3>2, <3>3
  <2>6. CASE stores = << <<"check", Sealed(r)>>, <<"magic", Magic>> >>
    <3>1. /\ mailbox' = [mailbox EXCEPT !["check"] = Sealed(r)]
          /\ stores' = << <<"magic", Magic>> >>
      <4>1. Head(stores) = <<"check", Sealed(r)>>
        BY <2>1, <2>6
      <4>2. Tail(stores) = << <<"magic", Magic>> >>
        BY <2>1, <2>6
      <4> QED BY <2>1, <2>6, <4>1, <4>2, NextStore
    <3>2. stores' \in FillLeft(r)
      BY <3>1 DEF FillLeft
    <3>3. mailbox'["check"] = <<r.command, r.arg>>
      BY <3>1 DEF Sealed, boot_mailbox_check, FieldTypes, Fields, RequestFields
    <3>4. FieldTypes' /\ RequestSealed' /\ ReportSealed'
      BY <2>1, <2>2, <2>3, <3>1, <3>3 DEF FieldTypes, RequestSealed, ReportSealed, Fields, RequestFields,
                                          AckFields
    <3> QED BY <2>1, <2>2, <3>1, <3>2, <3>3, <3>4
  <2>7. CASE stores = << <<"magic", Magic>> >>
    <3>1. mailbox' = [mailbox EXCEPT !["magic"] = Magic] /\ stores' = << >>
      <4>1. Head(stores) = <<"magic", Magic>>
        BY <2>1, <2>7
      <4>2. Tail(stores) = << >>
        BY <2>1, <2>7
      <4> QED BY <2>1, <2>7, <4>1, <4>2, NextStore
    <3>2. PICK q \in asked : mailbox["check"] = <<q.command, q.arg>>
      BY <2>1, <2>7
    <3>3. q = [command |-> q.command, arg |-> q.arg]
      BY <3>2, FieldAssumption DEF FieldTypes
    <3>4. FieldTypes' /\ RequestSealed' /\ ReportSealed'
      BY <2>1, <3>1, <3>2, <3>3 DEF FieldTypes, RequestSealed, ReportSealed, Fields, RequestFields,
                                    AckFields
    <3> QED BY <2>1, <3>1, <3>4
  <2> QED BY <2>2, <2>4, <2>5, <2>6, <2>7 DEF FillLeft
<1> QED BY <1>1, <1>2

\* The report of a boot, up to any of its stores.
LEMMA ReportInv ==
  ASSUME MailInv, AckStore
  PROVE  MailInv'
<1> USE DEF MailInv
<1>1. PICK from \in {"reporting", "trapping"} : Store(from)
  BY DEF AckStore
<1>2. /\ place = from /\ place' = place /\ stores # << >> /\ UNCHANGED <<asked, report>>
      /\ last' = IF Len(stores) = 1 THEN report ELSE last
  BY <1>1 DEF AckStore, Store
<1>3. report \in Acks /\ stores \in {boot_mailbox_set_ack(report)} \cup ReportLeft(report)
  BY <1>1, <1>2 DEF StackInv
<1> DEFINE a == report
<1>4. /\ a.status \in Statuses /\ a.req_cmd \in ReqCmds /\ a.detail \in Details
      /\ a = [status |-> a.status, req_cmd |-> a.req_cmd, detail |-> a.detail]
  BY <1>3, FieldAssumption DEF Statuses, ReqCmds, Details, Holds
<1> HIDE DEF a
<1> USE DEF StackInv, SealInv, AckSealInv
<1>5. CASE stores = boot_mailbox_set_ack(a)
  <2>1. /\ mailbox' = [mailbox EXCEPT !["ack_magic"] = Zero]
        /\ stores' = << <<"status", a.status>>, <<"req_cmd", a.req_cmd>>, <<"detail", a.detail>>,
                        <<"ack_check", AckSealed(a)>>, <<"ack_magic", Magic>> >>
    <3>1. Head(stores) = <<"ack_magic", Zero>>
      BY <1>1, <1>5 DEF boot_mailbox_set_ack, AckSealed
    <3>2. Tail(stores) = << <<"status", a.status>>, <<"req_cmd", a.req_cmd>>, <<"detail", a.detail>>,
                        <<"ack_check", AckSealed(a)>>, <<"ack_magic", Magic>> >>
      BY <1>1, <1>5 DEF boot_mailbox_set_ack, AckSealed
    <3> QED BY <1>1, <1>5, <3>1, <3>2, NextStore DEF boot_mailbox_set_ack, AckSealed
  <2>2. stores' \in ReportLeft(a) /\ stores' # << <<"ack_magic", Magic>> >>
    BY <2>1 DEF ReportLeft, Left1, Left2, Left3, Left4, Left5
  <2>3. last' = last
    BY <1>2, <1>5 DEF boot_mailbox_set_ack
  <2>4. /\ FieldTypes' /\ RequestSealed' /\ ReportSealed'
        /\ mailbox'["ack_magic"] # Magic
    BY <1>2, <2>1, <2>3, WordAssumption DEF FieldTypes, RequestSealed, ReportSealed, Fields,
                                            RequestFields, AckFields
  <2> QED BY <1>1, <1>2, <1>3, <2>2, <2>4 DEF a
<1>6. CASE stores \in ReportLeft(a)
  <2>1. mailbox["ack_magic"] # Magic
    BY <1>1, <1>2, <1>6 DEF a
  <2>3. CASE stores = << <<"status", a.status>>, <<"req_cmd", a.req_cmd>>, <<"detail", a.detail>>,
                         <<"ack_check", AckSealed(a)>>, <<"ack_magic", Magic>> >>
    <3>1. /\ mailbox' = [mailbox EXCEPT !["status"] = a.status]
          /\ stores' = << <<"req_cmd", a.req_cmd>>, <<"detail", a.detail>>,
                          <<"ack_check", AckSealed(a)>>, <<"ack_magic", Magic>> >>
      <4>1. Head(stores) = <<"status", a.status>>
        BY <1>1, <2>3
      <4>2. Tail(stores) = << <<"req_cmd", a.req_cmd>>, <<"detail", a.detail>>,
                          <<"ack_check", AckSealed(a)>>, <<"ack_magic", Magic>> >>
        BY <1>1, <2>3
      <4> QED BY <1>1, <2>3, <4>1, <4>2, NextStore
    <3>2. stores' \in ReportLeft(a) /\ stores' # << <<"ack_magic", Magic>> >> /\ last' = last
      BY <1>2, <2>3, <3>1 DEF ReportLeft, Left1, Left2, Left3, Left4, Left5
    <3>3. /\ FieldTypes' /\ RequestSealed' /\ ReportSealed'
          /\ mailbox'["ack_magic"] # Magic
      BY <1>2, <1>4, <2>1, <3>1, <3>2, PlainStore
    <3> QED BY <1>1, <1>2, <1>3, <3>2, <3>3 DEF a
  <2>4. CASE stores = << <<"req_cmd", a.req_cmd>>, <<"detail", a.detail>>,
                         <<"ack_check", AckSealed(a)>>, <<"ack_magic", Magic>> >>
    <3>1. /\ mailbox' = [mailbox EXCEPT !["req_cmd"] = a.req_cmd]
          /\ stores' = << <<"detail", a.detail>>, <<"ack_check", AckSealed(a)>>, <<"ack_magic", Magic>> >>
      <4>1. Head(stores) = <<"req_cmd", a.req_cmd>>
        BY <1>1, <2>4
      <4>2. Tail(stores) = << <<"detail", a.detail>>, <<"ack_check", AckSealed(a)>>, <<"ack_magic", Magic>> >>
        BY <1>1, <2>4
      <4> QED BY <1>1, <2>4, <4>1, <4>2, NextStore
    <3>2. stores' \in ReportLeft(a) /\ stores' # << <<"ack_magic", Magic>> >> /\ last' = last
      BY <1>2, <2>4, <3>1 DEF ReportLeft, Left1, Left2, Left3, Left4, Left5
    <3>3. /\ FieldTypes' /\ RequestSealed' /\ ReportSealed'
          /\ mailbox'["ack_magic"] # Magic
      BY <1>2, <1>4, <2>1, <3>1, <3>2, PlainStore
    <3> QED BY <1>1, <1>2, <1>3, <3>2, <3>3 DEF a
  <2>5. CASE stores = << <<"detail", a.detail>>, <<"ack_check", AckSealed(a)>>, <<"ack_magic", Magic>> >>
    <3>1. /\ mailbox' = [mailbox EXCEPT !["detail"] = a.detail]
          /\ stores' = << <<"ack_check", AckSealed(a)>>, <<"ack_magic", Magic>> >>
      <4>1. Head(stores) = <<"detail", a.detail>>
        BY <1>1, <2>5
      <4>2. Tail(stores) = << <<"ack_check", AckSealed(a)>>, <<"ack_magic", Magic>> >>
        BY <1>1, <2>5
      <4> QED BY <1>1, <2>5, <4>1, <4>2, NextStore
    <3>2. stores' \in ReportLeft(a) /\ stores' # << <<"ack_magic", Magic>> >> /\ last' = last
      BY <1>2, <2>5, <3>1 DEF ReportLeft, Left1, Left2, Left3, Left4, Left5
    <3>3. /\ FieldTypes' /\ RequestSealed' /\ ReportSealed'
          /\ mailbox'["ack_magic"] # Magic
      BY <1>2, <1>4, <2>1, <3>1, <3>2, PlainStore
    <3> QED BY <1>1, <1>2, <1>3, <3>2, <3>3 DEF a
  <2>6. CASE stores = << <<"ack_check", AckSealed(a)>>, <<"ack_magic", Magic>> >>
    <3>1. /\ mailbox' = [mailbox EXCEPT !["ack_check"] = AckSealed(a)]
          /\ stores' = << <<"ack_magic", Magic>> >>
      <4>1. Head(stores) = <<"ack_check", AckSealed(a)>>
        BY <1>1, <2>6
      <4>2. Tail(stores) = << <<"ack_magic", Magic>> >>
        BY <1>1, <2>6
      <4> QED BY <1>1, <2>6, <4>1, <4>2, NextStore
    <3>2. stores' \in ReportLeft(a) /\ last' = last
      BY <1>2, <2>6, <3>1 DEF ReportLeft, Left1, Left2, Left3, Left4, Left5
    <3>3. mailbox'["ack_check"] = <<a.status, a.req_cmd, a.detail>>
      BY <3>1 DEF AckSealed, boot_mailbox_ack_check, FieldTypes, Fields, AckFields
    <3>4. /\ FieldTypes' /\ RequestSealed' /\ ReportSealed'
          /\ mailbox'["ack_magic"] # Magic
      BY <1>2, <2>1, <3>1, <3>2 DEF FieldTypes, RequestSealed, ReportSealed, Fields, RequestFields,
                                    AckFields
    <3> QED BY <1>1, <1>2, <1>3, <3>1, <3>2, <3>3, <3>4 DEF a
  <2>7. CASE stores = << <<"ack_magic", Magic>> >>
    <3>1. mailbox' = [mailbox EXCEPT !["ack_magic"] = Magic] /\ stores' = << >> /\ last' = a
      <4>1. Head(stores) = <<"ack_magic", Magic>>
        BY <1>1, <1>2, <2>7 DEF a
      <4>2. Tail(stores) = << >>
        BY <1>1, <1>2, <2>7 DEF a
      <4> QED BY <1>1, <1>2, <2>7, <4>1, <4>2, NextStore DEF a
    <3>2. mailbox["ack_check"] = <<a.status, a.req_cmd, a.detail>>
      BY <1>1, <1>2, <2>7 DEF a
    <3>3. FieldTypes' /\ RequestSealed' /\ ReportSealed'
      BY <1>2, <1>4, <3>1, <3>2 DEF FieldTypes, RequestSealed, ReportSealed, Fields, RequestFields,
                                    AckFields
    <3> QED BY <1>1, <1>2, <1>3, <3>1, <3>3 DEF a, ReportLeft, Left1, Left2, Left3, Left4, Left5
  <2> QED BY <1>6, <2>3, <2>4, <2>5, <2>6, <2>7 DEF ReportLeft, Left1, Left2, Left3, Left4, Left5
<1> QED BY <1>3, <1>5, <1>6 DEF a

\* The steps of the bootloader that begin to store.
LEMMA BeginInv ==
  ASSUME MailInv, RequestHandled \/ (\E a \in Acks : BeginReport(a, "reporting"))
                  \/ (\E a \in Acks : BeginReport(a, "trapping"))
  PROVE  MailInv'
<1> USE DEF MailInv, SealInv, AckSealInv
<1>1. UNCHANGED <<mailbox, asked, last>>
  BY DEF RequestHandled, BeginReport
<1>2. RequestSealed' /\ ReportSealed'
  BY <1>1 DEF RequestSealed, ReportSealed
<1>3. CASE RequestHandled
  <2>1. place' = "clearing" /\ stores' = boot_mailbox_clear /\ report' = report
    BY <1>3 DEF RequestHandled
  <2>2. stores' \in ClearLeft /\ stores' # << <<"check", Zero>> >>
    BY <2>1 DEF boot_mailbox_clear, ClearLeft
  <2> QED BY <1>1, <1>2, <2>1, <2>2 DEF StackInv, FieldTypes
<1>4. ASSUME NEW a \in Acks, NEW to \in {"reporting", "trapping"}, BeginReport(a, to)
      PROVE  MailInv'
  <2>1. place' = to /\ report' = a /\ stores' = boot_mailbox_set_ack(a)
    BY <1>4 DEF BeginReport
  <2>2. stores' \notin ReportLeft(a)
    BY <2>1, LeftsDiffer DEF ReportLeft
  <2>3. stores' # << <<"ack_magic", Magic>> >>
    BY <2>2 DEF ReportLeft, Left1
  <2> QED BY <1>1, <1>2, <2>1, <2>2, <2>3 DEF StackInv, FieldTypes
<1> QED BY <1>3, <1>4

\* Every step of the hand-off keeps the invariant of the mailbox.
LEMMA MailStep == MailInv /\ [Next]_hand_over_vars => MailInv'
<1> SUFFICES ASSUME MailInv, [Next]_hand_over_vars PROVE MailInv'
  OBVIOUS
<1>1. CASE UNCHANGED mail_vars
  BY <1>1 DEF mail_vars, MailInv, FieldTypes, StackInv, SealInv, AckSealInv, RequestSealed, ReportSealed
<1>2. ASSUME UNCHANGED <<mailbox, asked, last>>, report' \in {report, NoAck}, stores' = << >>,
             place' \notin {"clearing", "reporting", "trapping"}
      PROVE  MailInv'
  BY <1>2, JunkInv DEF MailInv, FieldTypes
<1>3. CASE Decay
  <2>1. PICK f \in Fields : mailbox' = [mailbox EXCEPT ![f] = Junk]
    BY <1>3, DecayAssumption DEF Decay
  <2>2. DOMAIN mailbox' = Fields /\ \A g \in Fields : mailbox'[g] \in {mailbox[g], Junk}
    BY <2>1 DEF MailInv, FieldTypes
  <2>3. stores' = << >> /\ place' = "decay" /\ UNCHANGED <<asked, report, last>>
    BY <1>3 DEF Decay, MailInv, StackInv
  <2> QED BY <2>2, <2>3, JunkInv
<1>4. CASE PowerUp \/ NothingPending \/ MailboxCleared
  <2>1. stores' = << >> /\ UNCHANGED <<mailbox, asked, report, last>> /\ place' \in {"mailbox", "working"}
    BY <1>4 DEF PowerUp, NothingPending, MailboxCleared, MailInv, StackInv
  <2> QED BY <1>2, <2>1
<1>5. CASE Bootloading
  BY <1>3, <1>4, <1>5, ClearInv, ReportInv, BeginInv DEF Bootloading, BootMailboxStep
<1>6. CASE ReportBoot \/ ReportNoImage
  BY <1>6, BeginInv DEF ReportBoot, ReportNoImage
<1>7. CASE JumpToPrimary \/ boot_fatal
  <2>1. stores' = << >> /\ UNCHANGED <<mailbox, asked, report, last>> /\ place' \in {"jump", "fatal"}
    BY <1>7 DEF JumpToPrimary, boot_fatal
  <2> QED BY <1>2, <2>1
<1>8. CASE Start
  <2>1. place = "jump" /\ place' = "app" /\ UNCHANGED <<stores, asked, report, last>>
    BY <1>8 DEF Start
  <2>2. stores' = << >>
    BY <2>1 DEF MailInv, StackInv
  <2>3. DOMAIN mailbox' = Fields /\ \A f \in Fields : mailbox'[f] \in {mailbox[f], Junk}
    BY <1>8 DEF Start
  <2> QED BY <2>1, <2>2, <2>3, JunkInv
<1>9. CASE Application
  BY <1>9, AppInv DEF Application
<1>10. CASE Reset
  BY <1>2, <1>10 DEF Reset, MailboxReset
<1>11. CASE UseDriver \/ Peripherals \/ UNCHANGED hand_over_vars
  BY <1>1, <1>11 DEF UseDriver, Peripherals, hand_over_vars
<1> QED BY <1>5, <1>6, <1>7, <1>8, <1>9, <1>10, <1>11 DEF Next

\* The invariant of the mailbox.
LEMMA MailInvariant == Spec => []MailInv
  BY MailInit, MailStep, PTL DEF Spec

\* What is accepted was asked for.
LEMMA Accepted == MailInv /\ boot_mailbox_pending => Request \in asked
  BY DEF MailInv, SealInv, RequestSealed, FieldTypes, boot_mailbox_pending, boot_mailbox_check, Request

(* A request the bootloader would accept is one the application made and   *)
(* no boot has consumed, whatever was cut off between two stores and       *)
(* whatever SRAM has lost (boot_mailbox.h, the order of the stores and the *)
(* check word).                                                            *)
THEOREM OnlyAsked == Spec => []OnlyWhatWasAsked
<1>1. MailInv => OnlyWhatWasAsked
  BY Accepted DEF OnlyWhatWasAsked
<1> QED BY <1>1, MailInvariant, PTL

(* Whoever reads the acknowledgement sees nothing or the whole of the last *)
(* report that was completed (boot_mailbox_set_ack: the magic goes first   *)
(* and comes last).                                                        *)
THEOREM ReportWhole == Spec => []AckWhole
<1>1. MailInv => AckWhole
  BY DEF MailInv, AckSealInv, ReportSealed, FieldTypes, boot_mailbox_ack_valid, boot_mailbox_ack_check,
         AckWhole, Ack
<1> QED BY <1>1, MailInvariant, PTL

-------------------------------------------------------------------------------
(* The application finds the report, when its stack is linked below the    *)
(* mailbox.                                                                *)

StacksFit == \A i \in Images : ~ Below(BOOT_MAILBOX_ADDRESS, i.sp)

\* These fields hold the report of this boot.
Reported(fields) ==
  \A f \in fields :
    mailbox[f] = CASE f = "status" -> report.status [] f = "req_cmd" -> report.req_cmd
                   [] f = "detail" -> report.detail [] f = "ack_check" -> AckSealed(report)
                   [] f = "ack_magic" -> Magic

\* How far the report has got.
DeliveryInv ==
  /\ place \in {"reporting", "trapping"} =>
        /\ stores = Left4(report) => Reported({"status"})
        /\ stores = Left3(report) => Reported({"status", "req_cmd"})
        /\ stores = Left2(report) => Reported({"status", "req_cmd", "detail"})
        /\ stores = Left1(report) => Reported({"status", "req_cmd", "detail", "ack_check"})
        /\ stores = << >> => Reported(AckFields)
  /\ place \in {"jump", "app", "fatal"} => report \in Acks /\ Reported(AckFields)
  /\ place \in {"reporting", "jump"} => image \in Images

\* A mailbox above the application's stack is left alone.
LEMMA MailboxAbove ==
  ASSUME NEW sp \in Word, ~ Below(BOOT_MAILBOX_ADDRESS, sp), NEW f \in Fields
  PROVE  ~ Below(AddTo(BOOT_MAILBOX_ADDRESS, Offset[f]), sp)
<1>1. Offset[f] \in 0 .. 24
  BY DEF Offset, Fields, RequestFields, AckFields
<1>2. BOOT_MAILBOX_ADDRESS = <<8192, 40928>>
  <2>1. (0 + (40960 - 32)) \div 65536 = 0 /\ (0 + (40960 - 32)) % 65536 = 40928
    BY SMT
  <2> QED BY <2>1 DEF BOOT_MAILBOX_ADDRESS, AddTo, BOOT_RAM_BASE, BOOT_RAM_SIZE, BOOT_MAILBOX_RESERVE
<1>3. (40928 + Offset[f]) \div 65536 = 0 /\ (40928 + Offset[f]) % 65536 = 40928 + Offset[f]
  BY <1>1, SMT
<1>4. AddTo(BOOT_MAILBOX_ADDRESS, Offset[f]) = <<8192, 40928 + Offset[f]>>
  BY <1>1, <1>2, <1>3 DEF AddTo
<1>5. PICK s1 \in Half, s2 \in Half : sp = <<s1, s2>>
  BY DEF Word
<1> QED BY <1>1, <1>2, <1>4, <1>5 DEF Below, Half

\* At power-on nothing has been reported.
LEMMA DeliveryInit == Init => DeliveryInv
  BY DEF Init, MailboxInit, DeliveryInv

\* The next store of a report delivers one more field.
LEMMA DeliveryStore ==
  ASSUME MailInv, DeliveryInv, AckStore, UNCHANGED image
  PROVE  DeliveryInv'
<1>1. PICK from \in {"reporting", "trapping"} : Store(from)
  BY DEF AckStore
<1>2. place = from /\ place' = place /\ stores # << >> /\ report' = report /\ report \in Acks
  BY <1>1 DEF AckStore, Store, MailInv, StackInv
<1> DEFINE a == report
<1>3. stores \in {boot_mailbox_set_ack(a)} \cup ReportLeft(a)
  BY <1>1, <1>2 DEF MailInv, StackInv
<1>4. ASSUME NEW f, NEW v, NEW rest, Head(stores) = <<f, v>>, Tail(stores) = rest
      PROVE  mailbox' = [mailbox EXCEPT ![f] = v] /\ stores' = rest
  BY <1>1, <1>4, NextStore
<1>5. DOMAIN mailbox = Fields /\ AckFields \subseteq Fields
  BY DEF MailInv, FieldTypes, Fields
<1> HIDE DEF a
<1>6. CASE stores = boot_mailbox_set_ack(a)
  <2>1. stores' = Left5(a)
    <3>1. Head(stores) = <<"ack_magic", Zero>>
      BY <1>6 DEF boot_mailbox_set_ack
    <3>2. Tail(stores) = Left5(a)
      BY <1>6 DEF boot_mailbox_set_ack, Left5, AckSealed
    <3> QED BY <1>4, <3>1, <3>2
  <2> QED BY <1>1, <1>2, <2>1, LeftsDiffer DEF DeliveryInv, a
<1>7. CASE stores = Left5(a)
  <2>1. mailbox' = [mailbox EXCEPT !["status"] = a.status] /\ stores' = Left4(a)
    <3>1. Head(stores) = <<"status", a.status>>
      BY <1>7 DEF Left5, Left4
    <3>2. Tail(stores) = Left4(a)
      BY <1>7 DEF Left5, Left4
    <3> QED BY <1>4, <3>1, <3>2
  <2>2. Reported({"status"})'
    BY <1>2, <1>5, <2>1 DEF Reported, a, AckFields
  <2> QED BY <1>1, <1>2, <2>1, <2>2, LeftsDiffer DEF DeliveryInv, a
<1>8. CASE stores = Left4(a)
  <2>1. mailbox' = [mailbox EXCEPT !["req_cmd"] = a.req_cmd] /\ stores' = Left3(a)
    <3>1. Head(stores) = <<"req_cmd", a.req_cmd>>
      BY <1>8 DEF Left4, Left3
    <3>2. Tail(stores) = Left3(a)
      BY <1>8 DEF Left4, Left3
    <3> QED BY <1>4, <3>1, <3>2
  <2>2. Reported({"status"})
    BY <1>1, <1>2, <1>8 DEF DeliveryInv, a
  <2>3. Reported({"status", "req_cmd"})'
    BY <1>2, <1>5, <2>1, <2>2 DEF Reported, a, AckFields
  <2> QED BY <1>1, <1>2, <2>1, <2>3, LeftsDiffer DEF DeliveryInv, a
<1>9. CASE stores = Left3(a)
  <2>1. mailbox' = [mailbox EXCEPT !["detail"] = a.detail] /\ stores' = Left2(a)
    <3>1. Head(stores) = <<"detail", a.detail>>
      BY <1>9 DEF Left3, Left2
    <3>2. Tail(stores) = Left2(a)
      BY <1>9 DEF Left3, Left2
    <3> QED BY <1>4, <3>1, <3>2
  <2>2. Reported({"status", "req_cmd"})
    BY <1>1, <1>2, <1>9 DEF DeliveryInv, a
  <2>3. Reported({"status", "req_cmd", "detail"})'
    BY <1>2, <1>5, <2>1, <2>2 DEF Reported, a, AckFields
  <2> QED BY <1>1, <1>2, <2>1, <2>3, LeftsDiffer DEF DeliveryInv, a
<1>10. CASE stores = Left2(a)
  <2>1. mailbox' = [mailbox EXCEPT !["ack_check"] = AckSealed(a)] /\ stores' = Left1(a)
    <3>1. Head(stores) = <<"ack_check", AckSealed(a)>>
      BY <1>10 DEF Left2, Left1
    <3>2. Tail(stores) = Left1(a)
      BY <1>10 DEF Left2, Left1
    <3> QED BY <1>4, <3>1, <3>2
  <2>2. Reported({"status", "req_cmd", "detail"})
    BY <1>1, <1>2, <1>10 DEF DeliveryInv, a
  <2>3. Reported({"status", "req_cmd", "detail", "ack_check"})'
    BY <1>2, <1>5, <2>1, <2>2 DEF Reported, a, AckFields, AckSealed
  <2> QED BY <1>1, <1>2, <2>1, <2>3, LeftsDiffer DEF DeliveryInv, a
<1>11. CASE stores = Left1(a)
  <2>1. mailbox' = [mailbox EXCEPT !["ack_magic"] = Magic] /\ stores' = << >>
    <3>1. Head(stores) = <<"ack_magic", Magic>>
      BY <1>11 DEF Left1
    <3>2. Tail(stores) = << >>
      BY <1>11 DEF Left1
    <3> QED BY <1>4, <3>1, <3>2
  <2>2. Reported({"status", "req_cmd", "detail", "ack_check"})
    BY <1>1, <1>2, <1>11 DEF DeliveryInv, a
  <2>3. Reported(AckFields)'
    BY <1>2, <1>5, <2>1, <2>2 DEF Reported, a, AckFields, AckSealed
  <2> QED BY <1>1, <1>2, <2>1, <2>3, LeftsDiffer DEF DeliveryInv, a
<1> QED BY <1>3, <1>6, <1>7, <1>8, <1>9, <1>10, <1>11 DEF ReportLeft

\* Every step of the hand-off keeps what was delivered.
LEMMA DeliveryStep ==
  ASSUME StacksFit, MailInv, DeliveryInv, [Next]_hand_over_vars
  PROVE  DeliveryInv'
<1>1. CASE UNCHANGED <<mailbox, place, stores, report, image>>
  BY <1>1 DEF DeliveryInv, Reported
<1>2. CASE place' \in {"decay", "mailbox", "clearing", "working"}
  BY <1>2 DEF DeliveryInv
<1>3. CASE Bootloading
  <2>1. AckStore => UNCHANGED image
    BY <1>3 DEF Bootloading
  <2>2. CASE AckStore
    BY <2>1, <2>2, DeliveryStore
  <2>3. CASE Decay \/ PowerUp \/ NothingPending \/ RequestHandled \/ ClearStore \/ MailboxCleared
    BY <1>2, <2>3 DEF Decay, PowerUp, NothingPending, RequestHandled, ClearStore, Store, MailboxCleared
  <2> QED BY <1>3, <2>2, <2>3 DEF Bootloading, BootMailboxStep
<1>4. CASE ReportBoot \/ ReportNoImage
  <2>1. PICK a \in Acks, to \in {"reporting", "trapping"} :
          BeginReport(a, to) /\ (to = "reporting" => image' \in Images)
    BY <1>4 DEF ReportBoot, ReportNoImage
  <2>2. stores' = boot_mailbox_set_ack(a) /\ report' = a /\ place' = to
    BY <2>1 DEF BeginReport
  <2> QED BY <2>1, <2>2, LeftsDiffer DEF DeliveryInv
<1>5. CASE JumpToPrimary \/ boot_fatal
  <2>1. place \in {"reporting", "trapping"} /\ stores = << >> /\ place' \in {"jump", "fatal"}
        /\ (place' = "jump" => place = "reporting") /\ UNCHANGED <<mailbox, report, image>>
    BY <1>5 DEF JumpToPrimary, boot_fatal
  <2>2. report \in Acks /\ Reported(AckFields)
    BY <2>1 DEF MailInv, StackInv, DeliveryInv
  <2> QED BY <2>1, <2>2 DEF DeliveryInv, Reported
<1>6. CASE Start
  <2>1. place = "jump" /\ place' = "app" /\ report' = report /\ image \in Images
    BY <1>6 DEF Start, DeliveryInv
  <2>2. image.sp \in Word /\ ~ Below(BOOT_MAILBOX_ADDRESS, image.sp)
    BY <2>1, ImageAssumption DEF StacksFit
  <2>3. \A f \in Fields : ~ Below(AddTo(BOOT_MAILBOX_ADDRESS, Offset[f]), image.sp)
    BY <2>2, MailboxAbove
  <2>4. \A f \in Fields : mailbox'[f] = mailbox[f]
    BY <1>6, <2>3 DEF Start
  <2>5. AckFields \subseteq Fields
    BY DEF Fields
  <2> QED BY <2>1, <2>4, <2>5 DEF DeliveryInv, Reported
<1>7. CASE Application
  <2>1. place = "app" /\ place' = "app" /\ report' = report
    BY <1>7 DEF Application, AppAsk, AppStore, Store
  <2>2. \A f \in AckFields : mailbox'[f] = mailbox[f]
    <3>1. CASE AppAsk
      BY <3>1 DEF AppAsk
    <3>2. CASE AppStore
      <4>1. PICK r \in asked : stores \in FillLeft(r)
        BY <2>1, <3>2 DEF AppStore, Store, MailInv, StackInv
      <4>2. Head(stores)[1] \in RequestFields
        BY <4>1 DEF FillLeft, RequestFields
      <4>3. Head(stores)[1] \notin AckFields
        BY <4>2 DEF RequestFields, AckFields
      <4> QED BY <3>2, <4>3 DEF AppStore, Store, MailInv, FieldTypes, Fields
    <3> QED BY <1>7, <3>1, <3>2 DEF Application
  <2> QED BY <2>1, <2>2 DEF DeliveryInv, Reported
<1>8. CASE Reset
  BY <1>2, <1>8 DEF Reset, MailboxReset
<1>9. CASE UseDriver \/ Peripherals \/ UNCHANGED hand_over_vars
  BY <1>1, <1>9 DEF UseDriver, Peripherals, hand_over_vars, mail_vars
<1> QED BY <1>3, <1>4, <1>5, <1>6, <1>7, <1>8, <1>9 DEF Next

\* What a boot has stored of its report is still there when the application starts.
LEMMA DeliveryInvariant == ASSUME StacksFit PROVE Spec => [](MailInv /\ DeliveryInv)
<1>1. MailInv /\ DeliveryInv /\ [Next]_hand_over_vars => MailInv' /\ DeliveryInv'
  BY MailStep, DeliveryStep
<1> QED BY <1>1, MailInit, DeliveryInit, PTL DEF Spec

\* A delivered report is found, whole.
LEMMA Found ==
  Reported(AckFields) /\ report \in Acks => boot_mailbox_ack_valid /\ Ack = report
<1> SUFFICES ASSUME Reported(AckFields), report \in Acks
             PROVE  boot_mailbox_ack_valid /\ Ack = report
  OBVIOUS
<1>1. /\ mailbox["status"] = report.status /\ mailbox["req_cmd"] = report.req_cmd
      /\ mailbox["detail"] = report.detail /\ mailbox["ack_check"] = AckSealed(report)
      /\ mailbox["ack_magic"] = Magic
  BY DEF Reported, AckFields
<1> QED BY <1>1, FieldAssumption DEF boot_mailbox_ack_valid, Ack, AckSealed

(* The application can read the report of the boot that started it for as  *)
(* long as it runs, if its stack is linked below the mailbox               *)
(* (boot_mailbox.h and the reserve of boot_layout.h).                      *)
THEOREM ReportFound == ASSUME StacksFit PROVE Spec => []AckOfThisBoot
<1>1. MailInv /\ DeliveryInv => AckOfThisBoot
  BY Found DEF DeliveryInv, AckOfThisBoot
<1> QED BY <1>1, DeliveryInvariant, PTL

-------------------------------------------------------------------------------
(* The refinement of the handshake.                                        *)

\* A boot that has seen to a request, or found none, has none.
ConsumedInv ==
  /\ place \in {"working", "reporting", "trapping", "jump", "fatal"} => ~ boot_mailbox_pending
  /\ place = "clearing" /\ stores # boot_mailbox_clear => ~ boot_mailbox_pending

\* What the bootloader sees of a request depends on the request's fields.
LEMMA SameRequest ==
  ASSUME \A f \in RequestFields : mailbox'[f] = mailbox[f]
  PROVE  boot_mailbox_pending' = boot_mailbox_pending /\ Request' = Request
<1>1. /\ mailbox'["magic"] = mailbox["magic"] /\ mailbox'["check"] = mailbox["check"]
      /\ mailbox'["command"] = mailbox["command"] /\ mailbox'["arg"] = mailbox["arg"]
  BY DEF RequestFields
<1> QED BY <1>1 DEF boot_mailbox_pending, boot_mailbox_check, Request

\* A store of a report leaves the request alone.
LEMMA ReportLeavesRequest ==
  ASSUME MailInv, AckStore
  PROVE  boot_mailbox_pending' = boot_mailbox_pending /\ Request' = Request
<1>1. stores \in {boot_mailbox_set_ack(report)} \cup ReportLeft(report)
  BY DEF MailInv, StackInv, AckStore, Store
<1>2. Head(stores)[1] \in AckFields
  BY <1>1 DEF boot_mailbox_set_ack, ReportLeft, Left1, Left2, Left3, Left4, Left5, AckFields
<1>3. \A f \in RequestFields : f # Head(stores)[1] /\ f \in Fields
  BY <1>2 DEF RequestFields, AckFields, Fields
<1>4. \A f \in RequestFields : mailbox'[f] = mailbox[f]
  BY <1>3 DEF AckStore, Store, MailInv, FieldTypes
<1> QED BY <1>4, SameRequest

\* The two stores of the clear: after the first, nothing is pending.
LEMMA ClearConsumes ==
  ASSUME MailInv, ClearStore
  PROVE  ~ boot_mailbox_pending' /\ place' = "clearing" /\ place = "clearing"
<1>1. place = "clearing" /\ place' = place /\ stores # << >>
  BY DEF ClearStore, Store
<1>2. CASE stores = << <<"magic", Zero>>, <<"check", Zero>> >>
  <2>1. Head(stores)[1] = "magic" /\ Head(stores)[2] = Zero
    BY <1>2
  <2>2. mailbox'["magic"] = Zero
    BY <2>1 DEF ClearStore, Store, MailInv, FieldTypes, Fields, RequestFields
  <2> QED BY <1>1, <2>2, WordAssumption DEF boot_mailbox_pending
<1>3. CASE stores = << <<"check", Zero>> >>
  <2>1. mailbox["magic"] # Magic
    BY <1>1, <1>3 DEF MailInv, SealInv
  <2>2. Head(stores)[1] = "check"
    BY <1>3
  <2>3. mailbox'["magic"] = mailbox["magic"]
    BY <2>2 DEF ClearStore, Store, MailInv, FieldTypes, Fields, RequestFields
  <2> QED BY <1>1, <2>1, <2>3 DEF boot_mailbox_pending
<1> QED BY <1>1, <1>2, <1>3 DEF MailInv, StackInv, ClearLeft

\* What decays does not become a request.
LEMMA DecayLoses ==
  ASSUME MailInv, Decay, UNCHANGED <<jump_vars, image>>, boot_mailbox_pending'
  PROVE  boot_mailbox_pending /\ Request' = Request
<1>1. PICK f \in Fields : mailbox' = [mailbox EXCEPT ![f] = Junk]
  BY DecayAssumption DEF Decay
<1>2. Request' \in asked /\ MailInv'
  <2>1. MailInv' /\ asked' = asked
    BY MailStep DEF Decay, Next, Bootloading, BootMailboxStep
  <2>2. (MailInv /\ boot_mailbox_pending => Request \in asked)'
    BY Accepted, PTL
  <2> QED BY <2>1, <2>2
<1>3. mailbox'["command"] # Junk /\ mailbox'["arg"] # Junk
  BY <1>2, FieldAssumption DEF Request, MailInv, FieldTypes
<1>4. mailbox'["magic"] # Junk /\ mailbox'["check"] # Junk
  <2>1. mailbox'["check"] = <<mailbox'["command"], mailbox'["arg"]>> /\ mailbox'["magic"] = Magic
    BY DEF boot_mailbox_pending, boot_mailbox_check
  <2>2. mailbox'["command"] \in Commands /\ mailbox'["arg"] \in Args
    BY <1>2 DEF MailInv, FieldTypes
  <2> QED BY <2>1, <2>2, CheckWordAssumption, WordAssumption
<1>5. f \notin RequestFields
  BY <1>1, <1>3, <1>4 DEF RequestFields, MailInv, FieldTypes
<1>6. \A g \in RequestFields : mailbox'[g] = mailbox[g]
  BY <1>1, <1>5 DEF MailInv, FieldTypes, Fields
<1> QED BY <1>6, SameRequest

\* At power-on there is no request to consume.
LEMMA ConsumedInit == Init => ConsumedInv
  BY DEF Init, MailboxInit, ConsumedInv

\* Every step keeps a consumed request consumed.
LEMMA ConsumedStep ==
  ASSUME MailInv, ConsumedInv, [Next]_hand_over_vars
  PROVE  ConsumedInv'
<1>1. ASSUME UNCHANGED <<mailbox, place, stores>> PROVE ConsumedInv'
  BY <1>1, SameRequest DEF ConsumedInv
<1>2. CASE place' \in {"decay", "mailbox", "app"}
  BY <1>2 DEF ConsumedInv
<1>3. ASSUME mailbox' = mailbox PROVE boot_mailbox_pending' = boot_mailbox_pending
  BY <1>3, SameRequest
<1>4. CASE Bootloading
  <2>1. CASE AckStore
    <3>1. place \in {"reporting", "trapping"} /\ place' = place
      BY <2>1 DEF AckStore, Store
    <3> QED BY <2>1, <3>1, ReportLeavesRequest DEF ConsumedInv
  <2>2. CASE ClearStore
    BY <2>2, ClearConsumes DEF ConsumedInv
  <2>3. CASE Decay \/ PowerUp
    BY <1>2, <2>3 DEF Decay, PowerUp
  <2>4. CASE NothingPending
    BY <1>3, <2>4 DEF NothingPending, ConsumedInv
  <2>5. CASE RequestHandled
    BY <2>5 DEF RequestHandled, ConsumedInv
  <2>6. CASE MailboxCleared
    <3>1. place = "clearing" /\ place' = "working" /\ stores # boot_mailbox_clear /\ mailbox' = mailbox
      BY <2>6 DEF MailboxCleared, boot_mailbox_clear
    <3> QED BY <1>3, <3>1 DEF ConsumedInv
  <2> QED BY <1>4, <2>1, <2>2, <2>3, <2>4, <2>5, <2>6 DEF Bootloading, BootMailboxStep
<1>5. CASE ReportBoot \/ ReportNoImage
  <2>1. place = "working" /\ place' \in {"reporting", "trapping"} /\ mailbox' = mailbox
    BY <1>5 DEF ReportBoot, ReportNoImage, BeginReport
  <2> QED BY <1>3, <2>1 DEF ConsumedInv
<1>6. CASE JumpToPrimary \/ boot_fatal
  <2>1. place \in {"reporting", "trapping"} /\ place' \in {"jump", "fatal"} /\ mailbox' = mailbox
    BY <1>6 DEF JumpToPrimary, boot_fatal
  <2> QED BY <1>3, <2>1 DEF ConsumedInv
<1>7. CASE Start \/ Application \/ Reset
  BY <1>2, <1>7 DEF Start, Application, AppAsk, AppStore, Store, Reset, MailboxReset
<1>8. CASE UseDriver \/ Peripherals \/ UNCHANGED hand_over_vars
  BY <1>1, <1>8 DEF UseDriver, Peripherals, hand_over_vars, mail_vars
<1> QED BY <1>4, <1>5, <1>6, <1>7, <1>8 DEF Next

\* Every step of the mailbox is a step of the handshake, or none.
LEMMA HandStep ==
  ASSUME MailInv, MailInv', DeliveryInv, ConsumedInv, DeliveryInv', ConsumedInv', [Next]_hand_over_vars
  PROVE  [Hand!Next]_(Hand!hand_vars)
<1> USE DEF Hand!hand_vars
<1>1. ASSUME boot_mailbox_pending' = boot_mailbox_pending, Request' = Request,
             place \notin {"app", "fatal"}, place' \notin {"app", "fatal"}
      PROVE  UNCHANGED Hand!hand_vars
  BY <1>1
<1>2. ASSUME ~ boot_mailbox_pending', place \notin {"app", "fatal"}, place' \notin {"app", "fatal"}
      PROVE  Hand!Consume
  BY <1>2 DEF Hand!Consume
<1>3. ASSUME mailbox' = mailbox PROVE boot_mailbox_pending' = boot_mailbox_pending /\ Request' = Request
  BY <1>3, SameRequest
<1>4. CASE Bootloading
  <2>1. place \notin {"app", "fatal"} /\ place' \notin {"app", "fatal"}
    BY <1>4 DEF Bootloading, BootMailboxStep, Decay, PowerUp, NothingPending, RequestHandled,
                ClearStore, MailboxCleared, AckStore, Store
  <2>2. CASE AckStore
    BY <1>1, <2>1, <2>2, ReportLeavesRequest
  <2>3. CASE ClearStore
    BY <1>2, <2>1, <2>3, ClearConsumes DEF Hand!Next
  <2>4. CASE Decay
    <3>1. CASE boot_mailbox_pending'
      <4>1. boot_mailbox_pending /\ Request' = Request
        BY <1>4, <2>4, <3>1, DecayLoses DEF Bootloading
      <4> QED BY <1>1, <2>1, <3>1, <4>1
    <3>2. CASE ~ boot_mailbox_pending'
      BY <1>2, <2>1, <3>2 DEF Hand!Next
    <3> QED BY <3>1, <3>2
  <2>5. CASE PowerUp \/ NothingPending \/ RequestHandled \/ MailboxCleared
    <3>1. mailbox' = mailbox
      BY <2>5 DEF PowerUp, NothingPending, RequestHandled, MailboxCleared
    <3> QED BY <1>1, <1>3, <2>1, <3>1
  <2> QED BY <1>4, <2>2, <2>3, <2>4, <2>5 DEF Bootloading, BootMailboxStep
<1>5. CASE ReportBoot \/ ReportNoImage \/ JumpToPrimary
  <2>1. mailbox' = mailbox /\ place \notin {"app", "fatal"} /\ place' \notin {"app", "fatal"}
    BY <1>5 DEF ReportBoot, ReportNoImage, JumpToPrimary, BeginReport
  <2> QED BY <1>1, <1>3, <2>1
<1>6. CASE boot_fatal \/ Start
  <2>1. place \in {"trapping", "jump"} /\ place' \in {"fatal", "app"}
    BY <1>6 DEF boot_fatal, Start
  <2>2. (boot_mailbox_ack_valid /\ Ack = report /\ report \in Acks)'
    <3>1. (report \in Acks /\ Reported(AckFields))'
      BY <2>1 DEF DeliveryInv
    <3> QED BY <3>1, Found, PTL
  <2>3. ~ boot_mailbox_pending
    BY <2>1 DEF ConsumedInv
  <2>4. ~ boot_mailbox_pending'
    <3>1. CASE boot_fatal
      BY <1>3, <2>3, <3>1 DEF boot_fatal
    <3>2. CASE Start
      <4>1. \A f \in Fields : mailbox'[f] \in {mailbox[f], Junk}
        BY <3>2 DEF Start
      <4>2. SUFFICES ASSUME boot_mailbox_pending' PROVE FALSE
        OBVIOUS
      <4>3. Request' \in asked' /\ asked' \subseteq Requests
        <5>1. (MailInv /\ boot_mailbox_pending => Request \in asked)'
          BY Accepted, PTL
        <5> QED BY <4>2, <5>1 DEF MailInv, FieldTypes
      <4>4. mailbox'["command"] # Junk /\ mailbox'["arg"] # Junk
        BY <4>3, FieldAssumption DEF Request
      <4>5. mailbox'["magic"] # Junk /\ mailbox'["check"] # Junk
        <5>1. mailbox'["check"] = <<mailbox'["command"], mailbox'["arg"]>> /\ mailbox'["magic"] = Magic
          BY <4>2 DEF boot_mailbox_pending, boot_mailbox_check
        <5>2. mailbox'["command"] \in Commands /\ mailbox'["arg"] \in Args
          BY DEF MailInv, FieldTypes
        <5> QED BY <5>1, <5>2, CheckWordAssumption, WordAssumption
      <4>6. \A f \in RequestFields : mailbox'[f] = mailbox[f]
        BY <4>1, <4>4, <4>5 DEF RequestFields, Fields
      <4> QED BY <2>3, <4>2, <4>6, SameRequest
    <3> QED BY <1>6, <3>1, <3>2
  <2> QED BY <2>1, <2>2, <2>3, <2>4 DEF Hand!Next, Hand!HandOver
<1>7. CASE Application
  <2>1. place = "app" /\ place' = "app" /\ report' = report
    BY <1>7 DEF Application, AppAsk, AppStore, Store
  <2>2. Ack = report /\ Ack' = report'
    <3>1. (report \in Acks /\ Reported(AckFields)) /\ (report \in Acks /\ Reported(AckFields))'
      BY <2>1 DEF DeliveryInv
    <3>2. Ack = report
      BY <3>1, Found
    <3>3. (Ack = report)'
      BY <3>1, Found, PTL
    <3> QED BY <3>2, <3>3
  <2>3. boot_mailbox_pending' => Request' \in Requests
    <3>1. (MailInv /\ boot_mailbox_pending => Request \in asked)'
      BY Accepted, PTL
    <3> QED BY <3>1 DEF MailInv, FieldTypes
  <2>4. Hand!Ask
    BY <2>1, <2>2, <2>3 DEF Hand!Ask
  <2> QED BY <2>4 DEF Hand!Next
<1>8. CASE Reset
  <2>1. mailbox' = mailbox /\ place' \notin {"app", "fatal"}
    BY <1>8 DEF Reset, MailboxReset
  <2>2. Hand!Reset
    BY <1>3, <2>1 DEF Hand!Reset
  <2> QED BY <2>2 DEF Hand!Next
<1>9. CASE UseDriver \/ Peripherals \/ UNCHANGED hand_over_vars
  <2>1. mailbox' = mailbox /\ place' = place
    BY <1>9 DEF UseDriver, Peripherals, hand_over_vars, mail_vars
  <2>2. Ack' = Ack
    BY <2>1 DEF Ack
  <2> QED BY <1>3, <2>1, <2>2
<1> QED BY <1>4, <1>5, <1>6, <1>7, <1>8, <1>9 DEF Next

(* The mailbox implements the handshake the boot sequence relies on: what  *)
(* Bootloader takes to be one step is what the stores, cut off anywhere,   *)
(* amount to (boot_mailbox.h).                                             *)
THEOREM MailboxImplementsHandshake == ASSUME StacksFit PROVE Spec => HandshakeSpec
<1>1. Init => Hand!Init
  <2>1. Init => ~ boot_mailbox_pending /\ place = "mailbox"
    BY WordAssumption DEF Init, MailboxInit, boot_mailbox_pending, Fields, RequestFields
  <2> QED BY <2>1 DEF Hand!Init
<1>2. MailInv /\ ConsumedInv /\ [Next]_hand_over_vars => ConsumedInv'
  BY ConsumedStep
<1>3. MailInv /\ DeliveryInv /\ ConsumedInv /\ MailInv' /\ DeliveryInv' /\ ConsumedInv'
      /\ [Next]_hand_over_vars => [Hand!Next]_(Hand!hand_vars)
  BY HandStep
<1> QED
  BY <1>1, <1>2, <1>3, ConsumedInit, DeliveryInvariant, PTL DEF Spec, HandshakeSpec, Hand!Spec

-------------------------------------------------------------------------------
(* The jump.                                                               *)

\* A line below n * k lies in one of the first n registers of k lines.
LEMMA DivBelow ==
  ASSUME NEW n \in Nat, NEW k \in Nat \ {0}, NEW l \in 0 .. n * k - 1
  PROVE  l \div k < n
<1> DEFINE q == l \div k
           r == l % k
<1>1. n * k \in Nat /\ l \in Nat
  OBVIOUS
<1>2. q \in Int /\ r \in 0 .. k - 1 /\ l = k * q + r
  BY <1>1, SMTT(30)
<1> HIDE DEF q, r
<1>3. SUFFICES ASSUME q >= n PROVE FALSE
  BY <1>2 DEF q
<1>4. k * q >= k * n
  BY <1>2, <1>3, SMTT(30)
<1>5. k * n = n * k /\ k * q \in Int
  BY <1>2
<1>6. l >= n * k
  BY <1>1, <1>2, <1>4, <1>5
<1> QED BY <1>1, <1>6

\* The registers boot_jump_to_primary() clears cover every line of the part.
LEMMA AllCleared == ASSUME NEW lines \in SUBSET Lines PROVE StillSet(lines) = {}
<1>1. ASSUME NEW l \in lines PROVE ~ (l \div LinesPerRegister >= BOOT_NVIC_REG_COUNT)
  <2>1. l \in 0 .. BOOT_NVIC_REG_COUNT * LinesPerRegister - 1
    BY LinesAssumption
  <2>2. l \div LinesPerRegister < BOOT_NVIC_REG_COUNT
    BY <2>1, LinesAssumption, DivBelow
  <2>3. l \in Int /\ l \div LinesPerRegister \in Int
    BY <2>1, LinesAssumption
  <2> QED BY <2>2, <2>3, LinesAssumption
<1> QED BY <1>1, Zenon DEF StillSet

CoreFields == {"primask", "enabled", "vtor", "msplim", "control", "sp", "pc"}

\* The core is the application's from Quiesce to the next reset, and starts what was checked.
JumpInv ==
  /\ DOMAIN core = CoreFields
  /\ core.enabled \subseteq Lines /\ raised \subseteq Lines
  /\ place \in {"reporting", "jump", "app"} => image \in Images /\ boot_primary_image_ok(image.sp, image.pc)
  /\ place = "jump" => Quiesced
  /\ Quiesced => /\ place \in {"jump", "app"}
                 /\ core.enabled = {} /\ core.msplim = "none" /\ core.control = 0
  /\ Started => /\ Quiesced /\ place = "app"
                /\ core.sp = image.sp /\ core.pc = Handler(image.pc)

\* The core comes out of reset with every line disabled.
LEMMA JumpInit == Init => JumpInv
  BY DEF Init, MailboxInit, JumpInv, ResetCore, CoreFields, Quiesced, Started

\* Every step of the hand-off keeps it.
LEMMA JumpStep == JumpInv /\ [Next]_hand_over_vars => JumpInv'
<1> SUFFICES ASSUME JumpInv, [Next]_hand_over_vars PROVE JumpInv'
  OBVIOUS
<1> USE DEF JumpInv, Quiesced, Started
<1>1. CASE Bootloading
  BY <1>1 DEF Bootloading, BootMailboxStep, Decay, PowerUp, NothingPending, RequestHandled,
              ClearStore, MailboxCleared, AckStore, Store, jump_vars
<1>2. CASE UseDriver
  BY <1>2 DEF UseDriver, Enable, mail_vars, CoreFields
<1>3. CASE ReportBoot
  BY <1>3 DEF ReportBoot, BeginReport, jump_vars
<1>4. CASE ReportNoImage
  BY <1>4 DEF ReportNoImage, BeginReport, jump_vars
<1>5. CASE JumpToPrimary
  <2>1. StillSet(core.enabled) = {} /\ StillSet(raised) = {}
    BY AllCleared
  <2> QED BY <1>5, <2>1 DEF JumpToPrimary, Quiesce, CoreFields
<1>6. CASE boot_fatal
  BY <1>6 DEF boot_fatal, jump_vars
<1>7. CASE Start
  BY <1>7 DEF Start, Branch, CoreFields
<1>8. CASE Application
  BY <1>8 DEF Application, AppAsk, AppStore, Store, jump_vars
<1>9. CASE Peripherals
  BY <1>9 DEF Peripherals, Raise, mail_vars
<1>10. CASE Reset
  BY <1>10 DEF Reset, MailboxReset, ResetCore, CoreFields
<1>11. CASE UNCHANGED hand_over_vars
  BY <1>11 DEF hand_over_vars, mail_vars, jump_vars
<1> QED BY <1>1, <1>2, <1>3, <1>4, <1>5, <1>6, <1>7, <1>8, <1>9, <1>10, <1>11 DEF Next

\* The invariant of the jump.
LEMMA JumpInvariant == Spec => []JumpInv
  BY JumpInit, JumpStep, PTL DEF Spec

(* No interrupt can be taken from the moment the vector table is the       *)
(* application's until its reset handler runs, although interrupts are     *)
(* enabled one instruction before the branch (boot_jump.c).                *)
THEOREM Quiet == Spec => []NoStrayInterrupt
<1>1. JumpInv => NoStrayInterrupt
  BY DEF JumpInv, NoStrayInterrupt
<1> QED BY <1>1, JumpInvariant, PTL

(* Of all pairs of words, boot_image_ok_at() accepts for the primary slot  *)
(* only those with the stack in RAM and the handler in the slot: the       *)
(* comparisons of the halves are those of the addresses.                   *)
LEMMA AcceptedStarts ==
  ASSUME NEW sp \in Word, NEW pc \in Word, boot_primary_image_ok(sp, pc)
  PROVE  /\ Distance(BOOT_RAM_BASE, sp) \in 0 .. BOOT_RAM_SIZE
         /\ sp[2] % 8 = 0
         /\ Distance(BOOT_PRIMARY_BASE, Handler(pc)) \in 0 .. BOOT_PRIMARY_SIZE - 2
<1>1. PICK s1 \in Half, s2 \in Half : sp = <<s1, s2>>
  BY DEF Word
<1>2. PICK p1 \in Half, p2 \in Half : pc = <<p1, p2>>
  BY DEF Word
<1> DEFINE h == p2 - (p2 % 2)
           half == p2 \div 2
<1>3. h = 2 * half /\ half \in Nat /\ half < 32768
  <2>1. p2 \in Nat /\ p2 < 65536
    BY DEF Half
  <2>2. p2 = 2 * (p2 \div 2) + (p2 % 2) /\ p2 % 2 \in 0 .. 1 /\ p2 \div 2 \in Int
    BY <2>1, SMT
  <2> QED BY <2>1, <2>2
<1> HIDE DEF half
<1>4. Handler(pc) = <<p1, h>>
  BY <1>2 DEF Handler
<1> HIDE DEF h
<1>5. RamEnd = <<8192, 40960>>
  <2>1. (0 + 40960) \div 65536 = 0 /\ (0 + 40960) % 65536 = 40960
    BY SMT
  <2> QED BY <2>1 DEF RamEnd, AddTo, BOOT_RAM_BASE, BOOT_RAM_SIZE
<1>6. AddTo(BOOT_PRIMARY_BASE, BOOT_PRIMARY_SIZE) = <<2, 32768>>
  <2>1. (0 + 98304) \div 65536 = 1 /\ (0 + 98304) % 65536 = 32768
    BY SMT
  <2> QED BY <2>1 DEF AddTo, BOOT_PRIMARY_BASE, BOOT_PRIMARY_SIZE
<1>7. /\ ~ Below(<<s1, s2>>, <<8192, 0>>) /\ ~ Below(<<8192, 40960>>, <<s1, s2>>) /\ sp[2] % 8 = 0
      /\ ~ Below(<<p1, h>>, <<1, 0>>) /\ Below(<<p1, h>>, <<2, 32768>>)
  BY <1>1, <1>2, <1>4, <1>5, <1>6
  DEF boot_primary_image_ok, boot_image_ok_at, BOOT_RAM_BASE, BOOT_PRIMARY_BASE
<1>8. s1 = 8192 /\ s2 \in Nat /\ s2 <= 40960
  BY <1>7 DEF Below, Half
<1>9. p1 = 1 \/ (p1 = 2 /\ h < 32768)
  BY <1>3, <1>7 DEF Below, Half
<1>10. 65536 * (s1 - 8192) + s2 - 0 \in 0 .. BOOT_RAM_SIZE
  <2>1. s2 <= BOOT_RAM_SIZE /\ BOOT_RAM_SIZE \in Nat
    BY <1>8 DEF BOOT_RAM_SIZE
  <2>2. s2 \in 0 .. BOOT_RAM_SIZE
    BY <1>8, <2>1
  <2>3. 65536 * (s1 - 8192) + s2 - 0 = s2
    BY <1>8
  <2> QED BY <2>2, <2>3
<1>11. 65536 * (p1 - 1) + h - 0 \in 0 .. BOOT_PRIMARY_SIZE - 2
  <2>1. h \in Nat /\ h <= 65534 /\ (h < 32768 => h <= 32766)
    BY <1>3
  <2>2. BOOT_PRIMARY_SIZE - 2 = 98302
    BY DEF BOOT_PRIMARY_SIZE
  <2>3. 65536 * (p1 - 1) + h - 0 \in Nat /\ 65536 * (p1 - 1) + h - 0 <= 98302
    BY <1>9, <2>1
  <2> QED BY <2>2, <2>3
<1>12. Distance(BOOT_RAM_BASE, sp) = 65536 * (s1 - 8192) + s2 - 0
  BY <1>1 DEF Distance, BOOT_RAM_BASE
<1>13. Distance(BOOT_PRIMARY_BASE, Handler(pc)) = 65536 * (p1 - 1) + h - 0
  BY <1>4 DEF Distance, BOOT_PRIMARY_BASE
<1> QED BY <1>7, <1>10, <1>11, <1>12, <1>13

(* What is started has an aligned stack inside RAM and a handler inside    *)
(* the primary slot, on a core without the bootloader's stack limit: the   *)
(* table checked is the table started (boot_image_ok_at, boot_jump.c).     *)
THEOREM StartsRight == Spec => []StartsInPrimary
<1>1. JumpInv => StartsInPrimary
  <2> SUFFICES ASSUME JumpInv, Started PROVE StartsInPrimary
    BY DEF StartsInPrimary
  <2>1. image \in [sp : Word, pc : Word] /\ boot_primary_image_ok(image.sp, image.pc)
    BY ImageAssumption DEF JumpInv
  <2>2. image.sp \in Word /\ image.pc \in Word
    BY <2>1
  <2> QED BY <2>1, <2>2, AcceptedStarts DEF JumpInv, Quiesced, StartsInPrimary
<1> QED BY <1>1, JumpInvariant, PTL

-------------------------------------------------------------------------------
(* The types.                                                              *)

\* What the invariants of the mailbox and of the jump do not say of the variables' values.
RestInv ==
  /\ place \in Places
  /\ last \in Acks \cup {NoAck}
  /\ image \in Images \cup {NoImage}

LEMMA RestStep == MailInv /\ RestInv /\ [Next]_hand_over_vars => RestInv'
<1> SUFFICES ASSUME MailInv, RestInv, [Next]_hand_over_vars PROVE RestInv'
  OBVIOUS
<1> USE DEF RestInv, Places
<1>1. CASE Bootloading
  <2>1. CASE AckStore
    <3>1. place \in {"reporting", "trapping"} /\ place' = place /\ last' \in {report, last}
      BY <2>1 DEF AckStore, Store
    <3>2. report \in Acks
      BY <3>1 DEF MailInv, StackInv
    <3> QED BY <1>1, <3>1, <3>2 DEF Bootloading
  <2>2. CASE ClearStore
    BY <1>1, <2>2 DEF Bootloading, ClearStore, Store
  <2>3. CASE Decay \/ PowerUp \/ NothingPending \/ RequestHandled \/ MailboxCleared
    BY <1>1, <2>3 DEF Bootloading, Decay, PowerUp, NothingPending, RequestHandled, MailboxCleared
  <2> QED BY <1>1, <2>1, <2>2, <2>3 DEF Bootloading, BootMailboxStep
<1>2. CASE UseDriver \/ Peripherals
  BY <1>2 DEF UseDriver, Peripherals, mail_vars
<1>3. CASE ReportBoot \/ ReportNoImage
  BY <1>3 DEF ReportBoot, ReportNoImage, BeginReport
<1>4. CASE JumpToPrimary \/ boot_fatal \/ Start
  BY <1>4 DEF JumpToPrimary, boot_fatal, Start
<1>5. CASE Application
  BY <1>5 DEF Application, AppAsk, AppStore, Store
<1>6. CASE Reset
  BY <1>6 DEF Reset, MailboxReset
<1>7. CASE UNCHANGED hand_over_vars
  BY <1>7 DEF hand_over_vars, mail_vars
<1> QED BY <1>1, <1>2, <1>3, <1>4, <1>5, <1>6, <1>7 DEF Next

\* What is yet to be stored is a part of one of the three functions that store.
LEMMA StoresType ==
  ASSUME MailInv
  PROVE  Len(stores) <= 6 /\ \A i \in 1 .. Len(stores) : stores[i][1] \in Fields
<1> USE DEF Fields, RequestFields, AckFields
<1> DEFINE Fit(s) == Len(s) <= 6 /\ \A i \in 1 .. Len(s) : s[i][1] \in Fields
<1>1. Fit(<< >>)
  OBVIOUS
<1>2. ASSUME NEW s \in ClearLeft PROVE Fit(s)
  <2>1. Fit(<< <<"magic", Zero>>, <<"check", Zero>> >>) /\ Fit(<< <<"check", Zero>> >>)
    OBVIOUS
  <2> HIDE DEF Fit
  <2> QED BY <1>1, <2>1 DEF ClearLeft
<1>3. ASSUME NEW r, NEW s \in FillLeft(r) PROVE Fit(s)
  <2>1. ASSUME NEW x, NEW y PROVE Fit(<< <<"arg", x>>, <<"check", y>>, <<"magic", Magic>> >>)
    OBVIOUS
  <2>2. ASSUME NEW w, NEW x, NEW y
        PROVE  Fit(<< <<"command", w>>, <<"arg", x>>, <<"check", y>>, <<"magic", Magic>> >>)
    OBVIOUS
  <2>3. ASSUME NEW y PROVE Fit(<< <<"check", y>>, <<"magic", Magic>> >>) /\ Fit(<< <<"magic", Magic>> >>)
    OBVIOUS
  <2> HIDE DEF Fit
  <2> QED BY <2>1, <2>2, <2>3 DEF FillLeft
<1>4. ASSUME NEW a PROVE Fit(boot_mailbox_set_ack(a)) /\ \A s \in ReportLeft(a) : Fit(s)
  <2>1. Fit(boot_mailbox_set_ack(a))
    BY DEF boot_mailbox_set_ack
  <2>2. Fit(Left1(a)) /\ Fit(Left2(a)) /\ Fit(Left3(a))
    BY DEF Left1, Left2, Left3
  <2>3. Fit(Left4(a)) /\ Fit(Left5(a))
    BY DEF Left4, Left5
  <2> HIDE DEF Fit
  <2> QED BY <2>1, <2>2, <2>3 DEF ReportLeft
<1> HIDE DEF Fit
<1>5. Fit(stores)
  BY <1>1, <1>2, <1>3, <1>4 DEF MailInv, StackInv
<1> QED BY <1>5 DEF Fit

(* Every word of the mailbox holds what was stored there or what SRAM came *)
(* up with, no function on the stack has more to store than it began with, *)
(* and the image that is started is one that was looked at.                *)
THEOREM HandOverTypes == Spec => []HandOverTypeOK
<1>1. Init => RestInv
  BY DEF Init, MailboxInit, RestInv, Places
<1>2. MailInv /\ RestInv /\ [Next]_hand_over_vars => RestInv'
  BY RestStep
<1>3. MailInv /\ JumpInv /\ RestInv => HandOverTypeOK
  BY StoresType DEF MailInv, FieldTypes, JumpInv, RestInv, HandOverTypeOK, MailboxTypeOK
<1> QED BY <1>1, <1>2, <1>3, MailInvariant, JumpInvariant, PTL DEF Spec

===============================================================================
