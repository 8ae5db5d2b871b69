------------------------------- MODULE Outbox -------------------------------
(***************************************************************************)
(* The channel delivery outbox (surogates/channels/delivery.py and         *)
(* dispatcher.py): the rows one session has for one channel on a platform  *)
(* that can edit its messages, the delivery loops that claim and send them,*)
(* and the progress message (channel_progress.py) that the session's       *)
(* narration is collected in.                                              *)
(*                                                                         *)
(* A message's text is the sequence of rows whose text it shows; a         *)
(* "Thinking" placeholder shows none.  A step is one database, Redis or    *)
(* platform call.  The adapter is Slack's (platforms/slack.py; Discord's   *)
(* does the same); the chunks of a long text count as one message.         *)
(***************************************************************************)
EXTENDS Naturals, Sequences, FiniteSets, Functions

CONSTANTS
  Loops,       \* the delivery loops of this channel, one per process
  MaxText,     \* how many rows' text one progress message holds
  Scenarios    \* the rows there will be, the loops that run, what may happen

\* "fails": a database or Redis call raises; "unsure": a send raises though the message
\* arrived; "asks": a person's message, which posts a placeholder; "lapses": the progress
\* record reaches its time to live.
Inputs == {"fails", "unsure", "asks", "lapses", "deaths"}

\* Text beside a tool call; an answer or a question; a reply that is only a file.
Kinds == {"note", "answer", "file"}
Scenario == [rows : Seq(Kinds), loops : SUBSET Loops, left : [Inputs -> Nat]]

ASSUME TextAssumption == MaxText \in Nat \ {0}
ASSUME ScenariosAssumption == Scenarios \subseteq Scenario

VARIABLES
  kind,      \* kind[i]: what row i carries
  status,    \* status[i]: "waiting" is pending with available_at to come
  old,       \* old[i]: row i is past MAX_DELIVERY_AGE
  chat,      \* the messages in the conversation, in the order they were posted
  place,     \* the progress record in Redis: the message to edit and its text
  asking,    \* an inbound message found no placeholder and is posting one
  pc,        \* pc[d]: where loop d is
  batch,     \* batch[d]: the group it is sending, a row and those folded into it, and
             \* the rest of the rows it claimed
  seen,      \* seen[d]: the progress record it read
  sent,      \* sent[d]: the message it posted or edited
  outcome,   \* outcome[d]: how the row went
  gone,      \* the messages that were deleted
  cut,       \* (history) rows in the chunks of a long text that were not posted
  reposted,  \* (history) rows that a refused edit leaves where they are and posts again
  met,       \* (history) the inputs that have happened
  left       \* left[i]: how often input i may yet happen

loop == <<pc, batch, seen, sent, outcome>>
trail == <<gone, cut, reposted>>
input == <<met, left>>
vars == <<kind, status, old, chat, place, asking, pc, batch, seen, sent, outcome,
          gone, cut, reposted, met, left>>

Rows == DOMAIN kind
Statuses == {"none", "pending", "waiting", "claimed", "delivered", "failed"}
PCs == {"absent", "claim", "take", "send", "post", "tidy", "clear", "mark", "markFile", "progress",
        "fail", "settle"}
Outcomes == {"none", "delivered", "transient", "permanent"}
NoPlace == [msg |-> 0, text |-> <<>>]
NoBatch == [group |-> <<>>, rest |-> <<>>]

Use(i) == left[i] > 0 /\ left' = [left EXCEPT ![i] = @ - 1] /\ met' = met \cup {i}
Goto(d, l) == pc' = [pc EXCEPT ![d] = l]
Set(rs, s) == [i \in Rows |-> IF i \in rs THEN s ELSE status[i]]

Init ==
  \E s \in Scenarios :
    /\ kind = s.rows /\ left = s.left /\ met = {}
    /\ status = [i \in DOMAIN s.rows |-> "none"] /\ old = [i \in DOMAIN s.rows |-> FALSE]
    /\ chat = <<>> /\ place = NoPlace /\ asking = FALSE
    /\ pc = [d \in Loops |-> IF d \in s.loops THEN "claim" ELSE "absent"]
    /\ batch = [d \in Loops |-> NoBatch] /\ seen = [d \in Loops |-> NoPlace]
    /\ sent = [d \in Loops |-> 0] /\ outcome = [d \in Loops |-> "none"]
    /\ gone = {} /\ cut = {} /\ reposted = {}

(* ------------------- the session's worker and the inbound -------------- *)

\* enqueue, once per event (its dedupe key)
Enqueue(i) ==
  /\ status[i] = "none" /\ \A j \in Rows : j < i => status[j] /= "none"
  /\ status' = Set({i}, "pending")
  /\ UNCHANGED <<kind, old, chat, place, asking, loop, input, trail>>

\* post_placeholder_once: look for one ...
Ask ==
  /\ ~asking /\ Use("asks")
  /\ asking' = (place.msg = 0)
  /\ UNCHANGED <<kind, status, old, chat, place, loop, trail>>

\* ... post one and record it: two calls, but nobody can tell an unrecorded placeholder
\* from none.
PostPlaceholder ==
  /\ asking /\ asking' = FALSE
  /\ chat' = Append(chat, <<>>)
  /\ place' = [msg |-> Len(chat) + 1, text |-> <<>>]
  /\ UNCHANGED <<kind, status, old, loop, input, trail>>

(* ----------------------------- deliver_batch --------------------------- *)

\* claim_batch, in id order
PendingOrClaimed == {i \in Rows : status[i] \in {"pending", "claimed"}}
Claimable == {i \in Rows : status[i] = "pending"}
InIdOrder(S) == {rows \in [1 .. Cardinality(S) -> S] :
                   \A j, k \in DOMAIN rows : j < k => rows[j] < rows[k]}

\* _bursts: narration that comes right after narration, close enough in time to the first,
\* goes out with it.
OneBurst(rows, k) == k > 1 => \A j \in 1 .. k : kind[rows[j]] = "note"
Bursts(rows) ==
  IF rows = <<>> THEN {NoBatch}
  ELSE {[group |-> SubSeq(rows, 1, k), rest |-> SubSeq(rows, k + 1, Len(rows))] :
          k \in {k \in 1 .. Len(rows) : OneBurst(rows, k)}}

Claim(d) ==
  /\ pc[d] = "claim" /\ Claimable /= {}
  /\ \E rows \in InIdOrder(Claimable) : \E b \in Bursts(rows) : batch' = [batch EXCEPT ![d] = b]
  /\ status' = Set(Claimable, "claimed")
  /\ Goto(d, "take")
  /\ UNCHANGED <<kind, old, chat, place, asking, seen, sent, outcome, input, trail>>

Group(d) == batch[d].group
Row(d) == Head(Group(d))

(* ----------------------------- _deliver_item --------------------------- *)

\* take_progress_update, which leaves the record there.
Take(d) ==
  /\ pc[d] = "take"
  /\ seen' = [seen EXCEPT ![d] = place] /\ Goto(d, "send")
  /\ UNCHANGED <<kind, status, old, chat, place, asking, batch, sent, outcome, input, trail>>

\* Whether the message that was read is edited: a placeholder by anything, narration
\* only by narration that still fits.
Edits(d) ==
  /\ seen[d].msg /= 0
  /\ seen[d].text /= <<>> =>
       kind[Row(d)] = "note" /\ Len(seen[d].text) + Len(Group(d)) <= MaxText
Text(d) == IF Edits(d) THEN seen[d].text \o Group(d) ELSE Group(d)

\* SlackPlatform.send: an edit, or a new message if there is none to edit or the edit
\* was refused.
Editing(d) == pc[d] = "send" /\ Edits(d)
Arrives(d, text) ==
  /\ chat' = IF Editing(d) THEN [chat EXCEPT ![seen[d].msg] = text] ELSE Append(chat, text)
  /\ sent' = [sent EXCEPT ![d] = IF Editing(d) THEN seen[d].msg ELSE Len(chat) + 1]

\* What may be shown of the text: the chunks of narration that is longer than one message,
\* or a part of an answer.
Parts(d) ==
  {Text(d)} \cup {SubSeq(Text(d), 1, n) : n \in MaxText .. Len(Text(d))}
            \cup (IF kind[Row(d)] = "answer" THEN {<<>>} ELSE {})

\* The send succeeds, too, when a later chunk is refused.  A file that cannot be uploaded
\* is answered with a text instead.
Send(d) ==
  /\ pc[d] \in {"send", "post"} /\ (Editing(d) => seen[d].msg \notin gone)
  /\ \E text \in Parts(d) :
       /\ Arrives(d, text)
       /\ cut' = cut \cup (Range(Text(d)) \ Range(text))
  /\ Goto(d, "mark")
  /\ UNCHANGED <<kind, status, old, place, asking, batch, seen, outcome, gone, reposted, input>>

\* The edit raised, applied or not, and the whole text is to be posted as a new message.
EditRefused(d) ==
  /\ pc[d] = "send" /\ Edits(d) /\ Goto(d, "post")
  /\ \/ UNCHANGED chat /\ reposted' = reposted \cup Range(seen[d].text)
     \/ /\ seen[d].msg \notin gone
        /\ \E text \in Parts(d) : chat' = [chat EXCEPT ![seen[d].msg] = text]
        /\ reposted' = reposted \cup Range(Text(d))
  /\ UNCHANGED <<kind, status, old, place, asking, batch, seen, sent, outcome, gone, cut, input>>

\* The post raised, and the message, or the first chunk of it, arrived.
SendUnsure(d) ==
  /\ pc[d] \in {"send", "post"} /\ ~Editing(d) /\ Use("unsure")
  /\ \E text \in Parts(d) : Arrives(d, text)
  /\ Goto(d, "fail") /\ outcome' = [outcome EXCEPT ![d] = "transient"]
  /\ UNCHANGED <<kind, status, old, place, asking, batch, seen, trail>>

\* The tenant, its credentials or the platform refuse, for now or for good.
Refused(d, how) ==
  /\ pc[d] \in {"take", "send", "post"} /\ ~Editing(d)
  /\ outcome' = [outcome EXCEPT ![d] = how] /\ Goto(d, "fail")
  /\ UNCHANGED <<kind, status, old, chat, place, asking, batch, seen, sent, input, trail>>

\* send_files: the file is the reply ...
Upload(d) ==
  /\ pc[d] = "send" /\ kind[Row(d)] = "file"
  /\ chat' = Append(chat, Group(d)) /\ Goto(d, IF Edits(d) THEN "tidy" ELSE "markFile")
  /\ sent' = [sent EXCEPT ![d] = Len(chat) + 1]
  /\ UNCHANGED <<kind, status, old, place, asking, batch, seen, outcome, input, trail>>

\* ... and replaces the placeholder: delete_message, which may fail unheard ...
Tidy(d) ==
  /\ pc[d] = "tidy" /\ Goto(d, "clear")
  /\ \/ UNCHANGED <<chat, gone>>
     \/ chat' = [chat EXCEPT ![seen[d].msg] = <<>>] /\ gone' = gone \cup {seen[d].msg}
  /\ UNCHANGED <<kind, status, old, place, asking, batch, seen, sent, outcome, cut, reposted, input>>

\* ... and clear_placeholder, whose failure is swallowed as well.
ClearPlaceholder(d) ==
  /\ pc[d] = "clear" /\ Goto(d, "markFile")
  /\ \/ place' = NoPlace /\ UNCHANGED input
     \/ UNCHANGED place /\ Use("fails")
  /\ UNCHANGED <<kind, status, old, chat, asking, batch, seen, sent, outcome, trail>>

\* mark_delivered ...
MarkDelivered(d) ==
  /\ pc[d] \in {"mark", "markFile"} /\ Goto(d, IF pc[d] = "mark" THEN "progress" ELSE "settle")
  /\ status' = Set({Row(d)}, "delivered")
  /\ outcome' = [outcome EXCEPT ![d] = "delivered"]
  /\ UNCHANGED <<kind, old, chat, place, asking, batch, seen, sent, input, trail>>

\* ... which may raise, after the message was sent.
MarkRaises(d) ==
  /\ pc[d] \in {"mark", "markFile"} /\ Use("fails") /\ Goto(d, "fail")
  /\ outcome' = [outcome EXCEPT ![d] = "transient"]
  /\ UNCHANGED <<kind, status, old, chat, place, asking, batch, seen, sent, trail>>

\* Narration is remembered, to be added to; an answer closes the progress message.
ProgressBlank(d) ==
  IF kind[Row(d)] = "note" THEN [msg |-> sent[d], text |-> Group(d)] ELSE NoPlace
ProgressOf(d) ==
  IF kind[Row(d)] = "note"
    THEN IF Len(Text(d)) <= MaxText THEN [msg |-> sent[d], text |-> Text(d)] ELSE NoPlace
    ELSE IF seen[d].msg /= 0 THEN NoPlace ELSE place
Progress(d) ==
  /\ pc[d] = "progress" /\ Goto(d, "settle")
  /\ \/ place' = ProgressOf(d) /\ UNCHANGED input
     \/ UNCHANGED place /\ Use("fails")
  /\ UNCHANGED <<kind, status, old, chat, asking, batch, seen, sent, outcome, trail>>

\* _record_delivery_failure: dropped if it can never be sent or is too old, else retried.
ExhaustedNever(d) == outcome[d] = "permanent"
Exhausted(d) == outcome[d] = "permanent" \/ old[Row(d)]
RecordFailure(d) ==
  /\ pc[d] = "fail" /\ Goto(d, "settle")
  /\ \/ status' = Set({Row(d)}, IF Exhausted(d) THEN "failed" ELSE "waiting") /\ UNCHANGED input
     \/ UNCHANGED status /\ Use("fails")
  /\ UNCHANGED <<kind, old, chat, place, asking, batch, seen, sent, outcome, trail>>

\* The rows folded into it: delivered with it, or retried on their own.
Settle(d) ==
  /\ pc[d] = "settle"
  /\ LET absorbed == {Group(d)[k] : k \in 2 .. Len(Group(d))}
     IN \/ /\ status' = Set(absorbed, IF outcome[d] = "delivered" THEN "delivered" ELSE "waiting")
           /\ UNCHANGED input
        \/ absorbed /= {} /\ UNCHANGED status /\ Use("fails")
  /\ \E b \in Bursts(batch[d].rest) : batch' = [batch EXCEPT ![d] = b]
  /\ Goto(d, IF batch[d].rest = <<>> THEN "claim" ELSE "take")
  /\ seen' = [seen EXCEPT ![d] = NoPlace] /\ sent' = [sent EXCEPT ![d] = 0]
  /\ outcome' = [outcome EXCEPT ![d] = "none"]
  /\ UNCHANGED <<kind, old, chat, place, asking, trail>>

Dies(d) ==
  /\ pc[d] \notin {"absent", "claim"} /\ Use("deaths") /\ Goto(d, "claim")
  /\ batch' = [batch EXCEPT ![d] = NoBatch]
  /\ seen' = [seen EXCEPT ![d] = NoPlace] /\ sent' = [sent EXCEPT ![d] = 0]
  /\ outcome' = [outcome EXCEPT ![d] = "none"]
  /\ UNCHANGED <<kind, status, old, chat, place, asking, trail>>

(* --------------------------------- time -------------------------------- *)

BackedOff(i) ==
  /\ status[i] = "waiting" /\ status' = Set({i}, "pending")
  /\ UNCHANGED <<kind, old, chat, place, asking, loop, input, trail>>
Ages(i) ==
  /\ status[i] \notin {"none", "delivered", "failed"} /\ ~old[i]
  /\ old' = [old EXCEPT ![i] = TRUE]
  /\ UNCHANGED <<kind, status, chat, place, asking, loop, input, trail>>
Lapse ==
  /\ place.msg /= 0 /\ Use("lapses") /\ place' = NoPlace
  /\ UNCHANGED <<kind, status, old, chat, asking, loop, trail>>

Deliver(d) ==
  \/ Claim(d) \/ Take(d) \/ Send(d) \/ EditRefused(d) \/ Upload(d) \/ Tidy(d)
  \/ ClearPlaceholder(d) \/ MarkDelivered(d) \/ Progress(d) \/ RecordFailure(d) \/ Settle(d)
  \/ Refused(d, "transient") \/ Refused(d, "permanent")
Next ==
  \/ \E d \in Loops : Deliver(d) \/ SendUnsure(d) \/ MarkRaises(d) \/ Dies(d)
  \/ \E i \in Rows : Enqueue(i) \/ BackedOff(i) \/ Ages(i)
  \/ Ask \/ PostPlaceholder \/ Lapse

Spec == Init /\ [][Next]_vars

\* The loops keep going and time passes; the platform may refuse every send.
FairSpec ==
  /\ Spec
  /\ \A d \in Loops : WF_vars(Deliver(d))
  /\ WF_vars(\E i \in Rows : BackedOff(i)) /\ WF_vars(\E i \in Rows : Ages(i))

(* ------------------------------ properties ----------------------------- *)

\* Every variable has its type.
TypeOK ==
  /\ kind \in Seq(Kinds) /\ status \in [Rows -> Statuses] /\ old \in [Rows -> BOOLEAN]
  /\ chat \in Seq(Seq(Rows)) /\ place \in [msg : 0 .. Len(chat), text : Seq(Rows)]
  /\ asking \in BOOLEAN /\ pc \in [Loops -> PCs]
  /\ batch \in [Loops -> [group : Seq(Rows), rest : Seq(Rows)]]
  /\ seen \in [Loops -> [msg : 0 .. Len(chat), text : Seq(Rows)]]
  /\ sent \in [Loops -> 0 .. Len(chat)] /\ outcome \in [Loops -> Outcomes]
  /\ gone \subseteq 1 .. Len(chat) /\ cut \subseteq Rows /\ reposted \subseteq Rows
  /\ met \subseteq Inputs /\ left \in [Inputs -> Nat]

Showing(i) == {m \in DOMAIN chat : i \in Range(chat[m])}
Crowded == \E c, d \in Loops : c /= d /\ pc[c] /= "absent" /\ pc[d] /= "absent"

\* What was delivered can be read ("text the model writes beside a tool call is never
\* dropped", _deliver_item), through refused edits, refused and unsure sends, retries, lapsed
\* records and placeholders posted meanwhile; unless it was in a chunk that the platform
\* refused, which counts as delivered all the same, the note of an edit was lost or its
\* process died.  Not with a second loop, which may read the progress record
\* between another's edit and its note of it, and write over the edit.
NothingLost ==
  \/ Crowded \/ met \cap {"fails", "deaths"} /= {}
  \/ \A i \in Rows \ cut : status[i] = "delivered" => Showing(i) /= {}

\* No row is shown in two messages, by however many loops (claim_batch), folded or not,
\* deaths included, unless a call raised after the message had arrived or a refused edit was
\* posted afresh; and no message shows a row twice, even then.
ShownOnce ==
  met \cap {"fails", "unsure"} = {} =>
    \A i \in Rows :
      /\ i \notin reposted => Cardinality(Showing(i)) <= 1
      /\ \A m \in Showing(i) : Cardinality({k \in DOMAIN chat[m] : chat[m][k] = i}) = 1

\* Every row is delivered or given up, even if the platform refuses for ever
\* (delivery_exhausted), unless a call raised while it was settled or its process died:
\* nothing takes a claimed row back.
Open == {i \in Rows : status[i] \in {"pending", "waiting", "claimed"}}
EveryRowSettles == (Open /= {}) ~> (Open = {} \/ met \cap {"fails", "deaths"} /= {})
=============================================================================
