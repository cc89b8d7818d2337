------------------------- MODULE ChatSessionProofs -------------------------
(***************************************************************************)
(* What ChatSession guarantees for any number of commands, providers and   *)
(* runs, whatever the plans lack, and any number of messages and events.   *)
(***************************************************************************)
EXTENDS ChatSession, FiniteSetTheorems, SequenceTheorems, TLAPS

-----------------------------------------------------------------------------
(* The inductive invariant.                                                  *)

\* What the services have published so far is on each subject.
EventRecord ==
  [cmd : Commands \cup {NoCommand}, run : Runs \cup {"none"},
   status : {"none", "running", "completed"}]

Speaks == {"created", "started", "thinking", "step", "succeeded", "failed"}

Wires ==
  /\ wire \in [Subject -> Seq(EventRecord)]
  /\ \A i \in DOMAIN wire["accepted"] :
       wire["accepted"][i].cmd \in Commands /\ stage[wire["accepted"][i].cmd] # "new"
  /\ \A i \in DOMAIN wire["preview"] :
       wire["preview"][i].cmd \in Commands /\ stage[wire["preview"][i].cmd] = "previewed"
  /\ \A k \in Speaks : \A i \in DOMAIN wire[k] :
       wire[k][i].run \in Runs /\ run[wire[k][i].run] # "unused"

\* Only cards belong to a command and only connection cards to a provider, and none
\* of the latter is connected before its request was made.
Cards ==
  \A i \in DOMAIN messages :
    /\ messages[i].kind = "connect" <=> messages[i].provider # "none"
    /\ messages[i].kind = "plan" => messages[i].cmd # NoCommand
    /\ messages[i].kind = "note" => messages[i].cmd = NoCommand /\ ~messages[i].busy
    /\ messages[i].connected =>
         messages[i].kind = "connect" /\ messages[i].provider \in registered \cup lost

\* A plan that this session has seen is as the builder previewed it, and its card
\* comes when each of its connections was reported.
Plans ==
  /\ \A c \in seen : stage[c] = "previewed"
  /\ \A i \in DOMAIN messages :
       messages[i].kind = "plan" => missing[messages[i].cmd] \subseteq registered \cup lost
  /\ ConfirmedIsConnected
  /\ pendingPlan # NoCommand => confirms[pendingPlan] = 0

\* The cards in use: one of each provider, which no request is under way for until
\* its dialog is closed, and none of a provider that has a connected card.
CardsInUse ==
  /\ \A i, j \in DOMAIN messages :
       /\ InUse(messages[i]) /\ messages[j].provider = messages[i].provider
       => ~messages[j].connected /\ i = j
  /\ dialog # 0 =>
       InUse(messages[dialog]) /\ messages[dialog].busy
         /\ registering[messages[dialog].provider] = 0
  /\ \A p \in Providers :
       /\ registering[p] \in {0, 1}
       /\ registering[p] # 0 =>
            \A i \in DOMAIN messages :
              InUse(messages[i]) /\ messages[i].provider = p => messages[i].busy

\* While a plan is pending, the cards in use and the requests under way are its own,
\* and it has no card of its own before they are done.
Pending ==
  pendingPlan # NoCommand /\ missing[pendingPlan] # {} =>
    /\ \A i \in DOMAIN messages :
         InUse(messages[i]) => messages[i].provider \in missing[pendingPlan]
    /\ \A p \in Providers :
         registering[p] # 0 =>
           \E i \in DOMAIN messages : InUse(messages[i]) /\ messages[i].provider = p
    /\ (\E i \in DOMAIN messages : InUse(messages[i])) =>
         \A i \in DOMAIN messages : messages[i].kind = "plan" => messages[i].cmd # pendingPlan

\* A plan has one card, and that card no button once the plan is confirmed.
PlanCards ==
  /\ \A i, j \in DOMAIN messages :
       /\ messages[i].kind = "plan" /\ messages[j].kind = "plan"
       /\ messages[i].cmd = messages[j].cmd
       => i = j
  /\ \A i \in DOMAIN messages :
       messages[i].kind = "plan" /\ confirms[messages[i].cmd] # 0 => messages[i].busy
  /\ \A c \in Commands : confirms[c] \in {0, 1}

Uncrowded == CardsInUse /\ Pending /\ PlanCards

\* The runs of a command, never more of them than its confirmations, and their end.
Owned(c) == {r \in Runs : owner[r] = c}

RunsAreOwned ==
  /\ \A r \in Runs : run[r] = "unused" => owner[r] = NoCommand /\ r \notin settled
  /\ \A c \in Commands : IsFiniteSet(Owned(c)) /\ Cardinality(Owned(c)) <= confirms[c]
  /\ \A r \in Runs \ settled : run[r] = "over" =>
       \E k \in {"succeeded", "failed"} : \E i \in DOMAIN wire[k] : wire[k][i].run = r

\* Somebody will still speak: a command whose runs have not all begun, or have but
\* not ended, or a run.
Unserved(c) ==
  /\ stage[c] # "new"
  /\ (\A r \in settled : owner[r] # c) \/ Cardinality(Owned(c)) < confirms[c]

Awaited ==
  \/ \E c \in Commands : Unserved(c)
  \/ \E r \in Runs \ settled : run[r] # "unused"

Busy == processing \/ \E i \in DOMAIN messages : messages[i].status = "processing"

InTime ==
  /\ \A i \in DOMAIN messages : messages[i].spinning # <<>> => messages[i].status = "processing"
  /\ Busy => Awaited

IInv ==
  /\ TypeOK /\ Wires /\ Cards /\ Plans /\ RunsAreOwned
  /\ ~crowded => Uncrowded
  /\ ~late => InTime

-----------------------------------------------------------------------------
(* Messages and lists of them.                                               *)

\* A set of indices has a largest one.
LEMMA MaxIsMember ==
  ASSUME NEW n \in Nat, NEW S \in SUBSET (1 .. n), S # {}
  PROVE  Max(S) \in S
<1> DEFINE T == {n - i : i \in S}
<1>1. T \subseteq Nat /\ T # {}
  OBVIOUS
<1>2. PICK x \in T : \A y \in T : ~ (<<y, x>> \in OpToRel(<, Nat))
  <2> HIDE DEF T
  <2> QED
    BY <1>1, WFMin, NatLessThanWellFounded
<1>3. PICK i \in S : x = n - i
  OBVIOUS
<1>4. ASSUME NEW j \in S
      PROVE  i >= j
  <2>1. n - j \in T /\ n - j \in Nat /\ n - i \in Nat /\ i \in Nat /\ j \in Nat
    OBVIOUS
  <2>2. ~ (n - j < n - i)
    <3> HIDE DEF T
    <3> QED
      BY <1>2, <1>3, <2>1 DEF OpToRel
  <2> QED
    BY <2>1, <2>2
<1>5. \E j \in S : \A y \in S : j >= y
  BY <1>4
<1>6. QED
  BY <1>5 DEF Max

\* The messages that the handlers make.
LEMMA NoteIsMessage ==
  ASSUME NEW status \in {"processing", "complete", "error"}, NEW spinning \in Seq(Label),
         NEW steps \in BOOLEAN
  PROVE  /\ Note(status, spinning, steps) \in Message
         /\ Note(status, spinning, steps).kind = "note"
         /\ Note(status, spinning, steps).status = status
         /\ Note(status, spinning, steps).spinning = spinning
         /\ Note(status, spinning, steps).cmd = NoCommand
         /\ Note(status, spinning, steps).provider = "none"
         /\ Note(status, spinning, steps).connected = FALSE
         /\ Note(status, spinning, steps).busy = FALSE
BY DEF Note, Message

LEMMA PlanCardIsMessage ==
  ASSUME NEW c \in Commands
  PROVE  /\ PlanCard(c) \in Message
         /\ PlanCard(c).kind = "plan"
         /\ PlanCard(c).status = "processing"
         /\ PlanCard(c).spinning = <<>>
         /\ PlanCard(c).cmd = c
         /\ PlanCard(c).provider = "none"
         /\ PlanCard(c).connected = FALSE
         /\ PlanCard(c).busy = FALSE
<1>1. <<>> \in Seq(Label)
  OBVIOUS
<1>2. QED
  BY <1>1 DEF PlanCard, Note, Message

LEMMA ConnectCardIsMessage ==
  ASSUME NEW c \in Commands, NEW p \in Providers
  PROVE  ConnectCard(c, p) \in Message
<1>1. <<>> \in Seq(Label)
  OBVIOUS
<1>2. QED
  BY <1>1 DEF ConnectCard, Note, Message

\* What a card is, apart from its message's progress.
Card(m) == [kind |-> m.kind, cmd |-> m.cmd, provider |-> m.provider,
            connected |-> m.connected, busy |-> m.busy]

Blank == [kind |-> "note", cmd |-> NoCommand, provider |-> "none",
          connected |-> FALSE, busy |-> FALSE]

LEMMA NoteIsBlank ==
  ASSUME NEW status, NEW spinning, NEW steps
  PROVE  Card(Note(status, spinning, steps)) = Blank
BY DEF Note, Card, Blank

\* A step that begins or ends leaves the card and the status alone.
LEMMA AddStepKeeps ==
  ASSUME NEW m \in Message, NEW label \in Label
  PROVE  /\ AddStep(m, label) \in Message
         /\ Card(AddStep(m, label)) = Card(m)
         /\ AddStep(m, label).status = m.status
<1>1. Append(m.spinning, label) \in Seq(Label)
  BY DEF Message
<1>2. QED
  BY <1>1 DEF AddStep, Message, Card

LEMMA EndStepKeeps ==
  ASSUME NEW m \in Message, NEW label \in Label
  PROVE  /\ EndStep(m, label) \in Message
         /\ Card(EndStep(m, label)) = Card(m)
         /\ EndStep(m, label).status = m.status
         /\ m.spinning = <<>> => EndStep(m, label).spinning = <<>>
<1> DEFINE matching == {i \in DOMAIN m.spinning : m.spinning[i] = label}
           running == IF matching = {} THEN DOMAIN m.spinning ELSE matching
           rest == IF running = {} THEN m.spinning ELSE RemoveAt(m.spinning, Max(running))
<1>1. m.spinning \in Seq(Label) /\ Len(m.spinning) \in Nat /\ DOMAIN m.spinning = 1 .. Len(m.spinning)
  BY DEF Message
<1>2. EndStep(m, label) = [m EXCEPT !.steps = TRUE, !.spinning = rest]
  BY DEF EndStep, Message
<1>3. running \in SUBSET (1 .. Len(m.spinning))
  BY <1>1
<1>4. rest \in Seq(Label)
  <2>1. CASE running = {}
    BY <2>1, <1>1
  <2>2. CASE running # {}
    <3>1. Max(running) \in 1 .. Len(m.spinning)
      <4> HIDE DEF running
      <4> QED
        BY <1>1, <1>3, <2>2, MaxIsMember
    <3> DEFINE n == Max(running)
    <3>2. n \in 1 .. Len(m.spinning)
      BY <3>1
    <3>3. rest = SubSeq(m.spinning, 1, n - 1) \o SubSeq(m.spinning, n + 1, Len(m.spinning))
      BY <2>2 DEF RemoveAt
    <3> HIDE DEF n, rest
    <3>4. SubSeq(m.spinning, 1, n - 1) \in Seq(Label)
          /\ SubSeq(m.spinning, n + 1, Len(m.spinning)) \in Seq(Label)
      <4>1. n - 1 \in Int /\ n + 1 \in Int /\ Len(m.spinning) \in Int
        BY <3>2, <1>1
      <4>2. \A i \in 1 .. n - 1 : m.spinning[i] \in Label
        BY <3>2, <1>1
      <4>3. \A i \in n + 1 .. Len(m.spinning) : m.spinning[i] \in Label
        BY <3>2, <1>1
      <4>4. QED
        BY <4>1, <4>2, <4>3, SubSeqProperties
    <3>5. QED
      BY <3>3, <3>4, ConcatProperties
  <2>3. QED
    BY <2>1, <2>2
<1>5. m.spinning = <<>> => rest = <<>>
  BY <1>1
<1> HIDE DEF rest
<1>6. QED
  BY <1>2, <1>4, <1>5 DEF Message, Card

\* The cards of one list are those of another, with notes after it.
SameCards(ms, ms2) ==
  /\ DOMAIN ms \subseteq DOMAIN ms2
  /\ \A i \in DOMAIN ms : Card(ms2[i]) = Card(ms[i])
  /\ \A i \in DOMAIN ms2 \ DOMAIN ms : Card(ms2[i]) = Blank

LEMMA Lists ==
  ASSUME NEW ms \in Seq(Message)
  PROVE  /\ Len(ms) \in Nat
         /\ DOMAIN ms = 1 .. Len(ms)
         /\ \A i \in DOMAIN ms : ms[i] \in Message
         /\ ms # <<>> => Len(ms) \in DOMAIN ms /\ Last(ms) = ms[Len(ms)] /\ Last(ms) \in Message
BY DEF Last

\* A list with one message more.
LEMMA Appended ==
  ASSUME NEW ms \in Seq(Message), NEW m \in Message
  PROVE  /\ Append(ms, m) \in Seq(Message)
         /\ DOMAIN Append(ms, m) = DOMAIN ms \cup {Len(ms) + 1}
         /\ Len(ms) + 1 \notin DOMAIN ms
         /\ \A i \in DOMAIN ms : Append(ms, m)[i] = ms[i]
         /\ Append(ms, m)[Len(ms) + 1] = m
BY AppendProperties

LEMMA AppendedNote ==
  ASSUME NEW ms \in Seq(Message), NEW m \in Message, Card(m) = Blank
  PROVE  Append(ms, m) \in Seq(Message) /\ SameCards(ms, Append(ms, m))
BY Appended DEF SameCards

\* A list whose last message is replaced.
LEMMA Replaced ==
  ASSUME NEW ms \in Seq(Message), ms # <<>>, NEW m \in Message
  PROVE  /\ [ms EXCEPT ![Len(ms)] = m] \in Seq(Message)
         /\ DOMAIN [ms EXCEPT ![Len(ms)] = m] = DOMAIN ms
         /\ \A i \in DOMAIN ms :
              [ms EXCEPT ![Len(ms)] = m][i] = IF i = Len(ms) THEN m ELSE ms[i]
BY Lists, ExceptSeq

LEMMA Updated ==
  ASSUME messages \in Seq(Message), NEW v, messages # <<>> => v \in Message
  PROVE  /\ UpdateLast(v) \in Seq(Message)
         /\ DOMAIN UpdateLast(v) = DOMAIN messages
         /\ \A i \in DOMAIN messages :
              UpdateLast(v)[i] = IF i = Len(messages) THEN v ELSE messages[i]
<1>1. CASE messages = <<>>
  BY <1>1 DEF UpdateLast
<1>2. CASE messages # <<>>
  BY <1>2, Replaced DEF UpdateLast
<1>3. QED
  BY <1>1, <1>2

LEMMA UpdatedCards ==
  ASSUME messages \in Seq(Message), NEW v,
         messages # <<>> => v \in Message /\ Card(v) = Card(Latest)
  PROVE  UpdateLast(v) \in Seq(Message) /\ SameCards(messages, UpdateLast(v))
<1>1. messages # <<>> => Latest = messages[Len(messages)]
  BY Lists DEF Latest
<1>2. QED
  BY <1>1, Updated DEF SameCards

\* A list that is mapped.
LEMMA Mapped ==
  ASSUME NEW ms \in Seq(Message), NEW ms2, NEW f, ms2 = [i \in DOMAIN ms |-> f[i]],
         \A i \in DOMAIN ms : f[i] \in Message
  PROVE  ms2 \in Seq(Message) /\ DOMAIN ms2 = DOMAIN ms /\ Len(ms2) = Len(ms)
<1>1. DOMAIN ms = 1 .. Len(ms) /\ Len(ms) \in Nat
  OBVIOUS
<1>2. ms2 \in [1 .. Len(ms) -> Message]
  BY <1>1
<1>3. QED
  BY <1>1, <1>2

LEMMA Finished ==
  ASSUME NEW ms \in Seq(Message)
  PROVE  /\ FinishAll(ms) \in Seq(Message)
         /\ SameCards(ms, FinishAll(ms))
         /\ DOMAIN FinishAll(ms) = DOMAIN ms
         /\ Len(FinishAll(ms)) = Len(ms)
         /\ \A i \in DOMAIN ms :
              /\ FinishAll(ms)[i].status # "processing"
              /\ ms[i].spinning = <<>> \/ ms[i].status = "processing" =>
                   FinishAll(ms)[i].spinning = <<>>
              /\ FinishAll(ms)[i].kind = ms[i].kind
<1>1. \A i \in DOMAIN ms : ms[i] \in Message
  OBVIOUS
<1>2. \A i \in DOMAIN ms :
        /\ FinishAll(ms)[i] \in Message
        /\ Card(FinishAll(ms)[i]) = Card(ms[i])
        /\ FinishAll(ms)[i].status # "processing"
        /\ ms[i].spinning = <<>> \/ ms[i].status = "processing" =>
             FinishAll(ms)[i].spinning = <<>>
        /\ FinishAll(ms)[i].kind = ms[i].kind
  <2> TAKE i \in DOMAIN ms
  <2>1. CASE ms[i].status = "processing"
    <3>1. FinishAll(ms)[i] = [ms[i] EXCEPT !.status = "complete", !.spinning = <<>>]
      BY <2>1 DEF FinishAll
    <3>2. <<>> \in Seq(Label)
      OBVIOUS
    <3>3. QED
      BY <3>1, <3>2, <1>1, <2>1 DEF Message, Card
  <2>2. CASE ms[i].status # "processing"
    <3>1. FinishAll(ms)[i] = ms[i]
      BY <2>2 DEF FinishAll
    <3>2. QED
      BY <3>1, <1>1, <2>2
  <2>3. QED
    BY <2>1, <2>2
<1>3. DOMAIN FinishAll(ms) = DOMAIN ms /\ FinishAll(ms) = [i \in DOMAIN ms |-> FinishAll(ms)[i]]
  BY DEF FinishAll
<1>4. FinishAll(ms) \in Seq(Message) /\ Len(FinishAll(ms)) = Len(ms)
  BY <1>2, <1>3, Mapped
<1>5. SameCards(ms, FinishAll(ms))
  BY <1>2, <1>3 DEF SameCards
<1>6. QED
  BY <1>2, <1>3, <1>4, <1>5

-----------------------------------------------------------------------------
(* Events on their way.                                                      *)

\* The wire with one event more, and with one event less or none.
Sent(k, e) ==
  /\ \A s \in Subject : \A i \in DOMAIN wire[s] :
       i \in DOMAIN wire'[s] /\ wire'[s][i] = wire[s][i]
  /\ \A s \in Subject : \A i \in DOMAIN wire'[s] :
       \/ i \in DOMAIN wire[s] /\ wire'[s][i] = wire[s][i]
       \/ s = k /\ wire'[s][i] = e
  /\ \E i \in DOMAIN wire'[k] : wire'[k][i] = e

Taken(k, e) ==
  /\ \A s \in Subject : \A i \in DOMAIN wire'[s] :
       \E j \in DOMAIN wire[s] : wire'[s][i] = wire[s][j]
  /\ \A s \in Subject : \A j \in DOMAIN wire[s] :
       \/ \E i \in DOMAIN wire'[s] : wire'[s][i] = wire[s][j]
       \/ s = k /\ wire[s][j] = e

LEMMA Publishing ==
  ASSUME wire \in [Subject -> Seq(EventRecord)], NEW k \in Subject, NEW e \in EventRecord,
         wire' = [wire EXCEPT ![k] = Append(@, e)]
  PROVE  wire' \in [Subject -> Seq(EventRecord)] /\ Sent(k, e)
<1>1. Append(wire[k], e) \in Seq(EventRecord)
  BY AppendProperties
<1>2. wire' \in [Subject -> Seq(EventRecord)]
  BY <1>1
<1>3. /\ wire'[k] = Append(wire[k], e)
      /\ \A s \in Subject \ {k} : wire'[s] = wire[s]
  OBVIOUS
<1>4. /\ DOMAIN wire[k] = 1 .. Len(wire[k]) /\ Len(wire[k]) \in Nat
      /\ DOMAIN wire'[k] = 1 .. Len(wire[k]) + 1
      /\ \A i \in 1 .. Len(wire[k]) : wire'[k][i] = wire[k][i]
      /\ wire'[k][Len(wire[k]) + 1] = e
  BY <1>1, <1>3, AppendProperties
<1>5. \A i \in DOMAIN wire'[k] : i \in DOMAIN wire[k] \/ i = Len(wire[k]) + 1
  BY <1>4
<1>6. \E i \in DOMAIN wire'[k] : wire'[k][i] = e
  <2>1. Len(wire[k]) + 1 \in DOMAIN wire'[k]
    BY <1>4
  <2>2. QED
    BY <2>1, <1>4
<1>7. \A i \in DOMAIN wire[k] : i \in DOMAIN wire'[k] /\ wire'[k][i] = wire[k][i]
  BY <1>4
<1>8. \A i \in DOMAIN wire'[k] :
        \/ i \in DOMAIN wire[k] /\ wire'[k][i] = wire[k][i]
        \/ wire'[k][i] = e
  BY <1>4, <1>5, <1>7
<1>9. Sent(k, e)
  BY <1>3, <1>6, <1>7, <1>8 DEF Sent
<1>10. QED
  BY <1>2, <1>9

LEMMA Receiving ==
  ASSUME wire \in [Subject -> Seq(EventRecord)], NEW k \in Subject, NEW e \in Coming(k),
         Receive(k, e)
  PROVE  /\ wire' \in [Subject -> Seq(EventRecord)] /\ Taken(k, e)
         /\ e \in EventRecord
         /\ \E i \in DOMAIN wire[k] : wire[k][i] = e
<1>1. wire[k] # <<>> /\ e = Head(wire[k]) /\ wire[k] \in Seq(EventRecord)
  BY DEF Coming
<1>2. /\ DOMAIN wire[k] = 1 .. Len(wire[k]) /\ Len(wire[k]) \in Nat /\ Len(wire[k]) # 0
      /\ e = wire[k][1] /\ e \in EventRecord
      /\ Tail(wire[k]) \in Seq(EventRecord)
      /\ DOMAIN Tail(wire[k]) = 1 .. Len(wire[k]) - 1
      /\ \A i \in 1 .. Len(wire[k]) - 1 : Tail(wire[k])[i] = wire[k][i + 1]
  BY <1>1, HeadTailProperties
<1>3. \E i \in DOMAIN wire[k] : wire[k][i] = e
  BY <1>2
<1>4. CASE wire' = wire
  BY <1>2, <1>3, <1>4 DEF Taken
<1>5. CASE wire' = [wire EXCEPT ![k] = Tail(@)]
  <2>1. wire' \in [Subject -> Seq(EventRecord)]
    BY <1>5, <1>2
  <2>2. wire'[k] = Tail(wire[k]) /\ \A s \in Subject \ {k} : wire'[s] = wire[s]
    BY <1>5
  <2>3. \A i \in DOMAIN wire'[k] : i + 1 \in DOMAIN wire[k] /\ wire'[k][i] = wire[k][i + 1]
    BY <2>2, <1>2
  <2>4. \A j \in DOMAIN wire[k] :
          j = 1 \/ (j - 1 \in DOMAIN wire'[k] /\ wire'[k][j - 1] = wire[k][j])
    BY <2>2, <1>2
  <2>5. ASSUME NEW s \in Subject, NEW i \in DOMAIN wire'[s]
        PROVE  \E j \in DOMAIN wire[s] : wire'[s][i] = wire[s][j]
    <3>1. CASE s = k
      BY <2>3, <3>1
    <3>2. CASE s # k
      BY <2>2, <3>2
    <3>3. QED
      BY <3>1, <3>2
  <2>6. ASSUME NEW s \in Subject, NEW j \in DOMAIN wire[s]
        PROVE  \/ \E i \in DOMAIN wire'[s] : wire'[s][i] = wire[s][j]
               \/ s = k /\ wire[s][j] = e
    <3>1. CASE s = k
      BY <2>4, <1>2, <3>1
    <3>2. CASE s # k
      BY <2>2, <3>2
    <3>3. QED
      BY <3>1, <3>2
  <2>7. Taken(k, e)
    BY <2>5, <2>6 DEF Taken
  <2>8. QED
    BY <2>1, <2>7, <1>2, <1>3
<1>6. QED
  BY <1>4, <1>5 DEF Receive

\* What the events on the wire say of commands and runs, which only go on.
GoesOn ==
  /\ \A c \in Commands : stage[c] # "new" => stage'[c] # "new"
  /\ \A c \in Commands : stage[c] = "previewed" => stage'[c] = "previewed"
  /\ \A r \in Runs : run[r] # "unused" => run'[r] # "unused"

\* What an event on a subject says.
Says(k, e) ==
  /\ e \in EventRecord
  /\ k = "accepted" => e.cmd \in Commands /\ stage'[e.cmd] # "new"
  /\ k = "preview" => e.cmd \in Commands /\ stage'[e.cmd] = "previewed"
  /\ k \in Speaks => e.run \in Runs /\ run'[e.run] # "unused"

LEMMA WiresSent ==
  ASSUME Wires, GoesOn, NEW k \in Subject, NEW e, Says(k, e),
         wire' = [wire EXCEPT ![k] = Append(@, e)]
  PROVE  Wires' /\ Sent(k, e)
<1>0. wire' \in [Subject -> Seq(EventRecord)] /\ Sent(k, e)
  BY Publishing DEF Wires, Says
<1> USE DEF Says, GoesOn, Wires
<1>1. ASSUME NEW i \in DOMAIN wire'["accepted"]
      PROVE  wire'["accepted"][i].cmd \in Commands /\ stage'[wire'["accepted"][i].cmd] # "new"
  <2>1. "accepted" \in Subject
    BY DEF Subject
  <2>2. CASE i \in DOMAIN wire["accepted"] /\ wire'["accepted"][i] = wire["accepted"][i]
    BY <2>2
  <2>3. CASE "accepted" = k /\ wire'["accepted"][i] = e
    BY <2>3
  <2>4. QED
    BY <2>1, <2>2, <2>3, <1>0 DEF Sent
<1>2. ASSUME NEW i \in DOMAIN wire'["preview"]
      PROVE  wire'["preview"][i].cmd \in Commands /\ stage'[wire'["preview"][i].cmd] = "previewed"
  <2>1. "preview" \in Subject
    BY DEF Subject
  <2>2. CASE i \in DOMAIN wire["preview"] /\ wire'["preview"][i] = wire["preview"][i]
    BY <2>2
  <2>3. CASE "preview" = k /\ wire'["preview"][i] = e
    BY <2>3
  <2>4. QED
    BY <2>1, <2>2, <2>3, <1>0 DEF Sent
<1>3. ASSUME NEW s \in Speaks, NEW i \in DOMAIN wire'[s]
      PROVE  wire'[s][i].run \in Runs /\ run'[wire'[s][i].run] # "unused"
  <2>1. s \in Subject
    BY DEF Subject, Speaks
  <2>2. CASE i \in DOMAIN wire[s] /\ wire'[s][i] = wire[s][i]
    BY <2>2
  <2>3. CASE s = k /\ wire'[s][i] = e
    BY <2>3
  <2>4. QED
    BY <2>1, <2>2, <2>3, <1>0 DEF Sent
<1>4. QED
  BY <1>0, <1>1, <1>2, <1>3

LEMMA WiresTaken ==
  ASSUME Wires, NEW k \in Subject, NEW e \in Coming(k), Receive(k, e)
  PROVE  /\ Wires' /\ Taken(k, e)
         /\ e \in EventRecord
         /\ k = "accepted" => e.cmd \in Commands /\ stage[e.cmd] # "new"
         /\ k = "preview" => e.cmd \in Commands /\ stage[e.cmd] = "previewed"
         /\ k \in Speaks => e.run \in Runs /\ run[e.run] # "unused"
<1>0. /\ wire' \in [Subject -> Seq(EventRecord)] /\ Taken(k, e) /\ e \in EventRecord
      /\ \E i \in DOMAIN wire[k] : wire[k][i] = e
  BY Receiving DEF Wires
<1>1. stage' = stage /\ run' = run
  BY DEF Receive, server
<1> USE DEF Wires
<1>2. /\ k = "accepted" => e.cmd \in Commands /\ stage[e.cmd] # "new"
      /\ k = "preview" => e.cmd \in Commands /\ stage[e.cmd] = "previewed"
      /\ k \in Speaks => e.run \in Runs /\ run[e.run] # "unused"
  BY <1>0
<1>3. ASSUME NEW s \in Subject, NEW i \in DOMAIN wire'[s]
      PROVE  \E j \in DOMAIN wire[s] : wire'[s][i] = wire[s][j]
  BY <1>0 DEF Taken
<1>4. \A i \in DOMAIN wire'["accepted"] :
        wire'["accepted"][i].cmd \in Commands /\ stage'[wire'["accepted"][i].cmd] # "new"
  BY <1>3, <1>1 DEF Subject
<1>5. \A i \in DOMAIN wire'["preview"] :
        wire'["preview"][i].cmd \in Commands /\ stage'[wire'["preview"][i].cmd] = "previewed"
  BY <1>3, <1>1 DEF Subject
<1>6. \A s \in Speaks : \A i \in DOMAIN wire'[s] :
        wire'[s][i].run \in Runs /\ run'[wire'[s][i].run] # "unused"
  BY <1>3, <1>1 DEF Subject, Speaks
<1>7. QED
  BY <1>0, <1>2, <1>4, <1>5, <1>6

LEMMA WiresKept ==
  ASSUME Wires, GoesOn, wire' = wire
  PROVE  Wires'
<1> USE DEF Wires, GoesOn
<1>1. \A i \in DOMAIN wire["accepted"] :
        wire["accepted"][i].cmd \in Commands /\ stage'[wire["accepted"][i].cmd] # "new"
  OBVIOUS
<1>2. \A i \in DOMAIN wire["preview"] :
        wire["preview"][i].cmd \in Commands /\ stage'[wire["preview"][i].cmd] = "previewed"
  OBVIOUS
<1>3. \A k \in Speaks : \A i \in DOMAIN wire[k] :
        wire[k][i].run \in Runs /\ run'[wire[k][i].run] # "unused"
  OBVIOUS
<1>4. QED
  BY <1>1, <1>2, <1>3

-----------------------------------------------------------------------------
(* Steps that leave the cards as they are.                                   *)

\* Such a step keeps what is known of cards and plans.
CardsStay ==
  /\ messages' \in Seq(Message) /\ SameCards(messages, messages')
  /\ seen' = seen /\ pendingPlan' \in {pendingPlan, NoCommand}
  /\ \A c \in Commands : stage[c] = "previewed" =>
       stage'[c] = "previewed" /\ missing'[c] = missing[c]
  /\ UNCHANGED <<dialog, registering, registered, lost, confirms, crowded>>

\* The messages of such a step, compared one by one.
SameMessages ==
  /\ messages' \in Seq(Message)
  /\ \A i \in DOMAIN messages :
       /\ i \in DOMAIN messages'
       /\ messages'[i].kind = messages[i].kind /\ messages'[i].cmd = messages[i].cmd
       /\ messages'[i].provider = messages[i].provider
       /\ messages'[i].connected = messages[i].connected
       /\ messages'[i].busy = messages[i].busy
  /\ \A i \in DOMAIN messages' :
       \/ i \in DOMAIN messages
       \/ /\ messages'[i].kind = "note" /\ messages'[i].cmd = NoCommand
          /\ messages'[i].provider = "none"
          /\ messages'[i].connected = FALSE /\ messages'[i].busy = FALSE

LEMMA OneByOne ==
  ASSUME CardsStay
  PROVE  SameMessages
BY DEF CardsStay, SameCards, Card, Blank, SameMessages

LEMMA CardsKept ==
  ASSUME IInv, CardsStay
  PROVE  Cards'
<1>1. SameMessages /\ registered' = registered /\ lost' = lost
  BY OneByOne DEF CardsStay
<1>2. ASSUME NEW i \in DOMAIN messages'
      PROVE  /\ messages'[i].kind = "connect" <=> messages'[i].provider # "none"
             /\ messages'[i].kind = "plan" => messages'[i].cmd # NoCommand
             /\ messages'[i].kind = "note" => messages'[i].cmd = NoCommand /\ ~messages'[i].busy
             /\ messages'[i].connected =>
                  messages'[i].kind = "connect" /\ messages'[i].provider \in registered \cup lost
  BY <1>1 DEF SameMessages, IInv, Cards
<1>3. QED
  BY <1>1, <1>2 DEF Cards

\* A plan in the session is one that was previewed.
LEMMA PlansAreSeen ==
  ASSUME IInv
  PROVE  /\ \A i \in DOMAIN messages :
              messages[i].kind = "plan" =>
                messages[i].cmd \in seen /\ messages[i].cmd \in Commands
                  /\ stage[messages[i].cmd] = "previewed"
         /\ pendingPlan # NoCommand =>
              pendingPlan \in seen /\ pendingPlan \in Commands /\ stage[pendingPlan] = "previewed"
         /\ \A c \in Commands : confirms[c] > 0 => c \in seen /\ stage[c] = "previewed"
BY DEF IInv, TypeOK, Cards, Plans

LEMMA PlansKept ==
  ASSUME IInv, CardsStay
  PROVE  Plans'
<1>1. SameMessages /\ registered' = registered /\ lost' = lost /\ seen' = seen /\ confirms' = confirms
      /\ pendingPlan' \in {pendingPlan, NoCommand}
      /\ \A c \in Commands : stage[c] = "previewed" =>
           stage'[c] = "previewed" /\ missing'[c] = missing[c]
  BY OneByOne DEF CardsStay
<1>2. \A c \in seen' : stage'[c] = "previewed"
  BY <1>1 DEF IInv, TypeOK, Plans
<1>3. \A i \in DOMAIN messages' :
        messages'[i].kind = "plan" => missing'[messages'[i].cmd] \subseteq registered' \cup lost'
  <2> TAKE i \in DOMAIN messages'
  <2> HAVE messages'[i].kind = "plan"
  <2>1. i \in DOMAIN messages /\ messages[i].kind = "plan" /\ messages'[i].cmd = messages[i].cmd
    BY <1>1 DEF SameMessages
  <2>2. missing'[messages[i].cmd] = missing[messages[i].cmd]
    BY <2>1, <1>1, PlansAreSeen
  <2>3. QED
    BY <2>1, <2>2, <1>1 DEF IInv, Plans
<1>4. ConfirmedIsConnected'
  BY <1>1, PlansAreSeen DEF IInv, Plans, ConfirmedIsConnected
<1>5. pendingPlan' # NoCommand => confirms'[pendingPlan'] = 0
  BY <1>1 DEF IInv, Plans
<1>6. QED
  BY <1>2, <1>3, <1>4, <1>5 DEF Plans

LEMMA UncrowdedKept ==
  ASSUME IInv, CardsStay, ~crowded
  PROVE  Uncrowded'
<1>1. /\ SameMessages /\ dialog' = dialog /\ registering' = registering
      /\ confirms' = confirms
      /\ pendingPlan' \in {pendingPlan, NoCommand}
      /\ \A c \in Commands : stage[c] = "previewed" => missing'[c] = missing[c]
  BY OneByOne DEF CardsStay
<1>2. CardsInUse /\ Pending /\ PlanCards
  BY DEF IInv, Uncrowded
<1>3. \A i \in DOMAIN messages' :
        InUse(messages'[i]) => i \in DOMAIN messages /\ InUse(messages[i])
  BY <1>1 DEF SameMessages, InUse
<1>4. \A i \in DOMAIN messages : InUse(messages[i]) => InUse(messages'[i])
  BY <1>1 DEF SameMessages, InUse
<1>5. \A i \in DOMAIN messages' :
        messages'[i].kind = "plan" => i \in DOMAIN messages /\ messages[i].kind = "plan"
  BY <1>1 DEF SameMessages
<1>6. CardsInUse'
  <2>1. ASSUME NEW i \in DOMAIN messages', NEW j \in DOMAIN messages',
               InUse(messages'[i]), messages'[j].provider = messages'[i].provider
        PROVE  ~messages'[j].connected /\ i = j
    <3>1. i \in DOMAIN messages /\ InUse(messages[i]) /\ messages[i].kind = "connect"
      BY <1>3, <2>1 DEF InUse
    <3>2. messages[i].provider # "none" /\ messages'[i].provider = messages[i].provider
      BY <3>1, <1>1 DEF IInv, Cards, SameMessages
    <3>3. j \in DOMAIN messages /\ messages[j].provider = messages[i].provider
          /\ messages'[j].connected = messages[j].connected
      BY <3>2, <2>1, <1>1 DEF SameMessages
    <3>4. QED
      BY <3>1, <3>3, <1>2 DEF CardsInUse
  <2>2. dialog' # 0 =>
          InUse(messages'[dialog']) /\ messages'[dialog'].busy
            /\ registering'[messages'[dialog'].provider] = 0
    <3> HAVE dialog' # 0
    <3>1. dialog \in DOMAIN messages /\ InUse(messages[dialog]) /\ messages[dialog].busy
          /\ registering[messages[dialog].provider] = 0
      BY <1>1, <1>2 DEF CardsInUse, IInv, TypeOK
    <3>2. InUse(messages'[dialog]) /\ messages'[dialog].busy
          /\ messages'[dialog].provider = messages[dialog].provider
      BY <3>1, <1>1, <1>4 DEF SameMessages
    <3>3. QED
      BY <3>1, <3>2, <1>1
  <2>3. ASSUME NEW p \in Providers
        PROVE  /\ registering'[p] \in {0, 1}
               /\ registering'[p] # 0 =>
                    \A i \in DOMAIN messages' :
                      InUse(messages'[i]) /\ messages'[i].provider = p => messages'[i].busy
    <3>1. registering[p] \in {0, 1}
          /\ (registering[p] # 0 =>
                \A i \in DOMAIN messages :
                  InUse(messages[i]) /\ messages[i].provider = p => messages[i].busy)
      BY <1>2 DEF CardsInUse
    <3>2. QED
      BY <3>1, <1>1, <1>3 DEF SameMessages
  <2>4. QED
    BY <2>1, <2>2, <2>3 DEF CardsInUse
<1>7. Pending'
  <2> SUFFICES ASSUME pendingPlan' # NoCommand, missing'[pendingPlan'] # {}
               PROVE  /\ \A i \in DOMAIN messages' :
                           InUse(messages'[i]) => messages'[i].provider \in missing'[pendingPlan']
                      /\ \A p \in Providers :
                           registering'[p] # 0 =>
                             \E i \in DOMAIN messages' :
                               InUse(messages'[i]) /\ messages'[i].provider = p
                      /\ (\E i \in DOMAIN messages' : InUse(messages'[i])) =>
                           \A i \in DOMAIN messages' :
                             messages'[i].kind = "plan" => messages'[i].cmd # pendingPlan'
    BY DEF Pending
  <2>1. pendingPlan' = pendingPlan /\ pendingPlan # NoCommand
        /\ missing'[pendingPlan] = missing[pendingPlan]
    BY <1>1, PlansAreSeen
  <2>2. /\ \A i \in DOMAIN messages :
             InUse(messages[i]) => messages[i].provider \in missing[pendingPlan]
        /\ \A p \in Providers :
             registering[p] # 0 =>
               \E i \in DOMAIN messages : InUse(messages[i]) /\ messages[i].provider = p
        /\ (\E i \in DOMAIN messages : InUse(messages[i])) =>
             \A i \in DOMAIN messages : messages[i].kind = "plan" => messages[i].cmd # pendingPlan
    BY <2>1, <1>2 DEF Pending
  <2>3. \A i \in DOMAIN messages' :
          InUse(messages'[i]) => messages'[i].provider \in missing[pendingPlan]
    BY <2>2, <1>1, <1>3 DEF SameMessages
  <2>4. \A p \in Providers :
          registering'[p] # 0 =>
            \E i \in DOMAIN messages' : InUse(messages'[i]) /\ messages'[i].provider = p
    BY <2>2, <1>1, <1>4 DEF SameMessages
  <2>5. (\E i \in DOMAIN messages' : InUse(messages'[i])) =>
          \A i \in DOMAIN messages' : messages'[i].kind = "plan" => messages'[i].cmd # pendingPlan
    BY <2>2, <1>1, <1>3, <1>5 DEF SameMessages
  <2>6. QED
    BY <2>1, <2>3, <2>4, <2>5
<1>8. PlanCards'
  BY <1>1, <1>2, <1>5 DEF PlanCards, SameMessages
<1>9. QED
  BY <1>6, <1>7, <1>8 DEF Uncrowded

\* The part of the types that is about the messages.
SessionTypes ==
  /\ messages \in Seq(Message) /\ processing \in BOOLEAN
  /\ pendingPlan \in seen \cup {NoCommand} /\ seen \subseteq Commands
  /\ \A i \in DOMAIN messages : messages[i].cmd \in seen \cup {NoCommand}
  /\ dialog \in DOMAIN messages \cup {0}

LEMMA SessionKept ==
  ASSUME IInv, CardsStay, processing' \in BOOLEAN
  PROVE  SessionTypes'
<1>1. SameMessages /\ seen' = seen /\ pendingPlan' \in {pendingPlan, NoCommand} /\ dialog' = dialog
  BY OneByOne DEF CardsStay
<1>2. \A i \in DOMAIN messages' : messages'[i].cmd \in seen' \cup {NoCommand}
  BY <1>1 DEF SameMessages, IInv, TypeOK
<1>3. QED
  BY <1>1, <1>2 DEF SessionTypes, SameMessages, IInv, TypeOK

-----------------------------------------------------------------------------
(* Events that only update the list.                                         *)

\* The types of the rest, when an event is received.
LEMMA EventTypes ==
  ASSUME IInv, NEW k \in Subject, NEW e \in Coming(k), Receive(k, e),
         SessionTypes', seen \subseteq seen', settled' \subseteq Runs,
         late' \in BOOLEAN, crowded' \in BOOLEAN
  PROVE  TypeOK'
<1>1. UNCHANGED <<world, accounts, confirms, server, published>>
  BY DEF Receive
<1>2. DOMAIN wire' = Subject
  BY WiresTaken DEF IInv, Wires
<1>3. duplicates' \in Nat
  BY DEF Receive, IInv, TypeOK
<1>4. QED
  BY <1>1, <1>2, <1>3 DEF SessionTypes, IInv, TypeOK, accounts, server

\* What is left of the outcomes, after one of them perhaps.
LEMMA EventRuns ==
  ASSUME IInv, NEW k \in Subject, NEW e \in Coming(k), Receive(k, e),
         \/ settled' = settled /\ k \notin {"succeeded", "failed"}
         \/ settled' = settled \cup {e.run} /\ k \in {"succeeded", "failed"}
  PROVE  RunsAreOwned'
<1>1. run' = run /\ owner' = owner /\ confirms' = confirms
  BY DEF Receive, server
<1>2. Taken(k, e) /\ (k \in Speaks => e.run \in Runs /\ run[e.run] # "unused")
  BY WiresTaken DEF IInv
<1>3. k \in {"succeeded", "failed"} => k \in Speaks
  BY DEF Speaks
<1>4. \A r \in Runs : run'[r] = "unused" => owner'[r] = NoCommand /\ r \notin settled'
  BY <1>1, <1>2, <1>3 DEF IInv, RunsAreOwned
<1>5. \A c \in Commands : Owned(c)' = Owned(c)
  BY <1>1 DEF Owned
<1>6. \A c \in Commands : IsFiniteSet(Owned(c)') /\ Cardinality(Owned(c)') <= confirms'[c]
  BY <1>1, <1>5 DEF IInv, RunsAreOwned
<1>7. \A r \in Runs \ settled' : run'[r] = "over" =>
        \E s \in {"succeeded", "failed"} : \E i \in DOMAIN wire'[s] : wire'[s][i].run = r
  <2> TAKE r \in Runs \ settled'
  <2> HAVE run'[r] = "over"
  <2>1. PICK s \in {"succeeded", "failed"} : \E j \in DOMAIN wire[s] : wire[s][j].run = r
    BY <1>1 DEF IInv, RunsAreOwned
  <2>2. PICK j \in DOMAIN wire[s] : wire[s][j].run = r
    BY <2>1
  <2>3. s \in Subject
    BY DEF Subject
  <2>4. ~ (s = k /\ wire[s][j] = e)
    BY <2>2
  <2>5. \E i \in DOMAIN wire'[s] : wire'[s][i] = wire[s][j]
    BY <2>3, <2>4, <1>2 DEF Taken
  <2>6. QED
    BY <2>2, <2>5
<1>8. QED
  BY <1>4, <1>6, <1>7 DEF RunsAreOwned

\* Whoever was awaited is awaited still.
LEMMA StillAwaited ==
  ASSUME UNCHANGED <<stage, run, owner, confirms, settled>>
  PROVE  Awaited' = Awaited
BY DEF Awaited, Unserved, Owned

LEMMA ShownKeeps ==
  ASSUME IInv, NEW k \in Subject, NEW e \in Coming(k), NEW list, Shown(k, e, list),
         k \notin {"succeeded", "failed"},
         list \in Seq(Message), SameCards(messages, list), processing' \in BOOLEAN,
         ~late' =>
           /\ \A i \in DOMAIN list : list[i].spinning # <<>> => list[i].status = "processing"
           /\ processing' \/ (\E i \in DOMAIN list : list[i].status = "processing") =>
                Busy \/ Awaited
  PROVE  IInv'
<1>0. /\ Receive(k, e) /\ messages' = list /\ late' = (late \/ Late(e))
      /\ UNCHANGED <<pendingPlan, seen, settled, crowded>>
      /\ UNCHANGED <<world, accounts, confirms, server, published>>
  BY DEF Shown, Receive
<1>1. CardsStay
  BY <1>0 DEF CardsStay, accounts, server
<1>2. Wires'
  BY <1>0, WiresTaken DEF IInv
<1>3. Cards' /\ Plans' /\ SessionTypes'
  BY <1>1, CardsKept, PlansKept, SessionKept
<1>4. TypeOK'
  <2>1. late' \in BOOLEAN
    BY <1>0 DEF IInv, TypeOK
  <2>2. seen \subseteq seen' /\ settled' \subseteq Runs /\ crowded' \in BOOLEAN
    BY <1>0 DEF IInv, TypeOK
  <2>3. QED
    BY <2>1, <2>2, <1>0, <1>3, EventTypes
<1>5. RunsAreOwned'
  BY <1>0, EventRuns
<1>6. ~crowded' => Uncrowded'
  BY <1>0, <1>1, UncrowdedKept
<1>7. ~late' => InTime'
  <2> SUFFICES ASSUME ~late'
               PROVE  InTime'
    OBVIOUS
  <2>1. ~late
    BY <1>0
  <2>2. Busy => Awaited
    BY <2>1 DEF IInv, InTime
  <2>3. Awaited' = Awaited
    BY <1>0, StillAwaited DEF server
  <2>4. QED
    BY <1>0, <2>2, <2>3 DEF InTime, Busy
<1>8. QED
  BY <1>2, <1>3, <1>4, <1>5, <1>6, <1>7 DEF IInv

\* The running steps so far.
LEMMA OldSpinning ==
  ASSUME IInv, ~late
  PROVE  /\ \A i \in DOMAIN messages :
              messages[i].spinning # <<>> => messages[i].status = "processing"
         /\ (\E i \in DOMAIN messages : messages[i].status = "processing") => Busy
BY DEF IInv, InTime, Busy

LEMMA AcceptedKeeps ==
  ASSUME IInv, NEW e \in Coming("accepted"), CommandAccepted(e)
  PROVE  IInv'
<1> DEFINE m == Note("processing", <<"analyze">>, TRUE)
           list == Append(messages, m)
<1>0. "accepted" \in Subject /\ <<"analyze">> \in Seq(Label)
  BY DEF Subject, Label
<1>1. Shown("accepted", e, list) /\ processing' = TRUE
  BY DEF CommandAccepted
<1>2. m \in Message /\ Card(m) = Blank /\ m.status = "processing"
  <2>1. m \in Message /\ m.status = "processing"
    BY <1>0, NoteIsMessage
  <2>2. Card(m) = Blank
    BY NoteIsBlank
  <2>3. QED
    BY <2>1, <2>2
<1>3. messages \in Seq(Message)
  BY DEF IInv, TypeOK
<1> HIDE DEF m
<1>4. list \in Seq(Message) /\ SameCards(messages, list)
  BY <1>2, <1>3, AppendedNote
<1>5. e.cmd \in Commands /\ stage[e.cmd] # "new"
  BY <1>0, <1>1, WiresTaken DEF IInv, Shown
<1>6. ASSUME ~late'
      PROVE  /\ \A i \in DOMAIN list : list[i].spinning # <<>> => list[i].status = "processing"
             /\ Awaited
  <2>1. ~late /\ ~Late(e)
    BY <1>1, <1>6 DEF Shown
  <2>2. \A r \in settled : owner[r] # e.cmd
    BY <2>1, <1>5, NoCommandAssumption DEF Late
  <2>3. Awaited
    BY <2>2, <1>5 DEF Awaited, Unserved
  <2>4. \A i \in DOMAIN list : list[i].spinning # <<>> => list[i].status = "processing"
    BY <2>1, <1>2, <1>3, OldSpinning, Appended
  <2>5. QED
    BY <2>3, <2>4
<1> HIDE DEF list
<1>7. QED
  BY <1>0, <1>1, <1>4, <1>6, ShownKeeps

\* A handler that makes a new version of the last message.
LEMMA VersionKeeps ==
  ASSUME IInv, NEW k \in Subject, NEW e \in Coming(k), NEW v,
         k \notin {"succeeded", "failed"},
         Shown(k, e, UpdateLast(v)), UNCHANGED processing,
         messages # <<>> => v \in Message /\ Card(v) = Card(Latest),
         ~late' /\ messages # <<>> =>
           /\ v.spinning # <<>> => v.status = "processing"
           /\ v.status = "processing" => Latest.status = "processing" \/ Awaited
  PROVE  IInv'
<1>1. messages \in Seq(Message) /\ processing \in BOOLEAN
  BY DEF IInv, TypeOK
<1>2. UpdateLast(v) \in Seq(Message) /\ SameCards(messages, UpdateLast(v))
  BY <1>1, UpdatedCards
<1>3. /\ DOMAIN UpdateLast(v) = DOMAIN messages
      /\ \A i \in DOMAIN messages :
           UpdateLast(v)[i] = IF i = Len(messages) THEN v ELSE messages[i]
  BY <1>1, Updated
<1>4. \A i \in DOMAIN messages : messages # <<>>
  BY <1>1
<1>5. messages # <<>> => Len(messages) \in DOMAIN messages /\ Latest = messages[Len(messages)]
  BY <1>1, Lists DEF Latest
<1>6. ASSUME ~late'
      PROVE  /\ \A i \in DOMAIN UpdateLast(v) :
                  UpdateLast(v)[i].spinning # <<>> => UpdateLast(v)[i].status = "processing"
             /\ processing \/ (\E i \in DOMAIN UpdateLast(v) :
                                 UpdateLast(v)[i].status = "processing") => Busy \/ Awaited
  <2>1. ~late
    BY <1>6 DEF Shown
  <2>2. ASSUME NEW i \in DOMAIN messages
        PROVE  /\ UpdateLast(v)[i].spinning # <<>> => UpdateLast(v)[i].status = "processing"
               /\ UpdateLast(v)[i].status = "processing" => Busy \/ Awaited
    <3>1. CASE i = Len(messages)
      BY <3>1, <2>1, <1>3, <1>4, <1>5, <1>6, OldSpinning
    <3>2. CASE i # Len(messages)
      BY <3>2, <2>1, <1>3, OldSpinning
    <3>3. QED
      BY <3>1, <3>2
  <2>3. QED
    BY <2>2, <1>3 DEF Busy
<1>7. processing' \in BOOLEAN /\ processing' = processing
  BY <1>1
<1>8. QED
  BY <1>2, <1>6, <1>7, ShownKeeps

LEMMA LatestIsMessage ==
  ASSUME IInv, messages # <<>>
  PROVE  Latest \in Message /\ Len(messages) \in DOMAIN messages /\ Latest = messages[Len(messages)]
BY Lists DEF Latest, IInv, TypeOK

\* The run of an event that is not late is awaited.
LEMMA RunIsAwaited ==
  ASSUME IInv, NEW k \in Subject, NEW e \in Coming(k), Receive(k, e), k \in Speaks, ~Late(e)
  PROVE  Awaited
<1>1. e.run \in Runs /\ run[e.run] # "unused"
  BY WiresTaken DEF IInv
<1>2. e.run \notin settled
  BY DEF Late
<1>3. QED
  BY <1>1, <1>2 DEF Awaited

LEMMA ProgressKeeps ==
  ASSUME IInv, NEW e \in Coming("progress"), PlannerProgress(e)
  PROVE  IInv'
<1> DEFINE v == IF e.status = "running" THEN AddStep(Latest, "check") ELSE EndStep(Latest, "check")
<1>1. "progress" \in Subject /\ "check" \in Label
  BY DEF Subject, Label
<1>2. Shown("progress", e, UpdateLast(v)) /\ UNCHANGED processing
  BY DEF PlannerProgress
<1>3. messages # <<>> => v \in Message /\ Card(v) = Card(Latest) /\ v.status = Latest.status
  BY <1>1, LatestIsMessage, AddStepKeeps, EndStepKeeps
<1>4. ~late' /\ messages # <<>> =>
        (v.spinning # <<>> => v.status = "processing")
  <2> SUFFICES ASSUME ~late', messages # <<>>, v.spinning # <<>>
               PROVE  Latest.status = "processing"
    BY <1>3
  <2>1. ~late /\ ~Late(e)
    BY <1>2 DEF Shown
  <2>2. CASE e.status = "running"
    BY <2>1, <2>2 DEF Late, Latest
  <2>3. CASE e.status # "running"
    <3>1. Latest.spinning # <<>>
      BY <2>3, <1>1, LatestIsMessage, EndStepKeeps
    <3>2. QED
      BY <3>1, <2>1, LatestIsMessage, OldSpinning
  <2>4. QED
    BY <2>2, <2>3
<1> HIDE DEF v
<1>5. QED
  BY <1>1, <1>2, <1>3, <1>4, VersionKeeps

LEMMA StepEventKeeps ==
  ASSUME IInv, NEW e \in Coming("step"), RunStep(e)
  PROVE  IInv'
<1> DEFINE v == IF e.status = "running" THEN AddStep(Latest, "tool") ELSE EndStep(Latest, "tool")
<1>1. "step" \in Subject /\ "tool" \in Label
  BY DEF Subject, Label
<1>2. Shown("step", e, UpdateLast(v)) /\ UNCHANGED processing
  BY DEF RunStep
<1>3. messages # <<>> => v \in Message /\ Card(v) = Card(Latest) /\ v.status = Latest.status
  BY <1>1, LatestIsMessage, AddStepKeeps, EndStepKeeps
<1>4. ~late' /\ messages # <<>> =>
        (v.spinning # <<>> => v.status = "processing")
  <2> SUFFICES ASSUME ~late', messages # <<>>, v.spinning # <<>>
               PROVE  Latest.status = "processing"
    BY <1>3
  <2>1. ~late /\ ~Late(e)
    BY <1>2 DEF Shown
  <2>2. CASE e.status = "running"
    BY <2>1, <2>2 DEF Late, Latest
  <2>3. CASE e.status # "running"
    <3>1. Latest.spinning # <<>>
      BY <2>3, <1>1, LatestIsMessage, EndStepKeeps
    <3>2. QED
      BY <3>1, <2>1, LatestIsMessage, OldSpinning
  <2>4. QED
    BY <2>2, <2>3
<1> HIDE DEF v
<1>5. QED
  BY <1>1, <1>2, <1>3, <1>4, VersionKeeps

LEMMA CreatedKeeps ==
  ASSUME IInv, NEW e \in Coming("created"), AgentCreated(e)
  PROVE  IInv'
<1> DEFINE v == [Latest EXCEPT !.spinning = <<>>, !.steps = TRUE]
<1>1. "created" \in Subject /\ <<>> \in Seq(Label)
  BY DEF Subject
<1>2. Shown("created", e, UpdateLast(v)) /\ UNCHANGED processing
  BY DEF AgentCreated
<1>3. messages # <<>> =>
        v \in Message /\ Card(v) = Card(Latest) /\ v.status = Latest.status /\ v.spinning = <<>>
  BY <1>1, LatestIsMessage DEF Message, Card
<1> HIDE DEF v
<1>4. QED
  BY <1>1, <1>2, <1>3, VersionKeeps

LEMMA StartedKeeps ==
  ASSUME IInv, NEW e \in Coming("started"), RunStarted(e)
  PROVE  IInv'
<1> DEFINE v == [Latest EXCEPT !.status = "processing", !.steps = TRUE]
<1>1. "started" \in Subject /\ "started" \in Speaks
  BY DEF Subject, Speaks
<1>2. Shown("started", e, UpdateLast(v)) /\ UNCHANGED processing
  BY DEF RunStarted
<1>3. messages # <<>> => v \in Message /\ Card(v) = Card(Latest) /\ v.status = "processing"
  BY <1>1, LatestIsMessage DEF Message, Card
<1>4. ~late' => Awaited
  BY <1>1, <1>2, RunIsAwaited DEF Shown
<1> HIDE DEF v
<1>5. QED
  BY <1>1, <1>2, <1>3, <1>4, VersionKeeps

LEMMA ThinkingKeeps ==
  ASSUME IInv, NEW e \in Coming("thinking"), RunThinking(e)
  PROVE  IInv'
<1> DEFINE m == Note("processing", <<>>, FALSE)
           list == Append(messages, m)
<1>1. "thinking" \in Subject /\ "thinking" \in Speaks /\ <<>> \in Seq(Label)
  BY DEF Subject, Speaks
<1>2. Shown("thinking", e, list) /\ processing' = processing
  BY DEF RunThinking
<1>3. m \in Message /\ Card(m) = Blank /\ m.status = "processing"
  <2>1. m \in Message /\ m.status = "processing"
    BY <1>1, NoteIsMessage
  <2>2. Card(m) = Blank
    BY NoteIsBlank
  <2>3. QED
    BY <2>1, <2>2
<1>4. messages \in Seq(Message) /\ processing \in BOOLEAN
  BY DEF IInv, TypeOK
<1> HIDE DEF m
<1>5. list \in Seq(Message) /\ SameCards(messages, list)
  BY <1>3, <1>4, AppendedNote
<1>6. ASSUME ~late'
      PROVE  /\ \A i \in DOMAIN list : list[i].spinning # <<>> => list[i].status = "processing"
             /\ Awaited
  <2>1. ~late /\ ~Late(e)
    BY <1>2, <1>6 DEF Shown
  <2>2. Awaited
    BY <2>1, <1>1, <1>2, RunIsAwaited DEF Shown
  <2>3. \A i \in DOMAIN list : list[i].spinning # <<>> => list[i].status = "processing"
    BY <2>1, <1>3, <1>4, OldSpinning, Appended
  <2>4. QED
    BY <2>2, <2>3
<1> HIDE DEF list
<1>7. processing' \in BOOLEAN
  BY <1>2, <1>4
<1>8. QED
  BY <1>1, <1>2, <1>5, <1>6, <1>7, ShownKeeps

-----------------------------------------------------------------------------
(* Outcomes.                                                                 *)

LEMMA OutcomeKeeps ==
  ASSUME IInv, NEW k \in {"succeeded", "failed"}, NEW e \in Coming(k), NEW list,
         Outcome(k, e, list), list \in Seq(Message), SameCards(messages, list),
         ~late => \A i \in DOMAIN list :
                    list[i].spinning = <<>> /\ list[i].status # "processing"
  PROVE  IInv'
<1>0. /\ Receive(k, e) /\ messages' = list /\ processing' = FALSE /\ pendingPlan' = NoCommand
      /\ settled' = settled \cup {e.run}
      /\ UNCHANGED <<seen, late, crowded>>
      /\ UNCHANGED <<world, accounts, confirms, server, published>>
      /\ k \in Subject /\ k \in Speaks
  BY DEF Outcome, Receive, Subject, Speaks
<1>1. CardsStay
  BY <1>0 DEF CardsStay, accounts, server
<1>2. Wires' /\ e.run \in Runs
  BY <1>0, WiresTaken DEF IInv
<1>3. Cards' /\ Plans' /\ SessionTypes'
  <2>1. processing' \in BOOLEAN
    BY <1>0
  <2>2. QED
    BY <2>1, <1>1, CardsKept, PlansKept, SessionKept
<1>4. TypeOK'
  <2>1. late' \in BOOLEAN /\ crowded' \in BOOLEAN
    BY <1>0 DEF IInv, TypeOK
  <2>2. seen \subseteq seen' /\ settled' \subseteq Runs
    BY <1>0, <1>2 DEF IInv, TypeOK
  <2>3. QED
    BY <2>1, <2>2, <1>0, <1>3, EventTypes
<1>5. RunsAreOwned'
  BY <1>0, EventRuns
<1>6. ~crowded' => Uncrowded'
  BY <1>0, <1>1, UncrowdedKept
<1>7. ~late' => InTime'
  BY <1>0 DEF InTime, Busy
<1>8. QED
  BY <1>2, <1>3, <1>4, <1>5, <1>6, <1>7 DEF IInv

LEMMA FinishedInTime ==
  ASSUME IInv
  PROVE  /\ FinishAll(messages) \in Seq(Message) /\ SameCards(messages, FinishAll(messages))
         /\ ~late => \A i \in DOMAIN FinishAll(messages) :
              FinishAll(messages)[i].spinning = <<>> /\ FinishAll(messages)[i].status # "processing"
<1>1. messages \in Seq(Message)
  BY DEF IInv, TypeOK
<1>2. QED
  BY <1>1, Finished, OldSpinning

\* A list with the same cards, and one note more.
LEMMA CardsThenNote ==
  ASSUME NEW ms \in Seq(Message), NEW ms2 \in Seq(Message), SameCards(ms, ms2),
         NEW m \in Message, Card(m) = Blank
  PROVE  Append(ms2, m) \in Seq(Message) /\ SameCards(ms, Append(ms2, m))
<1>1. Append(ms2, m) \in Seq(Message) /\ SameCards(ms2, Append(ms2, m))
  BY AppendedNote
<1>2. QED
  BY <1>1 DEF SameCards

LEMMA FailedKeeps ==
  ASSUME IInv, NEW e \in Coming("failed"), RunFailed(e)
  PROVE  IInv'
<1> DEFINE m == Note("error", <<>>, TRUE)
           done == FinishAll(messages)
           list == Append(done, m)
<1>1. Outcome("failed", e, list)
  BY DEF RunFailed
<1>2. m \in Message /\ Card(m) = Blank /\ m.status # "processing" /\ m.spinning = <<>>
  <2>1. <<>> \in Seq(Label)
    OBVIOUS
  <2>2. m \in Message /\ m.status = "error" /\ m.spinning = <<>>
    BY <2>1, NoteIsMessage
  <2>3. Card(m) = Blank
    BY NoteIsBlank
  <2>4. QED
    BY <2>2, <2>3
<1>3. messages \in Seq(Message) /\ done \in Seq(Message) /\ SameCards(messages, done)
  BY FinishedInTime DEF IInv, TypeOK
<1>4. ~late => \A i \in DOMAIN done : done[i].spinning = <<>> /\ done[i].status # "processing"
  BY FinishedInTime
<1> HIDE DEF m, done
<1>5. list \in Seq(Message) /\ SameCards(messages, list)
  BY <1>2, <1>3, CardsThenNote
<1>6. ~late => \A i \in DOMAIN list : list[i].spinning = <<>> /\ list[i].status # "processing"
  BY <1>2, <1>3, <1>4, Appended
<1> HIDE DEF list
<1>7. QED
  BY <1>1, <1>5, <1>6, OutcomeKeeps

LEMMA NotesAreBlank ==
  ASSUME IInv, NEW i \in DOMAIN messages, messages[i].kind = "note"
  PROVE  Card(messages[i]) = Blank
<1>1. messages[i] \in Message
  BY DEF IInv, TypeOK
<1>2. messages[i].provider = "none"
  BY DEF IInv, Cards
<1>3. messages[i].connected = FALSE /\ messages[i].busy = FALSE
  BY <1>1 DEF IInv, Cards, Message
<1>4. messages[i].cmd = NoCommand
  BY DEF IInv, Cards
<1>5. QED
  BY <1>2, <1>3, <1>4 DEF Card, Blank

LEMMA SucceededKeeps ==
  ASSUME IInv, NEW e \in Coming("succeeded"), RunSucceeded(e)
  PROVE  IInv'
<1> DEFINE m == [Note("complete", <<>>, TRUE) EXCEPT !.next = TRUE]
           done == FinishAll(messages)
           list == IF done # <<>> /\ IsThinking(Last(done))
                   THEN [done EXCEPT ![Len(done)] = m] ELSE Append(done, m)
<1>1. Outcome("succeeded", e, list)
  BY DEF RunSucceeded
<1>2. m \in Message /\ Card(m) = Blank /\ m.status # "processing" /\ m.spinning = <<>>
  <2>1. <<>> \in Seq(Label)
    OBVIOUS
  <2>2. m \in Message /\ m.status = "complete" /\ m.spinning = <<>>
    BY <2>1 DEF Note, Message
  <2>3. Card(m) = Blank
    BY DEF Note, Card, Blank
  <2>4. QED
    BY <2>2, <2>3
<1>3. messages \in Seq(Message) /\ done \in Seq(Message) /\ SameCards(messages, done)
      /\ DOMAIN done = DOMAIN messages /\ \A i \in DOMAIN messages : done[i].kind = messages[i].kind
  BY FinishedInTime, Finished DEF IInv, TypeOK
<1>4. ~late => \A i \in DOMAIN done : done[i].spinning = <<>> /\ done[i].status # "processing"
  BY FinishedInTime
<1> HIDE DEF m, done
<1>5. CASE done # <<>> /\ IsThinking(Last(done))
  <2>1. list = [done EXCEPT ![Len(done)] = m]
    BY <1>5
  <2>2. Len(done) \in DOMAIN done /\ Last(done) = done[Len(done)]
    BY <1>3, <1>5, Lists
  <2>3. Card(done[Len(done)]) = Card(messages[Len(done)]) /\ messages[Len(done)].kind = "note"
    BY <2>2, <1>3, <1>5 DEF IsThinking, SameCards
  <2>4. Card(messages[Len(done)]) = Blank
    BY <2>2, <2>3, <1>3, NotesAreBlank
  <2>5. list \in Seq(Message) /\ DOMAIN list = DOMAIN done
        /\ \A i \in DOMAIN done : list[i] = IF i = Len(done) THEN m ELSE done[i]
    BY <2>1, <1>2, <1>3, <1>5, Replaced
  <2>6. SameCards(messages, list)
    BY <2>2, <2>4, <2>5, <1>2, <1>3 DEF SameCards
  <2>7. ~late => \A i \in DOMAIN list : list[i].spinning = <<>> /\ list[i].status # "processing"
    BY <2>5, <1>2, <1>4
  <2> HIDE DEF list
  <2>8. QED
    BY <2>5, <2>6, <2>7, <1>1, OutcomeKeeps
<1>6. CASE ~ (done # <<>> /\ IsThinking(Last(done)))
  <2>1. list = Append(done, m)
    BY <1>6
  <2>2. list \in Seq(Message) /\ SameCards(messages, list)
    BY <2>1, <1>2, <1>3, CardsThenNote
  <2>3. ~late => \A i \in DOMAIN list : list[i].spinning = <<>> /\ list[i].status # "processing"
    BY <2>1, <1>2, <1>3, <1>4, Appended
  <2> HIDE DEF list
  <2>4. QED
    BY <2>2, <2>3, <1>1, OutcomeKeeps
<1>7. QED
  BY <1>5, <1>6

-----------------------------------------------------------------------------
(* The preview of a plan.                                                    *)

LEMMA OrderOf ==
  ASSUME NEW S, IsFiniteSet(S)
  PROVE  /\ SetToSeq(S) \in [1 .. Cardinality(S) -> S]
         /\ IsInjective(SetToSeq(S))
         /\ Cardinality(S) \in Nat
<1>1. Cardinality(S) \in Nat /\ ExistsBijection(1 .. Cardinality(S), S)
  BY FS_CardinalityType
<1>2. \E f \in [1 .. Cardinality(S) -> S] : IsInjective(f)
  BY <1>1 DEF ExistsBijection, Bijection, Injection
<1>3. QED
  BY <1>1, <1>2 DEF SetToSeq

\* The cards of a plan: its own or one for each connection that it lacks.
NewCards(c) ==
  IF missing[c] = {} THEN <<PlanCard(c)>>
  ELSE [i \in DOMAIN SetToSeq(missing[c]) |-> ConnectCard(c, SetToSeq(missing[c])[i])]

LEMMA NewCardsAre ==
  ASSUME IInv, NEW c \in Commands
  PROVE  /\ NewCards(c) \in Seq(Message)
         /\ \A i \in DOMAIN NewCards(c) :
              /\ NewCards(c)[i].spinning = <<>> /\ NewCards(c)[i].cmd = c
              /\ NewCards(c)[i].connected = FALSE /\ NewCards(c)[i].busy = FALSE
              /\ IF missing[c] = {}
                 THEN NewCards(c)[i].kind = "plan" /\ NewCards(c)[i].provider = "none"
                 ELSE /\ NewCards(c)[i].kind = "connect"
                      /\ NewCards(c)[i].provider \in missing[c]
                      /\ NewCards(c)[i].provider \in Providers
         /\ \A i, j \in DOMAIN NewCards(c) :
              NewCards(c)[i].provider = NewCards(c)[j].provider => i = j
<1>1. CASE missing[c] = {}
  <2>1. NewCards(c) = <<PlanCard(c)>>
    BY <1>1 DEF NewCards
  <2>2. /\ PlanCard(c) \in Message
        /\ PlanCard(c).kind = "plan"
        /\ PlanCard(c).spinning = <<>>
        /\ PlanCard(c).cmd = c
        /\ PlanCard(c).provider = "none"
        /\ PlanCard(c).connected = FALSE
        /\ PlanCard(c).busy = FALSE
    BY PlanCardIsMessage
  <2>3. /\ NewCards(c) \in Seq(Message)
        /\ DOMAIN NewCards(c) = {1} /\ NewCards(c)[1] = PlanCard(c)
    BY <2>1, <2>2
  <2>4. QED
    BY <2>2, <2>3, <1>1
<1>2. CASE missing[c] # {}
  <2> DEFINE order == SetToSeq(missing[c])
             n == Cardinality(missing[c])
  <2>1. missing[c] \subseteq Providers /\ IsFiniteSet(missing[c])
    BY ProvidersAssumption, FS_Subset DEF IInv, TypeOK
  <2>2. order \in [1 .. n -> missing[c]] /\ IsInjective(order) /\ n \in Nat
    BY <2>1, OrderOf
  <2>3. /\ DOMAIN NewCards(c) = 1 .. n
        /\ \A i \in 1 .. n : NewCards(c)[i] = ConnectCard(c, order[i])
        /\ NewCards(c) = [i \in 1 .. n |-> ConnectCard(c, order[i])]
    BY <1>2, <2>2 DEF NewCards
  <2> HIDE DEF order, n
  <2>4. \A i \in 1 .. n : order[i] \in missing[c] /\ order[i] \in Providers
    BY <2>1, <2>2
  <2>5. \A i \in 1 .. n :
          /\ NewCards(c)[i] \in Message
          /\ NewCards(c)[i].kind = "connect"
          /\ NewCards(c)[i].spinning = <<>>
          /\ NewCards(c)[i].cmd = c
          /\ NewCards(c)[i].provider = order[i]
          /\ NewCards(c)[i].connected = FALSE
          /\ NewCards(c)[i].busy = FALSE
    <3> TAKE i \in 1 .. n
    <3>1. order[i] \in Providers
      BY <2>4
    <3>2. /\ ConnectCard(c, order[i]) \in Message
          /\ ConnectCard(c, order[i]).kind = "connect"
          /\ ConnectCard(c, order[i]).spinning = <<>>
          /\ ConnectCard(c, order[i]).cmd = c
          /\ ConnectCard(c, order[i]).provider = order[i]
          /\ ConnectCard(c, order[i]).connected = FALSE
          /\ ConnectCard(c, order[i]).busy = FALSE
      <4>1. ConnectCard(c, order[i]).spinning = <<>>
        BY DEF ConnectCard, Note
      <4>2. /\ ConnectCard(c, order[i]) \in Message
            /\ ConnectCard(c, order[i]).kind = "connect"
            /\ ConnectCard(c, order[i]).cmd = c
            /\ ConnectCard(c, order[i]).provider = order[i]
            /\ ConnectCard(c, order[i]).connected = FALSE
            /\ ConnectCard(c, order[i]).busy = FALSE
        <5>1. ConnectCard(c, order[i]) \in Message
          BY <3>1, ConnectCardIsMessage
        <5>2. QED
          BY <5>1 DEF ConnectCard, Note
      <4>3. QED
        BY <4>1, <4>2
    <3>3. QED
      BY <3>2, <2>3
  <2>6. NewCards(c) \in [1 .. n -> Message]
    <3>1. NewCards(c) = [i \in 1 .. n |-> NewCards(c)[i]]
      BY <2>3
    <3>2. QED
      BY <3>1, <2>5
  <2>7. NewCards(c) \in Seq(Message)
    BY <2>2, <2>6
  <2>8. \A i, j \in 1 .. n : order[i] = order[j] => i = j
    BY <2>2 DEF IsInjective
  <2>9. QED
    BY <1>2, <2>3, <2>4, <2>5, <2>7, <2>8
<1>3. QED
  BY <1>1, <1>2

\* The list of a preview: the old messages, the last of which is complete, and the
\* new cards.
LEMMA PreviewedList ==
  ASSUME IInv, NEW c \in Commands
  PROVE  /\ Previewed(c) \in Seq(Message)
         /\ DOMAIN messages \subseteq DOMAIN Previewed(c)
         /\ \A i \in DOMAIN messages :
              /\ Card(Previewed(c)[i]) = Card(messages[i])
              /\ \/ Previewed(c)[i] = messages[i]
                 \/ Previewed(c)[i].spinning = <<>> /\ Previewed(c)[i].status = "complete"
         /\ \A i \in DOMAIN Previewed(c) \ DOMAIN messages :
              /\ i - Len(messages) \in DOMAIN NewCards(c)
              /\ Previewed(c)[i] = NewCards(c)[i - Len(messages)]
         /\ DOMAIN messages = 1 .. Len(messages) /\ Len(messages) \in Nat
         /\ DOMAIN Previewed(c) \subseteq Nat
<1> DEFINE v == [Latest EXCEPT !.status = "complete", !.spinning = <<>>, !.steps = TRUE]
<1>0. messages \in Seq(Message) /\ <<>> \in Seq(Label)
  BY DEF IInv, TypeOK
<1>1. messages # <<>> =>
        v \in Message /\ Card(v) = Card(Latest) /\ v.status = "complete" /\ v.spinning = <<>>
  BY <1>0, LatestIsMessage DEF Message, Card
<1>2. Previewed(c) = UpdateLast(v) \o NewCards(c)
  BY DEF Previewed, NewCards
<1> HIDE DEF v
<1>3. /\ UpdateLast(v) \in Seq(Message) /\ SameCards(messages, UpdateLast(v))
      /\ DOMAIN UpdateLast(v) = DOMAIN messages
      /\ \A i \in DOMAIN messages :
           UpdateLast(v)[i] = IF i = Len(messages) THEN v ELSE messages[i]
  BY <1>0, <1>1, Updated, UpdatedCards
<1>4. Len(UpdateLast(v)) = Len(messages) /\ Len(messages) \in Nat /\ DOMAIN messages = 1 .. Len(messages)
  BY <1>0, <1>3
<1>5. NewCards(c) \in Seq(Message) /\ Len(NewCards(c)) \in Nat
      /\ DOMAIN NewCards(c) = 1 .. Len(NewCards(c))
  <2>1. NewCards(c) \in Seq(Message)
    BY NewCardsAre
  <2>2. QED
    BY <2>1
<1>6. /\ Previewed(c) \in Seq(Message)
      /\ DOMAIN Previewed(c) = 1 .. Len(messages) + Len(NewCards(c))
      /\ \A i \in 1 .. Len(messages) + Len(NewCards(c)) :
           Previewed(c)[i] = IF i <= Len(messages) THEN UpdateLast(v)[i]
                             ELSE NewCards(c)[i - Len(messages)]
  <2> DEFINE a == UpdateLast(v)
             b == NewCards(c)
  <2>1. a \in Seq(Message) /\ b \in Seq(Message) /\ Previewed(c) = a \o b
        /\ Len(a) = Len(messages)
    BY <1>2, <1>3, <1>4, <1>5
  <2> HIDE DEF a, b
  <2>2. /\ a \o b \in Seq(Message)
        /\ Len(a \o b) = Len(a) + Len(b)
        /\ \A i \in 1 .. Len(a) + Len(b) :
             (a \o b)[i] = IF i <= Len(a) THEN a[i] ELSE b[i - Len(a)]
    BY <2>1, ConcatProperties
  <2>3. DOMAIN (a \o b) = 1 .. Len(a) + Len(b)
    BY <2>2
  <2>4. QED
    BY <2>1, <2>2, <2>3 DEF a, b
<1>7. \A i \in DOMAIN messages :
        /\ i \in DOMAIN Previewed(c)
        /\ Previewed(c)[i] = UpdateLast(v)[i]
  BY <1>4, <1>5, <1>6
<1>8. \A i \in DOMAIN Previewed(c) \ DOMAIN messages :
        /\ i - Len(messages) \in DOMAIN NewCards(c)
        /\ Previewed(c)[i] = NewCards(c)[i - Len(messages)]
  BY <1>4, <1>5, <1>6
<1>9. \A i \in DOMAIN messages :
        /\ Card(Previewed(c)[i]) = Card(messages[i])
        /\ \/ Previewed(c)[i] = messages[i]
           \/ Previewed(c)[i].spinning = <<>> /\ Previewed(c)[i].status = "complete"
  <2> TAKE i \in DOMAIN messages
  <2>1. Card(Previewed(c)[i]) = Card(messages[i])
    BY <1>3, <1>7 DEF SameCards
  <2>2. messages # <<>>
    BY <1>0
  <2>3. Previewed(c)[i] = v \/ Previewed(c)[i] = messages[i]
    BY <1>3, <1>7
  <2>4. QED
    BY <2>1, <2>2, <2>3, <1>1
<1>10. QED
  BY <1>4, <1>6, <1>7, <1>8, <1>9

\* A plan that was seen already changes nothing.
LEMMA SeenKeeps ==
  ASSUME IInv, NEW e \in Coming("preview"), PlanPreview(e), e.cmd \in seen
  PROVE  IInv'
<1>0. /\ Receive("preview", e) /\ "preview" \in Subject
      /\ UNCHANGED <<messages, pendingPlan, seen, late, crowded, processing, settled>>
      /\ UNCHANGED <<world, accounts, confirms, server, published>>
  BY DEF PlanPreview, Receive, Subject
<1>1. CardsStay
  BY <1>0 DEF CardsStay, SameCards, accounts, server, IInv, TypeOK
<1>2. Wires'
  BY <1>0, WiresTaken DEF IInv
<1>3. Cards' /\ Plans' /\ SessionTypes'
  <2>1. processing' \in BOOLEAN
    BY <1>0 DEF IInv, TypeOK
  <2>2. QED
    BY <2>1, <1>1, CardsKept, PlansKept, SessionKept
<1>4. TypeOK'
  <2>1. late' \in BOOLEAN /\ crowded' \in BOOLEAN
    BY <1>0 DEF IInv, TypeOK
  <2>2. seen \subseteq seen' /\ settled' \subseteq Runs
    BY <1>0 DEF IInv, TypeOK
  <2>3. QED
    BY <2>1, <2>2, <1>0, <1>3, EventTypes
<1>5. RunsAreOwned'
  BY <1>0, EventRuns
<1>6. ~crowded' => Uncrowded'
  BY <1>0, <1>1, UncrowdedKept
<1>7. ~late' => InTime'
  <2>1. Awaited' = Awaited
    BY <1>0, StillAwaited DEF server
  <2>2. QED
    BY <1>0, <2>1 DEF IInv, InTime, Busy
<1>8. QED
  BY <1>2, <1>3, <1>4, <1>5, <1>6, <1>7 DEF IInv

\* The list of the preview of c, message by message.
OldMessage(i) ==
  /\ i \in DOMAIN messages
  /\ messages'[i].kind = messages[i].kind /\ messages'[i].cmd = messages[i].cmd
  /\ messages'[i].provider = messages[i].provider
  /\ messages'[i].connected = messages[i].connected
  /\ messages'[i].busy = messages[i].busy
  /\ \/ messages'[i].spinning = messages[i].spinning /\ messages'[i].status = messages[i].status
     \/ messages'[i].spinning = <<>> /\ messages'[i].status = "complete"

FreshCard(i, c) ==
  /\ i \notin DOMAIN messages
  /\ messages'[i].spinning = <<>> /\ messages'[i].cmd = c
  /\ messages'[i].connected = FALSE /\ messages'[i].busy = FALSE
  /\ IF missing[c] = {}
     THEN messages'[i].kind = "plan" /\ messages'[i].provider = "none"
     ELSE /\ messages'[i].kind = "connect"
          /\ messages'[i].provider \in missing[c] /\ messages'[i].provider \in Providers

LEMMA PreviewedMessages ==
  ASSUME IInv, NEW c \in Commands, messages' = Previewed(c)
  PROVE  /\ messages' \in Seq(Message)
         /\ DOMAIN messages \subseteq DOMAIN messages'
         /\ \A i \in DOMAIN messages : OldMessage(i)
         /\ \A i \in DOMAIN messages' : OldMessage(i) \/ FreshCard(i, c)
         /\ \A i, j \in DOMAIN messages' :
              FreshCard(i, c) /\ FreshCard(j, c) /\ messages'[i].provider = messages'[j].provider
              => i = j
<1>1. /\ messages' \in Seq(Message)
      /\ DOMAIN messages \subseteq DOMAIN messages'
      /\ \A i \in DOMAIN messages :
           /\ Card(messages'[i]) = Card(messages[i])
           /\ \/ messages'[i] = messages[i]
              \/ messages'[i].spinning = <<>> /\ messages'[i].status = "complete"
      /\ \A i \in DOMAIN messages' \ DOMAIN messages :
           /\ i - Len(messages) \in DOMAIN NewCards(c)
           /\ messages'[i] = NewCards(c)[i - Len(messages)]
      /\ Len(messages) \in Nat
      /\ DOMAIN messages' \subseteq Nat
  BY PreviewedList
<1>2. \A i \in DOMAIN messages : OldMessage(i)
  <2> TAKE i \in DOMAIN messages
  <2>1. /\ messages'[i].kind = messages[i].kind /\ messages'[i].cmd = messages[i].cmd
        /\ messages'[i].provider = messages[i].provider
        /\ messages'[i].connected = messages[i].connected
        /\ messages'[i].busy = messages[i].busy
    BY <1>1 DEF Card
  <2>2. \/ messages'[i].spinning = messages[i].spinning /\ messages'[i].status = messages[i].status
        \/ messages'[i].spinning = <<>> /\ messages'[i].status = "complete"
    BY <1>1
  <2>3. QED
    BY <2>1, <2>2 DEF OldMessage
<1>3. ASSUME NEW i \in DOMAIN messages' \ DOMAIN messages
      PROVE  FreshCard(i, c)
  <2> DEFINE n == i - Len(messages)
  <2>1. n \in DOMAIN NewCards(c) /\ messages'[i] = NewCards(c)[n]
    BY <1>1
  <2> HIDE DEF n
  <2>2. /\ NewCards(c)[n].spinning = <<>> /\ NewCards(c)[n].cmd = c
        /\ NewCards(c)[n].connected = FALSE /\ NewCards(c)[n].busy = FALSE
        /\ IF missing[c] = {}
           THEN NewCards(c)[n].kind = "plan" /\ NewCards(c)[n].provider = "none"
           ELSE /\ NewCards(c)[n].kind = "connect"
                /\ NewCards(c)[n].provider \in missing[c]
                /\ NewCards(c)[n].provider \in Providers
    BY <2>1, NewCardsAre
  <2>3. QED
    BY <2>1, <2>2 DEF FreshCard
<1>4. ASSUME NEW i \in DOMAIN messages', NEW j \in DOMAIN messages',
             FreshCard(i, c), FreshCard(j, c), messages'[i].provider = messages'[j].provider
      PROVE  i = j
  <2> DEFINE m == i - Len(messages)
             n == j - Len(messages)
  <2>1. /\ m \in DOMAIN NewCards(c) /\ n \in DOMAIN NewCards(c)
        /\ messages'[i] = NewCards(c)[m] /\ messages'[j] = NewCards(c)[n]
        /\ i \in Nat /\ j \in Nat /\ Len(messages) \in Nat
    BY <1>1, <1>4 DEF FreshCard
  <2>2. m = n
    <3> HIDE DEF m, n
    <3>1. NewCards(c)[m].provider = NewCards(c)[n].provider
      BY <2>1, <1>4
    <3>2. QED
      BY <3>1, <2>1, NewCardsAre
  <2>3. QED
    BY <2>1, <2>2
<1>5. QED
  BY <1>1, <1>2, <1>3, <1>4

LEMMA PreviewKeeps ==
  ASSUME IInv, NEW e \in Coming("preview"), PlanPreview(e), e.cmd \notin seen
  PROVE  IInv'
<1> DEFINE c == e.cmd
<1>0. /\ Receive("preview", e) /\ "preview" \in Subject
      /\ seen' = seen \cup {c} /\ pendingPlan' = c /\ messages' = Previewed(c)
      /\ crowded' = (crowded \/ Crowded(c))
      /\ late' = (late \/ Late(e))
      /\ UNCHANGED <<processing, settled>>
      /\ UNCHANGED <<world, dialog, registering, registered, lost, confirms,
                     stage, missing, run, owner, published>>
  BY DEF PlanPreview, Receive, Subject, accounts, server
<1>1. Wires' /\ c \in Commands /\ stage[c] = "previewed"
  BY <1>0, WiresTaken DEF IInv
<1>2. c \notin seen /\ c # NoCommand /\ confirms[c] = 0
  BY <1>1, NoCommandAssumption DEF IInv, TypeOK
<1> HIDE DEF c
<1>3. /\ messages' \in Seq(Message)
      /\ DOMAIN messages \subseteq DOMAIN messages'
      /\ \A i \in DOMAIN messages : OldMessage(i)
      /\ \A i \in DOMAIN messages' : OldMessage(i) \/ FreshCard(i, c)
      /\ \A i, j \in DOMAIN messages' :
           FreshCard(i, c) /\ FreshCard(j, c) /\ messages'[i].provider = messages'[j].provider
           => i = j
  BY <1>0, <1>1, PreviewedMessages
<1>4. SessionTypes'
  <2>1. \A i \in DOMAIN messages' : messages'[i].cmd \in seen' \cup {NoCommand}
    BY <1>0, <1>3 DEF OldMessage, FreshCard, IInv, TypeOK
  <2>2. QED
    BY <2>1, <1>0, <1>1, <1>3 DEF SessionTypes, IInv, TypeOK
<1>5. TypeOK'
  <2>1. late' \in BOOLEAN
    BY <1>0 DEF IInv, TypeOK
  <2>2. crowded' \in BOOLEAN
    BY <1>0 DEF IInv, TypeOK
  <2>3. seen \subseteq seen' /\ settled' \subseteq Runs
    BY <1>0 DEF IInv, TypeOK
  <2>4. QED
    BY <2>1, <2>2, <2>3, <1>0, <1>4, EventTypes
<1>6. Cards'
  <2> SUFFICES ASSUME NEW i \in DOMAIN messages'
               PROVE  /\ messages'[i].kind = "connect" <=> messages'[i].provider # "none"
                      /\ messages'[i].kind = "plan" => messages'[i].cmd # NoCommand
                      /\ messages'[i].kind = "note" =>
                           messages'[i].cmd = NoCommand /\ ~messages'[i].busy
                      /\ messages'[i].connected =>
                           /\ messages'[i].kind = "connect"
                           /\ messages'[i].provider \in registered' \cup lost'
    BY DEF Cards
  <2>1. CASE OldMessage(i)
    BY <2>1, <1>0 DEF OldMessage, IInv, Cards
  <2>2. CASE FreshCard(i, c)
    BY <2>2, <1>2, ProvidersAssumption DEF FreshCard
  <2>3. QED
    BY <2>1, <2>2, <1>3
<1>7. Plans'
  <2>1. \A d \in seen' : stage'[d] = "previewed"
    BY <1>0, <1>1 DEF IInv, Plans
  <2>2. \A i \in DOMAIN messages' :
          messages'[i].kind = "plan" =>
            missing'[messages'[i].cmd] \subseteq registered' \cup lost'
    BY <1>0, <1>3 DEF OldMessage, FreshCard, IInv, Plans
  <2>3. ConfirmedIsConnected'
    BY <1>0 DEF ConfirmedIsConnected, IInv, Plans
  <2>4. QED
    BY <2>1, <2>2, <2>3, <1>0, <1>2 DEF Plans
<1>8. RunsAreOwned'
  BY <1>0, EventRuns
<1>9. ASSUME ~crowded'
      PROVE  Uncrowded'
  <2>1. /\ ~crowded
        /\ \A i \in DOMAIN messages : ~InUse(messages[i])
        /\ \A i \in DOMAIN messages : ~ (messages[i].connected /\ messages[i].provider \in missing[c])
        /\ \A p \in Providers : registering[p] = 0
    <3>1. ~crowded /\ ~Crowded(c)
      BY <1>0, <1>9
    <3>2. /\ \A i \in DOMAIN messages : ~InUse(messages[i])
          /\ \A i \in DOMAIN messages :
               ~ (messages[i].connected /\ messages[i].provider \in missing[c])
          /\ \A p \in Providers : ~ (registering[p] > 0)
      BY <3>1 DEF Crowded
    <3>3. \A p \in Providers : registering[p] \in Nat
      BY DEF IInv, TypeOK
    <3>4. \A p \in Providers : registering[p] = 0
      BY <3>2, <3>3
    <3>5. QED
      BY <3>1, <3>2, <3>4
  <2>2. CardsInUse /\ PlanCards
    BY <2>1 DEF IInv, Uncrowded
  <2>3. \A i \in DOMAIN messages' :
          InUse(messages'[i]) => FreshCard(i, c) /\ missing[c] # {}
            /\ messages'[i].provider \in missing[c] /\ messages'[i].provider \in Providers
    BY <2>1, <1>3 DEF InUse, OldMessage, FreshCard
  <2>4. CardsInUse'
    <3>1. ASSUME NEW i \in DOMAIN messages', NEW j \in DOMAIN messages',
                 InUse(messages'[i]), messages'[j].provider = messages'[i].provider
          PROVE  ~messages'[j].connected /\ i = j
      <4>1. FreshCard(i, c) /\ messages'[i].provider \in missing[c]
            /\ messages'[i].provider \in Providers
        BY <2>3, <3>1
      <4>2. ~OldMessage(j)
        <5> SUFFICES ASSUME OldMessage(j)
                     PROVE  FALSE
          OBVIOUS
        <5>1. messages[j].provider \in missing[c] /\ messages[j].provider # "none"
              /\ j \in DOMAIN messages
          BY <4>1, <3>1, ProvidersAssumption DEF OldMessage
        <5>2. messages[j].kind = "connect" /\ ~messages[j].connected
          BY <5>1, <2>1 DEF IInv, Cards
        <5>3. QED
          BY <5>1, <5>2, <2>1 DEF InUse
      <4>3. FreshCard(j, c)
        BY <4>2, <1>3
      <4>4. QED
        BY <4>1, <4>3, <3>1, <1>3 DEF FreshCard
    <3>2. dialog' = 0
      BY <1>0, <2>1, <2>2 DEF CardsInUse, IInv, TypeOK
    <3>3. \A p \in Providers : registering'[p] = 0
      BY <1>0, <2>1
    <3>4. QED
      BY <3>1, <3>2, <3>3 DEF CardsInUse
  <2>5. Pending'
    <3>1. \A i \in DOMAIN messages' :
            messages'[i].kind = "plan" => messages'[i].cmd # c \/ missing[c] = {}
      BY <1>2, <1>3, PlansAreSeen DEF OldMessage, FreshCard
    <3>2. QED
      BY <3>1, <2>1, <2>3, <1>0 DEF Pending
  <2>6. PlanCards'
    <3>1. \A i \in DOMAIN messages' :
            messages'[i].kind = "plan" =>
              \/ OldMessage(i) /\ messages[i].kind = "plan" /\ messages[i].cmd # c
              \/ FreshCard(i, c) /\ messages'[i].provider = "none"
      BY <1>2, <1>3, PlansAreSeen DEF OldMessage, FreshCard
    <3>2. ASSUME NEW i \in DOMAIN messages', NEW j \in DOMAIN messages',
                 messages'[i].kind = "plan", messages'[j].kind = "plan",
                 messages'[i].cmd = messages'[j].cmd
          PROVE  i = j
      <4>1. CASE OldMessage(i) /\ messages[i].kind = "plan" /\ messages[i].cmd # c
        <5>1. OldMessage(j) /\ messages[j].kind = "plan"
          BY <4>1, <3>1, <3>2 DEF OldMessage, FreshCard
        <5>2. QED
          BY <4>1, <5>1, <3>2, <2>2 DEF OldMessage, PlanCards
      <4>2. CASE FreshCard(i, c) /\ messages'[i].provider = "none"
        <5>1. FreshCard(j, c) /\ messages'[j].provider = "none"
          BY <4>2, <3>1, <3>2 DEF OldMessage, FreshCard
        <5>2. QED
          BY <4>2, <5>1, <1>3
      <4>3. QED
        BY <4>1, <4>2, <3>1, <3>2
    <3>3. \A i \in DOMAIN messages' :
            messages'[i].kind = "plan" /\ confirms'[messages'[i].cmd] # 0 => messages'[i].busy
      BY <3>1, <2>2, <1>0, <1>2 DEF OldMessage, FreshCard, PlanCards
    <3>4. \A d \in Commands : confirms'[d] \in {0, 1}
      BY <2>2, <1>0 DEF PlanCards
    <3>5. QED
      BY <3>2, <3>3, <3>4 DEF PlanCards
  <2>7. QED
    BY <2>4, <2>5, <2>6 DEF Uncrowded
<1>10. ASSUME ~late'
       PROVE  InTime'
  <2>1. ~late /\ ~Late(e)
    BY <1>0, <1>10
  <2>2. \A r \in settled : owner[r] # c
    BY <2>1, <1>2 DEF Late, c
  <2>3. Awaited
    BY <2>2, <1>1 DEF Awaited, Unserved
  <2>4. Awaited' = Awaited
    BY <1>0, StillAwaited
  <2>5. \A i \in DOMAIN messages' :
          messages'[i].spinning # <<>> => messages'[i].status = "processing"
    BY <1>3, <2>1, OldSpinning DEF OldMessage, FreshCard
  <2>6. QED
    BY <2>3, <2>4, <2>5 DEF InTime
<1>11. QED
  BY <1>1, <1>5, <1>6, <1>7, <1>8, <1>9, <1>10 DEF IInv

-----------------------------------------------------------------------------
(* The services.                                                             *)

Grown ==
  \A k \in Subject : \A i \in DOMAIN wire[k] :
    i \in DOMAIN wire'[k] /\ wire'[k][i] = wire[k][i]

\* An outcome that is on its way stays on its way.
LEMMA OutcomesStay ==
  ASSUME IInv, Grown, NEW r \in Runs \ settled, run[r] = "over"
  PROVE  \E k \in {"succeeded", "failed"} : \E i \in DOMAIN wire'[k] : wire'[k][i].run = r
<1>1. PICK k \in {"succeeded", "failed"} : \E i \in DOMAIN wire[k] : wire[k][i].run = r
  BY DEF IInv, RunsAreOwned
<1>2. k \in Subject
  BY DEF Subject
<1>3. QED
  BY <1>1, <1>2 DEF Grown

LEMMA RunsStay ==
  ASSUME IInv, Grown, UNCHANGED <<run, owner, confirms, settled>>
  PROVE  RunsAreOwned'
<1>1. \A c \in Commands : Owned(c)' = Owned(c)
  BY DEF Owned
<1>2. \A c \in Commands : IsFiniteSet(Owned(c)') /\ Cardinality(Owned(c)') <= confirms'[c]
  BY <1>1 DEF IInv, RunsAreOwned
<1>3. \A r \in Runs : run'[r] = "unused" => owner'[r] = NoCommand /\ r \notin settled'
  BY DEF IInv, RunsAreOwned
<1>4. \A r \in Runs \ settled' : run'[r] = "over" =>
        \E k \in {"succeeded", "failed"} : \E i \in DOMAIN wire'[k] : wire'[k][i].run = r
  BY OutcomesStay
<1>5. QED
  BY <1>2, <1>3, <1>4 DEF RunsAreOwned

\* A step that leaves the messages alone, after which somebody is awaited if
\* somebody was.
LEMMA ServingKeeps ==
  ASSUME IInv, Serving, Wires', RunsAreOwned', published' \in Nat,
         stage' \in [Commands -> {"new", "planning", "checking", "checked", "previewed", "failed"}],
         missing' \in [Commands -> SUBSET Providers],
         run' \in [Runs -> RunStage], owner' \in [Runs -> Commands \cup {NoCommand}],
         \A c \in Commands : stage[c] = "previewed" =>
           stage'[c] = "previewed" /\ missing'[c] = missing[c],
         Awaited => Awaited'
  PROVE  IInv'
<1>0. UNCHANGED <<world, messages, processing, pendingPlan, seen, dialog, registering, registered,
                 lost, confirms, duplicates, settled, late, crowded>>
  BY DEF Serving, session, accounts, history
<1>1. CardsStay
  BY <1>0 DEF CardsStay, SameCards, IInv, TypeOK
<1>2. Cards' /\ Plans'
  BY <1>1, CardsKept, PlansKept
<1>3. ~crowded' => Uncrowded'
  BY <1>0, <1>1, UncrowdedKept
<1>4. DOMAIN wire' = Subject
  BY DEF Wires
<1>5. TypeOK'
  BY <1>0, <1>4 DEF IInv, TypeOK
<1>6. ~late' => InTime'
  BY <1>0 DEF IInv, InTime, Busy
<1>7. QED
  BY <1>2, <1>3, <1>5, <1>6 DEF IInv

LEMMA PublishedType ==
  ASSUME IInv, NEW k \in Subject, NEW e, Publish(k, e)
  PROVE  published' \in Nat /\ wire' = [wire EXCEPT ![k] = Append(@, e)]
<1>1. published \in Nat
  BY DEF IInv, TypeOK
<1>2. published' = published + 1
  BY Zenon DEF Publish
<1>3. wire' = [wire EXCEPT ![k] = Append(@, e)]
  BY Zenon DEF Publish
<1>4. QED
  BY <1>1, <1>2, <1>3

LEMMA SentIsGrown ==
  ASSUME NEW k, NEW e, Sent(k, e)
  PROVE  Grown
BY DEF Sent, Grown

LEMMA PlannerKeeps ==
  ASSUME IInv, NEW c \in Commands, NEW s \in PlannerSteps, PlannerStep(c, s[1], s[2])
  PROVE  IInv'
<1> DEFINE from == s[1]
           to == s[2]
           e(status) == Event(c, "none", status)
<1>1. /\ from \in {"planning", "checking", "checked"}
      /\ to \in {"checking", "checked", "failed", "previewed"}
  BY DEF PlannerSteps
<1>2. /\ stage[c] = from /\ stage' = [stage EXCEPT ![c] = to]
      /\ run' = run /\ owner' = owner /\ Serving
  BY DEF PlannerStep
<1>3. \/ to = "checking" /\ Publish("progress", e("running")) /\ missing' = missing
      \/ to = "checked" /\ Publish("progress", e("completed")) /\ missing' = missing
      \/ to = "failed" /\ wire' = wire /\ published' = published /\ missing' = missing
      \/ /\ to = "previewed" /\ Publish("preview", e("none"))
         /\ \E needed \in SUBSET world.needs :
              missing' = [missing EXCEPT ![c] = needed \ registered]
  <2>1. CASE to = "checking"
    BY <2>1 DEF PlannerStep
  <2>2. CASE to = "checked"
    BY <2>2 DEF PlannerStep
  <2>3. CASE to = "failed"
    BY <2>3 DEF PlannerStep
  <2>4. CASE to = "previewed"
    BY <2>4 DEF PlannerStep
  <2>5. QED
    BY <1>1, <2>1, <2>2, <2>3, <2>4
<1> HIDE DEF from, to
<1>4. GoesOn /\ stage'[c] = to
  BY <1>1, <1>2 DEF GoesOn, IInv, TypeOK
<1>5. missing' \in [Commands -> SUBSET Providers]
      /\ \A d \in Commands : stage[d] = "previewed" =>
           stage'[d] = "previewed" /\ missing'[d] = missing[d]
  <2>1. missing \in [Commands -> SUBSET Providers] /\ world.needs \subseteq Providers
    BY DEF IInv, TypeOK, World
  <2>2. stage[c] # "previewed"
    BY <1>1, <1>2
  <2>3. CASE missing' = missing
    BY <2>1, <2>3, <1>4 DEF GoesOn
  <2>4. CASE \E needed \in SUBSET world.needs :
               missing' = [missing EXCEPT ![c] = needed \ registered]
    BY <2>1, <2>2, <2>4, <1>4 DEF GoesOn
  <2>5. QED
    BY <2>3, <2>4, <1>3
<1>6. Wires' /\ Grown /\ published' \in Nat
  <2>0. \A status \in {"none", "running", "completed"} :
          e(status) \in EventRecord /\ e(status).cmd = c
    BY DEF Event, EventRecord
  <2> HIDE DEF e
  <2>1. "progress" \in Subject /\ "preview" \in Subject
    BY DEF Subject
  <2>2. Wires
    BY DEF IInv
  <2>3. ASSUME NEW status \in {"none", "running", "completed"}, Publish("progress", e(status))
        PROVE  Wires' /\ Grown /\ published' \in Nat
    <3>1. Says("progress", e(status))
      BY <2>0 DEF Says, Speaks
    <3>2. QED
      BY <3>1, <2>1, <2>2, <2>3, <1>4, PublishedType, WiresSent, SentIsGrown
  <2>4. CASE to = "previewed" /\ Publish("preview", e("none"))
    <3>1. Says("preview", e("none"))
      BY <2>0, <2>4, <1>4 DEF Says, Speaks
    <3>2. QED
      BY <3>1, <2>1, <2>2, <2>4, <1>4, PublishedType, WiresSent, SentIsGrown
  <2>5. CASE wire' = wire /\ published' = published
    BY <2>2, <2>5, <1>4, WiresKept DEF Grown, IInv, TypeOK
  <2>6. QED
    BY <2>3, <2>4, <2>5, <1>3
<1>7. RunsAreOwned'
  BY <1>2, <1>6, RunsStay DEF Serving, history
<1>8. Awaited => Awaited'
  <2>1. \A d \in Commands : stage[d] # "new" => stage'[d] # "new"
    BY <1>4 DEF GoesOn
  <2>2. UNCHANGED <<run, owner, confirms, settled>>
    BY <1>2 DEF Serving, history
  <2>3. QED
    BY <2>1, <2>2 DEF Awaited, Unserved, Owned
<1>9. stage' \in [Commands -> {"new", "planning", "checking", "checked", "previewed", "failed"}]
  BY <1>1, <1>2 DEF IInv, TypeOK
<1>10. run' \in [Runs -> RunStage] /\ owner' \in [Runs -> Commands \cup {NoCommand}]
  BY <1>2 DEF IInv, TypeOK
<1>11. QED
  BY <1>2, <1>5, <1>6, <1>7, <1>8, <1>9, <1>10, ServingKeeps

LEMMA BuilderKeeps ==
  ASSUME IInv, NEW c \in Commands, NEW r \in Runs, Builder(c, r)
  PROVE  IInv'
<1> DEFINE e == Event(c, r, "none")
<1>0. /\ run[r] = "unused" /\ Cardinality(Owned(c)) < confirms[c]
      /\ run' = [run EXCEPT ![r] = "created"] /\ owner' = [owner EXCEPT ![r] = c]
      /\ Publish("created", e) /\ stage' = stage /\ missing' = missing /\ Serving
  BY DEF Builder, Owned
<1>1. confirms' = confirms /\ settled' = settled
  BY <1>0 DEF Serving, history
<1>2. run \in [Runs -> RunStage] /\ owner \in [Runs -> Commands \cup {NoCommand}]
      /\ confirms \in [Commands -> Nat]
  BY DEF IInv, TypeOK
<1>3. GoesOn
  BY <1>0, <1>2 DEF GoesOn
<1>4. Wires' /\ Grown /\ published' \in Nat
  <2>1. Says("created", e)
    BY <1>0, <1>2 DEF Says, Speaks, Event, EventRecord
  <2>2. "created" \in Subject /\ Wires
    BY DEF Subject, IInv
  <2> HIDE DEF e
  <2>3. QED
    BY <2>1, <2>2, <1>0, <1>3, PublishedType, WiresSent, SentIsGrown
<1>5. owner[r] = NoCommand /\ r \notin settled
  BY <1>0 DEF IInv, RunsAreOwned
<1>6. RunsAreOwned'
  <2>1. Owned(c)' = Owned(c) \cup {r} /\ r \notin Owned(c)
    BY <1>0, <1>2, <1>5, NoCommandAssumption DEF Owned
  <2>2. \A d \in Commands \ {c} : Owned(d)' = Owned(d)
    BY <1>0, <1>2, <1>5, NoCommandAssumption DEF Owned
  <2>3. \A d \in Commands : IsFiniteSet(Owned(d)) /\ Cardinality(Owned(d)) <= confirms[d]
    BY DEF IInv, RunsAreOwned
  <2>4. IsFiniteSet(Owned(c)') /\ Cardinality(Owned(c)') <= confirms'[c]
    <3>1. IsFiniteSet(Owned(c)) /\ Cardinality(Owned(c)) \in Nat
      BY <2>3, FS_CardinalityType
    <3>2. IsFiniteSet(Owned(c) \cup {r}) /\ Cardinality(Owned(c) \cup {r}) = Cardinality(Owned(c)) + 1
      BY <2>1, <3>1, FS_AddElement
    <3>3. Cardinality(Owned(c)) + 1 <= confirms[c]
      BY <3>1, <1>0, <1>2
    <3>4. QED
      BY <2>1, <3>2, <3>3, <1>1
  <2>5. \A d \in Commands : IsFiniteSet(Owned(d)') /\ Cardinality(Owned(d)') <= confirms'[d]
    <3> TAKE d \in Commands
    <3>1. CASE d = c
      BY <3>1, <2>4
    <3>2. CASE d # c
      <4>1. Owned(d)' = Owned(d)
        BY <3>2, <2>2
      <4>2. QED
        BY <4>1, <2>3, <1>1
    <3>3. QED
      BY <3>1, <3>2
  <2>6. \A q \in Runs : run'[q] = "unused" => owner'[q] = NoCommand /\ q \notin settled'
    BY <1>0, <1>1, <1>2 DEF IInv, RunsAreOwned
  <2>7. \A q \in Runs \ settled' : run'[q] = "over" =>
          \E k \in {"succeeded", "failed"} : \E i \in DOMAIN wire'[k] : wire'[k][i].run = q
    <3> TAKE q \in Runs \ settled'
    <3> HAVE run'[q] = "over"
    <3>1. run[q] = "over" /\ q \in Runs \ settled
      BY <1>0, <1>1, <1>2
    <3>2. QED
      BY <3>1, <1>4, OutcomesStay
  <2>8. QED
    BY <2>5, <2>6, <2>7 DEF RunsAreOwned
<1>7. Awaited'
  BY <1>0, <1>1, <1>2, <1>5 DEF Awaited
<1>8. run' \in [Runs -> RunStage] /\ owner' \in [Runs -> Commands \cup {NoCommand}]
  BY <1>0, <1>2 DEF RunStage
<1>9. /\ stage' \in [Commands -> {"new", "planning", "checking", "checked", "previewed", "failed"}]
      /\ missing' \in [Commands -> SUBSET Providers]
  BY <1>0 DEF IInv, TypeOK
<1>10. QED
  BY <1>0, <1>4, <1>6, <1>7, <1>8, <1>9, ServingKeeps

LEMMA StrangerKeeps ==
  ASSUME IInv, NEW r \in Runs, StrangerRuns(r)
  PROVE  IInv'
<1>0. /\ run[r] = "unused" /\ run' = [run EXCEPT ![r] = "created"]
      /\ UNCHANGED <<stage, missing, owner, wire, published>> /\ Serving
  BY DEF StrangerRuns
<1>1. confirms' = confirms /\ settled' = settled
  BY <1>0 DEF Serving, history
<1>2. run \in [Runs -> RunStage]
  BY DEF IInv, TypeOK
<1>3. GoesOn
  BY <1>0, <1>2 DEF GoesOn
<1>4. Wires' /\ Grown /\ published' \in Nat
  BY <1>0, <1>3, WiresKept DEF Grown, IInv, TypeOK
<1>5. r \notin settled
  BY <1>0 DEF IInv, RunsAreOwned
<1>6. RunsAreOwned'
  <2>1. \A d \in Commands : Owned(d)' = Owned(d)
    BY <1>0 DEF Owned
  <2>2. \A d \in Commands : IsFiniteSet(Owned(d)') /\ Cardinality(Owned(d)') <= confirms'[d]
    BY <2>1, <1>1 DEF IInv, RunsAreOwned
  <2>3. \A q \in Runs : run'[q] = "unused" => owner'[q] = NoCommand /\ q \notin settled'
    BY <1>0, <1>1, <1>2 DEF IInv, RunsAreOwned
  <2>4. \A q \in Runs \ settled' : run'[q] = "over" =>
          \E k \in {"succeeded", "failed"} : \E i \in DOMAIN wire'[k] : wire'[k][i].run = q
    <3> TAKE q \in Runs \ settled'
    <3> HAVE run'[q] = "over"
    <3>1. run[q] = "over" /\ q \in Runs \ settled
      BY <1>0, <1>1, <1>2
    <3>2. QED
      BY <3>1, <1>4, OutcomesStay
  <2>5. QED
    BY <2>2, <2>3, <2>4 DEF RunsAreOwned
<1>7. Awaited'
  BY <1>0, <1>1, <1>2, <1>5 DEF Awaited
<1>8. run' \in [Runs -> RunStage] /\ owner' \in [Runs -> Commands \cup {NoCommand}]
  BY <1>0, <1>2 DEF RunStage, IInv, TypeOK
<1>9. /\ stage' \in [Commands -> {"new", "planning", "checking", "checked", "previewed", "failed"}]
      /\ missing' \in [Commands -> SUBSET Providers]
  BY <1>0 DEF IInv, TypeOK
<1>10. QED
  BY <1>0, <1>4, <1>6, <1>7, <1>8, <1>9, ServingKeeps

\* What a run publishes when it is over is its outcome.
LEMMA RunPublishesKeeps ==
  ASSUME IInv, NEW r \in Runs, NEW from \in RunStage \ {"unused"}, NEW to \in RunStage \ {"unused"},
         NEW k \in Speaks, to = "over" => k \in {"succeeded", "failed"},
         NEW status \in {"none", "running", "completed"},
         RunPublishes(r, from, to, k, status)
  PROVE  IInv'
<1> DEFINE e == Event(owner[r], r, status)
<1>0. /\ run[r] = from /\ run' = [run EXCEPT ![r] = to] /\ Publish(k, e)
      /\ UNCHANGED <<stage, missing, owner>> /\ Serving
  BY DEF RunPublishes
<1>1. confirms' = confirms /\ settled' = settled
  BY <1>0 DEF Serving, history
<1>2. run \in [Runs -> RunStage] /\ owner \in [Runs -> Commands \cup {NoCommand}]
  BY DEF IInv, TypeOK
<1>3. GoesOn
  BY <1>0, <1>2 DEF GoesOn
<1>4. Wires' /\ Grown /\ published' \in Nat /\ \E i \in DOMAIN wire'[k] : wire'[k][i].run = r
  <2>1. Says(k, e)
    BY <1>0, <1>2 DEF Says, Speaks, Event, EventRecord
  <2>2. k \in Subject /\ Wires
    BY DEF Subject, Speaks, IInv
  <2>3. e.run = r
    BY DEF Event
  <2> HIDE DEF e
  <2>4. Wires' /\ Sent(k, e) /\ published' \in Nat
    BY <2>1, <2>2, <1>0, <1>3, PublishedType, WiresSent
  <2>5. QED
    BY <2>3, <2>4, SentIsGrown DEF Sent
<1>5. RunsAreOwned'
  <2>1. \A d \in Commands : Owned(d)' = Owned(d)
    BY <1>0 DEF Owned
  <2>2. \A d \in Commands : IsFiniteSet(Owned(d)') /\ Cardinality(Owned(d)') <= confirms'[d]
    BY <2>1, <1>1 DEF IInv, RunsAreOwned
  <2>3. \A q \in Runs : run'[q] = "unused" => owner'[q] = NoCommand /\ q \notin settled'
    BY <1>0, <1>1, <1>2 DEF IInv, RunsAreOwned
  <2>4. \A q \in Runs \ settled' : run'[q] = "over" =>
          \E s \in {"succeeded", "failed"} : \E i \in DOMAIN wire'[s] : wire'[s][i].run = q
    <3> TAKE q \in Runs \ settled'
    <3> HAVE run'[q] = "over"
    <3>1. CASE q = r
      BY <3>1, <1>0, <1>2, <1>4
    <3>2. CASE q # r
      <4>1. run[q] = "over" /\ q \in Runs \ settled
        BY <3>2, <1>0, <1>1, <1>2
      <4>2. QED
        BY <4>1, <1>4, OutcomesStay
    <3>3. QED
      BY <3>1, <3>2
  <2>5. QED
    BY <2>2, <2>3, <2>4 DEF RunsAreOwned
<1>6. Awaited => Awaited'
  BY <1>0, <1>1, <1>2 DEF Awaited, Unserved, Owned
<1>7. run' \in [Runs -> RunStage] /\ owner' \in [Runs -> Commands \cup {NoCommand}]
  BY <1>0, <1>2
<1>8. /\ stage' \in [Commands -> {"new", "planning", "checking", "checked", "previewed", "failed"}]
      /\ missing' \in [Commands -> SUBSET Providers]
  BY <1>0 DEF IInv, TypeOK
<1>9. QED
  BY <1>0, <1>4, <1>5, <1>6, <1>7, <1>8, ServingKeeps

LEMMA RuntimeKeeps ==
  ASSUME IInv, NEW r \in Runs, Runtime(r)
  PROVE  IInv'
<1> USE DEF RunStage, Speaks
<1>1. CASE RunPublishes(r, "created", "running", "started", "none")
  BY <1>1, RunPublishesKeeps
<1>2. CASE RunPublishes(r, "running", "thought", "thinking", "none")
  BY <1>2, RunPublishesKeeps
<1>3. CASE \E from \in {"running", "thought"} : RunPublishes(r, from, "calling", "step", "running")
  BY <1>3, RunPublishesKeeps
<1>4. CASE RunPublishes(r, "calling", "called", "step", "completed")
  BY <1>4, RunPublishesKeeps
<1>5. CASE \E from \in {"running", "thought", "called"} :
             RunPublishes(r, from, "over", "succeeded", "none")
  BY <1>5, RunPublishesKeeps
<1>6. CASE \E from \in RunStage \ {"unused", "over"} :
             RunPublishes(r, from, "over", "failed", "none")
  BY <1>6, RunPublishesKeeps
<1>7. QED
  BY <1>1, <1>2, <1>3, <1>4, <1>5, <1>6 DEF Runtime

-----------------------------------------------------------------------------
(* The user, where the cards stay as they are.                               *)

LEMMA Dismissed ==
  ASSUME NEW ms \in Seq(Message)
  PROVE  /\ Dismiss(ms) \in Seq(Message) /\ SameCards(ms, Dismiss(ms))
         /\ DOMAIN Dismiss(ms) = DOMAIN ms
         /\ \A i \in DOMAIN ms :
              /\ Dismiss(ms)[i].status = ms[i].status
              /\ Dismiss(ms)[i].spinning = ms[i].spinning
<1>1. \A i \in DOMAIN ms : ms[i] \in Message /\ Dismiss(ms)[i] = [ms[i] EXCEPT !.next = FALSE]
  BY DEF Dismiss
<1>2. \A i \in DOMAIN ms :
        /\ Dismiss(ms)[i] \in Message /\ Card(Dismiss(ms)[i]) = Card(ms[i])
        /\ Dismiss(ms)[i].status = ms[i].status
        /\ Dismiss(ms)[i].spinning = ms[i].spinning
  <2> TAKE i \in DOMAIN ms
  <2> DEFINE m == ms[i]
  <2>1. m \in Message /\ Dismiss(ms)[i] = [m EXCEPT !.next = FALSE]
    BY <1>1
  <2> HIDE DEF m
  <2>2. /\ [m EXCEPT !.next = FALSE] \in Message
        /\ Card([m EXCEPT !.next = FALSE]) = Card(m)
        /\ [m EXCEPT !.next = FALSE].status = m.status
        /\ [m EXCEPT !.next = FALSE].spinning = m.spinning
    BY <2>1 DEF Message, Card
  <2>3. QED
    BY <2>1, <2>2 DEF m
<1>3. DOMAIN Dismiss(ms) = DOMAIN ms /\ Dismiss(ms) = [i \in DOMAIN ms |-> Dismiss(ms)[i]]
  BY DEF Dismiss
<1>4. Dismiss(ms) \in Seq(Message)
  BY <1>2, <1>3, Mapped
<1>5. QED
  BY <1>2, <1>3, <1>4 DEF SameCards

LEMMA SendKeeps ==
  ASSUME IInv, NEW c \in Commands, Send(c)
  PROVE  IInv'
<1> DEFINE e == Event(c, "none", "none")
<1>0. /\ stage[c] = "new" /\ stage' = [stage EXCEPT ![c] = "planning"] /\ Publish("accepted", e)
      /\ messages' = messages \/ messages' = Dismiss(messages)
      /\ UNCHANGED <<world, processing, pendingPlan, seen, dialog, registering, registered, lost,
                     confirms, missing, run, owner, duplicates, settled, late, crowded>>
  BY DEF Send, accounts, history
<1>1. stage \in [Commands -> {"new", "planning", "checking", "checked", "previewed", "failed"}]
      /\ messages \in Seq(Message)
  BY DEF IInv, TypeOK
<1>2. /\ GoesOn
      /\ stage' \in [Commands -> {"new", "planning", "checking", "checked", "previewed", "failed"}]
      /\ stage'[c] # "new"
  BY <1>0, <1>1 DEF GoesOn
<1>3. Wires' /\ Grown /\ published' \in Nat
  <2>1. Says("accepted", e)
    BY <1>2 DEF Says, Speaks, Event, EventRecord
  <2>2. "accepted" \in Subject /\ Wires
    BY DEF Subject, IInv
  <2> HIDE DEF e
  <2>3. QED
    BY <2>1, <2>2, <1>0, <1>2, PublishedType, WiresSent, SentIsGrown
<1>4. /\ messages' \in Seq(Message) /\ SameCards(messages, messages')
      /\ DOMAIN messages' = DOMAIN messages
      /\ \A i \in DOMAIN messages :
           messages'[i].status = messages[i].status /\ messages'[i].spinning = messages[i].spinning
  <2>1. CASE messages' = messages
    BY <2>1, <1>1 DEF SameCards
  <2>2. CASE messages' = Dismiss(messages)
    BY <2>2, <1>1, Dismissed
  <2>3. QED
    BY <2>1, <2>2, <1>0
<1>5. CardsStay
  BY <1>0, <1>2, <1>4 DEF CardsStay, GoesOn
<1>6. Cards' /\ Plans' /\ SessionTypes'
  <2>1. processing' \in BOOLEAN
    BY <1>0 DEF IInv, TypeOK
  <2>2. QED
    BY <2>1, <1>5, CardsKept, PlansKept, SessionKept
<1>7. ~crowded' => Uncrowded'
  BY <1>0, <1>5, UncrowdedKept
<1>8. RunsAreOwned'
  BY <1>0, <1>3, RunsStay
<1>9. DOMAIN wire' = Subject
  BY <1>3 DEF Wires
<1>10. TypeOK'
  BY <1>0, <1>2, <1>3, <1>6, <1>9 DEF SessionTypes, IInv, TypeOK
<1>11. ASSUME ~late'
       PROVE  InTime'
  <2>1. ~late
    BY <1>0, <1>11
  <2>2. Awaited => Awaited'
    BY <1>0, <1>2 DEF Awaited, Unserved, Owned, GoesOn
  <2>3. QED
    BY <2>1, <2>2, <1>0, <1>4 DEF IInv, InTime, Busy
<1>12. QED
  BY <1>3, <1>6, <1>7, <1>8, <1>10, <1>11 DEF IInv

\* The types of the rest, when the user does something.
LEMMA UserTypes ==
  ASSUME IInv, SessionTypes', UNCHANGED <<world, seen, server, traffic, settled, crowded>>,
         late' \in BOOLEAN, registering' \in [Providers -> Nat],
         registered' \cup lost' \subseteq Providers,
         confirms' \in [Commands -> Nat], \A c \in Commands : confirms'[c] > 0 => c \in seen
  PROVE  TypeOK'
<1>1. UNCHANGED <<stage, missing, run, owner, wire, duplicates, published>>
  BY DEF server, traffic
<1>2. QED
  BY <1>1 DEF SessionTypes, IInv, TypeOK

LEMMA UserWires ==
  ASSUME IInv, UNCHANGED <<server, traffic>>
  PROVE  Wires' /\ Grown
BY DEF IInv, Wires, Grown, server, traffic

\* The types of the accounts.
LEMMA AccountTypes ==
  ASSUME IInv
  PROVE  /\ registering \in [Providers -> Nat]
         /\ registered \cup lost \subseteq Providers
         /\ confirms \in [Commands -> Nat]
         /\ \A c \in Commands : confirms[c] > 0 => c \in seen
         /\ late \in BOOLEAN
BY DEF IInv, TypeOK

LEMMA NextActionKeeps ==
  ASSUME IInv, NextAction
  PROVE  IInv'
<1>0. UNCHANGED <<world, processing, pendingPlan, seen, accounts, confirms, server, traffic, history>>
  BY DEF NextAction
<1>1. PICK steps \in BOOLEAN : messages' = Append(Dismiss(messages), Note("complete", <<>>, steps))
  BY DEF NextAction
<1> DEFINE m == Note("complete", <<>>, steps)
<1>2. m \in Message /\ Card(m) = Blank /\ m.status = "complete" /\ m.spinning = <<>>
  <2>1. <<>> \in Seq(Label)
    OBVIOUS
  <2>2. m \in Message
    BY <2>1, NoteIsMessage
  <2>3. m.status = "complete" /\ m.spinning = <<>>
    BY DEF Note
  <2>4. Card(m) = Blank
    BY NoteIsBlank
  <2>5. QED
    BY <2>2, <2>3, <2>4
<1>3. messages' = Append(Dismiss(messages), m) /\ messages \in Seq(Message)
  BY <1>1 DEF IInv, TypeOK
<1> HIDE DEF m
<1>4. /\ Dismiss(messages) \in Seq(Message) /\ SameCards(messages, Dismiss(messages))
      /\ DOMAIN Dismiss(messages) = DOMAIN messages
      /\ \A i \in DOMAIN messages :
           /\ Dismiss(messages)[i].status = messages[i].status
           /\ Dismiss(messages)[i].spinning = messages[i].spinning
  BY <1>3, Dismissed
<1>5. messages' \in Seq(Message) /\ SameCards(messages, messages')
  BY <1>2, <1>3, <1>4, CardsThenNote
<1>6. CardsStay
  BY <1>0, <1>5 DEF CardsStay, accounts, server, history
<1>7. Cards' /\ Plans' /\ SessionTypes'
  <2>1. processing' \in BOOLEAN
    BY <1>0 DEF IInv, TypeOK
  <2>2. QED
    BY <2>1, <1>6, CardsKept, PlansKept, SessionKept
<1>8. ~crowded' => Uncrowded'
  BY <1>0, <1>6, UncrowdedKept DEF history
<1>9. Wires' /\ RunsAreOwned'
  BY <1>0, UserWires, RunsStay DEF server, history
<1>10. TypeOK'
  BY <1>0, <1>7, AccountTypes, UserTypes DEF accounts, history
<1>11. ASSUME ~late'
       PROVE  InTime'
  <2>1. ~late /\ processing' = processing
    BY <1>0, <1>11 DEF history
  <2>2. Awaited' = Awaited
    BY <1>0, StillAwaited DEF server, history
  <2>3. \A i \in DOMAIN messages' :
          /\ messages'[i].spinning # <<>> => messages'[i].status = "processing"
          /\ messages'[i].status = "processing" =>
               \E j \in DOMAIN messages : messages[j].status = "processing"
    BY <2>1, <1>2, <1>3, <1>4, Appended, OldSpinning
  <2>4. QED
    BY <2>1, <2>2, <2>3 DEF IInv, InTime, Busy
<1>12. QED
  BY <1>7, <1>8, <1>9, <1>10, <1>11 DEF IInv

-----------------------------------------------------------------------------
(* The user, where the cards change.                                         *)

\* A list where the button of one card changes.
Pressed(i, b) ==
  /\ messages' \in Seq(Message) /\ DOMAIN messages' = DOMAIN messages
  /\ \A j \in DOMAIN messages :
       /\ messages'[j].kind = messages[j].kind /\ messages'[j].cmd = messages[j].cmd
       /\ messages'[j].provider = messages[j].provider
       /\ messages'[j].connected = messages[j].connected
       /\ messages'[j].status = messages[j].status
       /\ messages'[j].spinning = messages[j].spinning
       /\ j # i => messages'[j].busy = messages[j].busy
  /\ messages'[i].busy = b

LEMMA BusyType ==
  ASSUME NEW m \in Message, NEW b \in BOOLEAN
  PROVE  [m EXCEPT !.busy = b] \in Message
BY DEF Message

LEMMA ConnectProvider ==
  ASSUME IInv, NEW i \in DOMAIN messages, messages[i].kind = "connect"
  PROVE  messages[i].provider \in Providers
<1>1. messages[i] \in Message
  BY DEF IInv, TypeOK
<1>2. messages[i].provider \in Providers \cup {"none"}
  BY <1>1 DEF Message
<1>3. messages[i].provider # "none"
  BY DEF IInv, Cards
<1>4. QED
  BY <1>2, <1>3

LEMMA PendingPressed ==
  ASSUME Pending, NEW i \in DOMAIN messages, NEW b \in BOOLEAN, Pressed(i, b),
         UNCHANGED <<pendingPlan, missing, registering>>
  PROVE  Pending'
<1>1. /\ DOMAIN messages' = DOMAIN messages
      /\ \A j \in DOMAIN messages :
           /\ InUse(messages'[j]) <=> InUse(messages[j])
           /\ messages'[j].provider = messages[j].provider
           /\ messages'[j].kind = messages[j].kind
           /\ messages'[j].cmd = messages[j].cmd
  BY DEF Pressed, InUse
<1>2. SUFFICES ASSUME pendingPlan # NoCommand, missing[pendingPlan] # {}
               PROVE  /\ \A j \in DOMAIN messages' :
                           InUse(messages'[j]) => messages'[j].provider \in missing[pendingPlan]
                      /\ \A p \in Providers :
                           registering[p] # 0 =>
                             \E j \in DOMAIN messages' :
                               InUse(messages'[j]) /\ messages'[j].provider = p
                      /\ (\E j \in DOMAIN messages' : InUse(messages'[j])) =>
                           \A j \in DOMAIN messages' :
                             messages'[j].kind = "plan" => messages'[j].cmd # pendingPlan
  BY DEF Pending
<1>3. /\ \A j \in DOMAIN messages :
           InUse(messages[j]) => messages[j].provider \in missing[pendingPlan]
      /\ \A p \in Providers :
           registering[p] # 0 =>
             \E j \in DOMAIN messages : InUse(messages[j]) /\ messages[j].provider = p
      /\ (\E j \in DOMAIN messages : InUse(messages[j])) =>
           \A j \in DOMAIN messages : messages[j].kind = "plan" => messages[j].cmd # pendingPlan
  BY <1>2 DEF Pending
<1>4. QED
  BY <1>1, <1>3

LEMMA PressedList ==
  ASSUME NEW ms \in Seq(Message), NEW i \in DOMAIN ms, NEW b \in BOOLEAN,
         NEW ms2, ms2 = [ms EXCEPT ![i].busy = b]
  PROVE  /\ ms2 \in Seq(Message) /\ DOMAIN ms2 = DOMAIN ms /\ Len(ms2) = Len(ms)
         /\ ms2[i] = [ms[i] EXCEPT !.busy = b]
         /\ \A j \in DOMAIN ms : j # i => ms2[j] = ms[j]
<1>1. i \in 1 .. Len(ms) /\ [ms[i] EXCEPT !.busy = b] \in Message /\ DOMAIN ms = 1 .. Len(ms)
  <2>1. i \in 1 .. Len(ms) /\ ms[i] \in Message /\ DOMAIN ms = 1 .. Len(ms)
    OBVIOUS
  <2>2. QED
    BY <2>1, BusyType
<1>2. ms2 = [ms EXCEPT ![i] = [ms[i] EXCEPT !.busy = b]]
  OBVIOUS
<1> DEFINE m == [ms[i] EXCEPT !.busy = b]
<1>3. m \in Message /\ ms2 = [ms EXCEPT ![i] = m]
  BY <1>1, <1>2
<1> HIDE DEF m
<1>4. /\ ms2 \in Seq(Message) /\ Len(ms2) = Len(ms)
      /\ \A j \in 1 .. Len(ms) : ms2[j] = IF j = i THEN m ELSE ms[j]
  BY <1>1, <1>3, ExceptSeq
<1>5. DOMAIN ms2 = 1 .. Len(ms)
  BY <1>4
<1>6. QED
  BY <1>1, <1>4, <1>5 DEF m

LEMMA ButtonPressed ==
  ASSUME IInv, NEW i \in DOMAIN messages, NEW b \in BOOLEAN,
         messages' = [messages EXCEPT ![i].busy = b]
  PROVE  Pressed(i, b)
<1>1. messages \in Seq(Message) /\ messages[i] \in Message
  BY DEF IInv, TypeOK
<1>2. /\ messages' \in Seq(Message) /\ DOMAIN messages' = DOMAIN messages
      /\ messages'[i] = [messages[i] EXCEPT !.busy = b]
      /\ \A j \in DOMAIN messages : j # i => messages'[j] = messages[j]
  BY <1>1, PressedList
<1>3. ASSUME NEW j \in DOMAIN messages
      PROVE  /\ messages'[j].kind = messages[j].kind /\ messages'[j].cmd = messages[j].cmd
             /\ messages'[j].provider = messages[j].provider
             /\ messages'[j].connected = messages[j].connected
             /\ messages'[j].status = messages[j].status
             /\ messages'[j].spinning = messages[j].spinning
             /\ j # i => messages'[j].busy = messages[j].busy
  <2>1. CASE j = i
    BY <2>1, <1>1, <1>2 DEF Message
  <2>2. CASE j # i
    BY <2>2, <1>2
  <2>3. QED
    BY <2>1, <2>2
<1>4. messages'[i].busy = b
  BY <1>1, <1>2 DEF Message
<1>5. QED
  BY <1>2, <1>3, <1>4 DEF Pressed

\* Steps of a dialog change neither plans nor runs.
DialogStep ==
  /\ messages' \in Seq(Message) /\ DOMAIN messages' = DOMAIN messages
  /\ \A j \in DOMAIN messages :
       /\ messages'[j].kind = messages[j].kind /\ messages'[j].cmd = messages[j].cmd
       /\ messages'[j].provider = messages[j].provider
       /\ messages'[j].connected = messages[j].connected
       /\ messages'[j].status = messages[j].status
       /\ messages'[j].spinning = messages[j].spinning
       /\ messages[j].kind # "connect" => messages'[j].busy = messages[j].busy \/ ~messages'[j].busy
  /\ dialog' \in DOMAIN messages \cup {0}
  /\ registering' \in [Providers -> Nat]
  /\ UNCHANGED <<world, processing, pendingPlan, seen, registered, lost, confirms, server,
                 traffic, history>>

LEMMA DialogKeeps ==
  ASSUME IInv, DialogStep, ~crowded => Uncrowded'
  PROVE  IInv'
<1> USE DEF DialogStep
<1>1. Wires' /\ RunsAreOwned'
  BY UserWires, RunsStay DEF server, history
<1>2. SessionTypes'
  BY DEF SessionTypes, IInv, TypeOK
<1>3. TypeOK'
  BY <1>2, AccountTypes, UserTypes DEF history
<1>4. Cards'
  BY DEF IInv, Cards
<1>5. Plans'
  <2>1. stage' = stage /\ missing' = missing
    BY DEF server
  <2>2. \A i \in DOMAIN messages' :
          messages'[i].kind = "plan" =>
            missing'[messages'[i].cmd] \subseteq registered' \cup lost'
    BY <2>1 DEF IInv, Plans
  <2>3. QED
    BY <2>1, <2>2 DEF IInv, Plans, ConfirmedIsConnected
<1>6. ~late' => InTime'
  <2>1. Awaited' = Awaited
    BY StillAwaited DEF server, history
  <2>2. QED
    BY <2>1 DEF IInv, InTime, Busy, history
<1>7. QED
  BY <1>1, <1>3, <1>4, <1>5, <1>6 DEF IInv, history

LEMMA ClickKeeps ==
  ASSUME IInv, NEW i \in DOMAIN messages, ClickConnect(i)
  PROVE  IInv'
<1>0. /\ dialog = 0 /\ InUse(messages[i]) /\ ~messages[i].busy
      /\ messages' = [messages EXCEPT ![i].busy = TRUE] /\ dialog' = i
      /\ UNCHANGED <<world, processing, pendingPlan, seen, registering, registered, lost, confirms,
                     server, traffic, history>>
  BY DEF ClickConnect, FreeToClick, CanConnect
<1>1. Pressed(i, TRUE)
  BY <1>0, ButtonPressed
<1>2. messages[i].kind = "connect" /\ messages[i].provider \in Providers
  BY <1>0, ConnectProvider DEF InUse
<1>3. DialogStep
  BY <1>0, <1>1, <1>2, AccountTypes DEF DialogStep, Pressed
<1>4. ASSUME ~crowded
      PROVE  Uncrowded'
  <2>1. CardsInUse /\ Pending /\ PlanCards
    BY <1>4 DEF IInv, Uncrowded
  <2>2. registering[messages[i].provider] = 0
    BY <2>1, <1>0, <1>2 DEF CardsInUse
  <2>3. \A j \in DOMAIN messages : InUse(messages'[j]) <=> InUse(messages[j])
    BY <1>1 DEF Pressed, InUse
  <2>4. CardsInUse'
    <3>1. \A j, k \in DOMAIN messages' :
            /\ InUse(messages'[j]) /\ messages'[k].provider = messages'[j].provider
            => ~messages'[k].connected /\ j = k
      BY <2>1, <2>3, <1>1 DEF CardsInUse, Pressed
    <3>2. InUse(messages'[dialog']) /\ messages'[dialog'].busy
          /\ registering'[messages'[dialog'].provider] = 0
      BY <2>2, <2>3, <1>0, <1>1 DEF Pressed
    <3>3. \A p \in Providers :
            /\ registering'[p] \in {0, 1}
            /\ registering'[p] # 0 =>
                 \A j \in DOMAIN messages' :
                   InUse(messages'[j]) /\ messages'[j].provider = p => messages'[j].busy
      BY <2>1, <2>3, <1>0, <1>1 DEF CardsInUse, Pressed
    <3>4. QED
      BY <3>1, <3>2, <3>3 DEF CardsInUse
  <2>5. Pending'
    BY <2>1, <1>0, <1>1, PendingPressed DEF server
  <2>6. PlanCards'
    BY <2>1, <1>0, <1>1, <1>2 DEF PlanCards, Pressed
  <2>7. QED
    BY <2>4, <2>5, <2>6 DEF Uncrowded
<1>5. QED
  BY <1>3, <1>4, DialogKeeps

LEMMA DialogFailsKeeps ==
  ASSUME IInv, DialogFails
  PROVE  IInv'
<1>0. /\ dialog # 0 /\ dialog' = 0 /\ dialog \in DOMAIN messages
      /\ messages' = [messages EXCEPT ![dialog].busy = FALSE]
      /\ UNCHANGED <<world, processing, pendingPlan, seen, registering, registered, lost, confirms,
                     server, traffic, history>>
  BY DEF DialogFails, IInv, TypeOK
<1>1. Pressed(dialog, FALSE)
  BY <1>0, ButtonPressed
<1>2. DialogStep
  BY <1>0, <1>1, AccountTypes DEF DialogStep, Pressed
<1>3. ASSUME ~crowded
      PROVE  Uncrowded'
  <2>1. CardsInUse /\ Pending /\ PlanCards
    BY <1>3 DEF IInv, Uncrowded
  <2>2. messages[dialog].kind = "connect" /\ registering[messages[dialog].provider] = 0
    BY <2>1, <1>0 DEF CardsInUse, InUse
  <2>3. \A j \in DOMAIN messages : InUse(messages'[j]) <=> InUse(messages[j])
    BY <1>1 DEF Pressed, InUse
  <2>4. CardsInUse'
    <3>1. \A j, k \in DOMAIN messages' :
            /\ InUse(messages'[j]) /\ messages'[k].provider = messages'[j].provider
            => ~messages'[k].connected /\ j = k
      BY <2>1, <2>3, <1>1 DEF CardsInUse, Pressed
    <3>2. \A p \in Providers :
            /\ registering'[p] \in {0, 1}
            /\ registering'[p] # 0 =>
                 \A j \in DOMAIN messages' :
                   InUse(messages'[j]) /\ messages'[j].provider = p => messages'[j].busy
      BY <2>1, <2>2, <2>3, <1>0, <1>1 DEF CardsInUse, Pressed
    <3>3. QED
      BY <3>1, <3>2, <1>0 DEF CardsInUse
  <2>5. Pending'
    BY <2>1, <1>0, <1>1, PendingPressed DEF server
  <2>6. PlanCards'
    BY <2>1, <2>2, <1>0, <1>1 DEF PlanCards, Pressed
  <2>7. QED
    BY <2>4, <2>5, <2>6 DEF Uncrowded
<1>4. QED
  BY <1>2, <1>3, DialogKeeps

LEMMA DialogConnectsKeeps ==
  ASSUME IInv, DialogConnects
  PROVE  IInv'
<1>0. /\ dialog # 0 /\ dialog' = 0 /\ dialog \in DOMAIN messages
      /\ registering' = [registering EXCEPT ![messages[dialog].provider] = @ + 1]
      /\ messages' = messages
      /\ UNCHANGED <<world, processing, pendingPlan, seen, registered, lost, confirms, server,
                     traffic, history>>
  BY DEF DialogConnects, session, IInv, TypeOK
<1>1. messages \in Seq(Message) /\ registering \in [Providers -> Nat]
  BY DEF IInv, TypeOK
<1>2. DialogStep
  <2>1. registering' \in [Providers -> Nat]
    <3> DEFINE p == messages[dialog].provider
    <3> HIDE DEF p
    <3>1. registering' = [registering EXCEPT ![p] = registering[p] + 1]
      BY <1>0 DEF p
    <3>2. CASE p \in Providers
      BY <3>1, <3>2, <1>1
    <3>3. CASE p \notin Providers
      BY <3>1, <3>3, <1>1
    <3>4. QED
      BY <3>2, <3>3
  <2>2. QED
    BY <2>1, <1>0, <1>1 DEF DialogStep
<1>3. ASSUME ~crowded
      PROVE  Uncrowded'
  <2> DEFINE p == messages[dialog].provider
  <2>1. CardsInUse /\ Pending /\ PlanCards
    BY <1>3 DEF IInv, Uncrowded
  <2>2. InUse(messages[dialog]) /\ messages[dialog].busy /\ registering[p] = 0
    BY <2>1, <1>0 DEF CardsInUse
  <2>3. p \in Providers
    BY <2>2, <1>0, ConnectProvider DEF InUse
  <2>4. registering'[p] = 1 /\ \A q \in Providers \ {p} : registering'[q] = registering[q]
    BY <2>2, <2>3, <1>0, <1>1
  <2>5. CardsInUse'
    <3>1. \A j, k \in DOMAIN messages' :
            /\ InUse(messages'[j]) /\ messages'[k].provider = messages'[j].provider
            => ~messages'[k].connected /\ j = k
      BY <2>1, <1>0 DEF CardsInUse
    <3>2. ASSUME NEW q \in Providers
          PROVE  /\ registering'[q] \in {0, 1}
                 /\ registering'[q] # 0 =>
                      \A j \in DOMAIN messages' :
                        InUse(messages'[j]) /\ messages'[j].provider = q => messages'[j].busy
      <4>1. CASE q = p
        <5>1. \A j \in DOMAIN messages : InUse(messages[j]) /\ messages[j].provider = p => j = dialog
          BY <2>1, <1>0 DEF CardsInUse
        <5>2. QED
          BY <4>1, <5>1, <2>2, <2>4, <1>0
      <4>2. CASE q # p
        BY <4>2, <2>1, <2>4, <1>0 DEF CardsInUse
      <4>3. QED
        BY <4>1, <4>2
    <3>3. QED
      BY <3>1, <3>2, <1>0 DEF CardsInUse
  <2>6. Pending'
    <3> SUFFICES ASSUME pendingPlan # NoCommand, missing[pendingPlan] # {}
                 PROVE  \A q \in Providers :
                          registering'[q] # 0 =>
                            \E j \in DOMAIN messages : InUse(messages[j]) /\ messages[j].provider = q
      BY <2>1, <1>0 DEF Pending, server
    <3> TAKE q \in Providers
    <3> HAVE registering'[q] # 0
    <3>1. CASE q = p
      BY <3>1, <2>2, <1>0
    <3>2. CASE q # p
      BY <3>2, <2>1, <2>4 DEF Pending
    <3>3. QED
      BY <3>1, <3>2
  <2>7. PlanCards'
    BY <2>1, <1>0 DEF PlanCards
  <2>8. QED
    BY <2>5, <2>6, <2>7 DEF Uncrowded
<1>4. QED
  BY <1>2, <1>3, DialogKeeps

\* What handleOAuthComplete makes of the list, before a plan is appended.
Updates(ms, p) ==
  [i \in DOMAIN ms |->
     IF ms[i].provider = p /\ ~ms[i].connected
     THEN [ms[i] EXCEPT !.status = "complete", !.connected = TRUE] ELSE ms[i]]

\* The message with this index, as the completion of p leaves it.
Completed(m, m2, p) ==
  /\ m2.kind = m.kind /\ m2.cmd = m.cmd /\ m2.provider = m.provider /\ m2.busy = m.busy
  /\ m2.spinning = m.spinning
  /\ m2.connected <=> m.connected \/ m.provider = p
  /\ m2.status = m.status \/ (m2.status = "complete" /\ m.provider = p /\ ~m.connected)

LEMMA UpdatesAre ==
  ASSUME NEW ms \in Seq(Message), NEW p
  PROVE  /\ Updates(ms, p) \in Seq(Message)
         /\ DOMAIN Updates(ms, p) = DOMAIN ms /\ Len(Updates(ms, p)) = Len(ms)
         /\ \A i \in DOMAIN ms : Completed(ms[i], Updates(ms, p)[i], p)
<1>1. ASSUME NEW i \in DOMAIN ms
      PROVE  Updates(ms, p)[i] \in Message /\ Completed(ms[i], Updates(ms, p)[i], p)
  <2> DEFINE m == ms[i]
  <2>1. m \in Message
    OBVIOUS
  <2>2. CASE m.provider = p /\ ~m.connected
    <3>1. Updates(ms, p)[i] = [m EXCEPT !.status = "complete", !.connected = TRUE]
      BY <2>2 DEF Updates
    <3> HIDE DEF m
    <3>2. [m EXCEPT !.status = "complete", !.connected = TRUE] \in Message
      BY <2>1 DEF Message
    <3>3. Completed(m, [m EXCEPT !.status = "complete", !.connected = TRUE], p)
      BY <2>1, <2>2 DEF Message, Completed
    <3>4. QED
      BY <3>1, <3>2, <3>3 DEF m
  <2>3. CASE ~ (m.provider = p /\ ~m.connected)
    <3>1. Updates(ms, p)[i] = m
      BY <2>3 DEF Updates
    <3>2. m.connected <=> m.connected \/ m.provider = p
      BY <2>3
    <3>3. QED
      BY <2>1, <3>1, <3>2 DEF Completed
  <2>4. QED
    BY <2>2, <2>3
<1>2. DOMAIN Updates(ms, p) = DOMAIN ms
      /\ Updates(ms, p) = [i \in DOMAIN ms |-> Updates(ms, p)[i]]
  BY DEF Updates
<1>3. Updates(ms, p) \in Seq(Message) /\ Len(Updates(ms, p)) = Len(ms)
  BY <1>1, <1>2, Mapped
<1>4. QED
  BY <1>1, <1>2, <1>3

\* A message after the completion of p: an old one or the card of the pending plan.
LEMMA OAuthKeeps ==
  ASSUME IInv, NEW p \in Providers, OAuthComplete(p)
  PROVE  IInv'
<1> DEFINE updated == Updates(messages, p)
           c == pendingPlan
           shows == c # NoCommand /\ missing[c] # {} /\ AllReady(updated, c)
           New(i) == i = Len(messages) + 1 /\ shows /\ messages'[i] = PlanCard(c)
           Old(i) == i \in DOMAIN messages /\ Completed(messages[i], messages'[i], p)
<1>0. /\ registering[p] > 0 /\ registering' = [registering EXCEPT ![p] = @ - 1]
      /\ \/ registered' = registered \cup {p} /\ lost' = lost
         \/ lost' = lost \cup {p} /\ registered' = registered
      /\ messages' = IF shows THEN Append(updated, PlanCard(c)) ELSE updated
      /\ late' = (late \/ Covers(p))
      /\ UNCHANGED <<world, processing, pendingPlan, seen, dialog, confirms, server, traffic,
                     settled, crowded>>
  BY DEF OAuthComplete, Updates
<1>1. /\ messages \in Seq(Message) /\ registering \in [Providers -> Nat]
      /\ registered \subseteq Providers /\ lost \subseteq Providers
      /\ confirms \in [Commands -> Nat]
  BY DEF IInv, TypeOK
<1>2. /\ updated \in Seq(Message) /\ DOMAIN updated = DOMAIN messages
      /\ Len(updated) = Len(messages)
      /\ \A i \in DOMAIN messages : Completed(messages[i], updated[i], p)
  BY <1>1, UpdatesAre
<1>3. c # NoCommand =>
        /\ c \in seen /\ c \in Commands /\ stage[c] = "previewed" /\ confirms[c] = 0
  BY PlansAreSeen DEF IInv, Plans
<1> HIDE DEF updated, shows
<1>4. /\ messages' \in Seq(Message)
      /\ \A i \in DOMAIN messages : Old(i) /\ i \in DOMAIN messages' /\ messages'[i] = updated[i]
      /\ \A i \in DOMAIN messages' : Old(i) \/ New(i)
      /\ DOMAIN messages \subseteq DOMAIN messages'
  <2>1. CASE shows
    <3>1. PlanCard(c) \in Message
      BY <2>1, <1>3, PlanCardIsMessage DEF shows
    <3>2. /\ messages' \in Seq(Message)
          /\ DOMAIN messages' = DOMAIN messages \cup {Len(messages) + 1}
          /\ \A i \in DOMAIN messages : messages'[i] = updated[i]
          /\ messages'[Len(messages) + 1] = PlanCard(c)
      BY <2>1, <3>1, <1>0, <1>2, Appended
    <3>3. QED
      BY <2>1, <3>2, <1>2
  <2>2. CASE ~shows
    <3>1. messages' = updated
      BY <2>2, <1>0
    <3>2. QED
      BY <3>1, <1>2
  <2>3. QED
    BY <2>1, <2>2
<1>5. ASSUME NEW i, New(i)
      PROVE  /\ c # NoCommand /\ missing[c] # {} /\ AllReady(updated, c)
             /\ messages'[i].kind = "plan" /\ messages'[i].cmd = c
             /\ messages'[i].provider = "none" /\ messages'[i].spinning = <<>>
             /\ messages'[i].status = "processing"
             /\ ~messages'[i].connected /\ ~messages'[i].busy
  <2>1. messages'[i] = PlanCard(c)
    BY <1>5
  <2>2. c # NoCommand /\ missing[c] # {} /\ AllReady(updated, c)
    BY <1>5 DEF shows
  <2>3. QED
    BY <2>1, <2>2 DEF PlanCard, Note
<1> HIDE DEF New, Old
<1>6. \A i : Old(i) =>
        /\ i \in DOMAIN messages
        /\ messages'[i].kind = messages[i].kind /\ messages'[i].cmd = messages[i].cmd
        /\ messages'[i].provider = messages[i].provider /\ messages'[i].busy = messages[i].busy
        /\ messages'[i].spinning = messages[i].spinning
        /\ messages'[i].connected <=> messages[i].connected \/ messages[i].provider = p
        /\ \/ messages'[i].status = messages[i].status
           \/ messages'[i].status = "complete" /\ messages[i].provider = p /\ ~messages[i].connected
  BY DEF Old, Completed
<1>7. registered \subseteq registered' /\ lost \subseteq lost' /\ p \in registered' \cup lost'
      /\ registered' \cup lost' \subseteq Providers
  BY <1>0, <1>1
<1>8. Cards'
  <2> SUFFICES ASSUME NEW i \in DOMAIN messages'
               PROVE  /\ messages'[i].kind = "connect" <=> messages'[i].provider # "none"
                      /\ messages'[i].kind = "plan" => messages'[i].cmd # NoCommand
                      /\ messages'[i].kind = "note" =>
                           messages'[i].cmd = NoCommand /\ ~messages'[i].busy
                      /\ messages'[i].connected =>
                           /\ messages'[i].kind = "connect"
                           /\ messages'[i].provider \in registered' \cup lost'
    BY DEF Cards
  <2>1. CASE Old(i)
    <3>1. /\ i \in DOMAIN messages
          /\ messages[i].kind = "connect" <=> messages[i].provider # "none"
          /\ messages[i].kind = "plan" => messages[i].cmd # NoCommand
          /\ messages[i].kind = "note" => messages[i].cmd = NoCommand /\ ~messages[i].busy
          /\ messages[i].connected =>
               messages[i].kind = "connect" /\ messages[i].provider \in registered \cup lost
      BY <2>1, <1>6 DEF IInv, Cards
    <3>2. QED
      BY <2>1, <3>1, <1>6, <1>7, ProvidersAssumption
  <2>2. CASE New(i)
    BY <2>2, <1>5
  <2>3. QED
    BY <2>1, <2>2, <1>4
<1>9. \A i \in DOMAIN messages' : New(i) => missing[c] \subseteq registered' \cup lost'
  <2> TAKE i \in DOMAIN messages'
  <2> HAVE New(i)
  <2>1. AllReady(updated, c)
    BY <1>5
  <2>2. ASSUME NEW q \in missing[c]
        PROVE  q \in registered' \cup lost'
    <3>1. PICK j \in DOMAIN updated : updated[j].provider = q /\ updated[j].connected
      BY <2>1, <2>2 DEF AllReady
    <3>2. j \in DOMAIN messages' /\ messages'[j].provider = q /\ messages'[j].connected
      BY <3>1, <1>2, <1>4
    <3>3. QED
      BY <3>2, <1>8 DEF Cards
  <2>3. QED
    BY <2>2
<1>10. Plans'
  <2>1. stage' = stage /\ missing' = missing
    BY <1>0 DEF server
  <2>2. \A i \in DOMAIN messages' :
          messages'[i].kind = "plan" =>
            missing'[messages'[i].cmd] \subseteq registered' \cup lost'
    <3> TAKE i \in DOMAIN messages'
    <3> HAVE messages'[i].kind = "plan"
    <3>1. CASE Old(i)
      BY <3>1, <2>1, <1>6, <1>7 DEF IInv, Plans
    <3>2. CASE New(i)
      BY <3>2, <2>1, <1>5, <1>9
    <3>3. QED
      BY <3>1, <3>2, <1>4
  <2>3. ConfirmedIsConnected'
    BY <2>1, <1>0, <1>7 DEF IInv, Plans, ConfirmedIsConnected
  <2>4. QED
    BY <2>1, <2>2, <2>3, <1>0 DEF IInv, Plans
<1>11. SessionTypes'
  <2>1. \A i \in DOMAIN messages' : messages'[i].cmd \in seen' \cup {NoCommand}
    <3> TAKE i \in DOMAIN messages'
    <3>1. CASE Old(i)
      BY <3>1, <1>0, <1>6 DEF IInv, TypeOK
    <3>2. CASE New(i)
      BY <3>2, <1>0, <1>3, <1>5
    <3>3. QED
      BY <3>1, <3>2, <1>4
  <2>2. QED
    BY <2>1, <1>0, <1>4 DEF SessionTypes, IInv, TypeOK
<1>12. registering'[p] = registering[p] - 1 /\ registering' \in [Providers -> Nat]
       /\ \A q \in Providers \ {p} : registering'[q] = registering[q]
  BY <1>0, <1>1
<1>13. TypeOK'
  <2>1. late' \in BOOLEAN
    BY <1>0, AccountTypes
  <2>2. QED
    BY <2>1, <1>0, <1>7, <1>11, <1>12, AccountTypes, UserTypes
<1>14. Wires' /\ RunsAreOwned'
  BY <1>0, UserWires, RunsStay DEF server
<1>15. ASSUME ~crowded
       PROVE  Uncrowded'
  <2>1. CardsInUse /\ Pending /\ PlanCards
    BY <1>15 DEF IInv, Uncrowded
  <2>2. \A i \in DOMAIN messages' :
          InUse(messages'[i]) =>
            /\ Old(i) /\ i \in DOMAIN messages /\ InUse(messages[i]) /\ messages[i].provider # p
            /\ messages[i].provider # "none"
    <3> TAKE i \in DOMAIN messages'
    <3> HAVE InUse(messages'[i])
    <3>1. Old(i)
      BY <1>4, <1>5 DEF InUse
    <3>2. QED
      BY <3>1, <1>6 DEF InUse, IInv, Cards
  <2>3. \A i \in DOMAIN messages :
          InUse(messages[i]) /\ messages[i].provider # p => InUse(messages'[i])
    BY <1>4, <1>6 DEF InUse
  <2>4. \A i, j \in DOMAIN messages' :
          /\ InUse(messages'[i]) /\ messages'[j].provider = messages'[i].provider
          => ~messages'[j].connected /\ i = j
    <3> SUFFICES ASSUME NEW i \in DOMAIN messages', NEW j \in DOMAIN messages',
                        InUse(messages'[i]), messages'[j].provider = messages'[i].provider
                 PROVE  ~messages'[j].connected /\ i = j
      OBVIOUS
    <3>1. i \in DOMAIN messages /\ InUse(messages[i]) /\ messages[i].provider # p
          /\ messages'[i].provider = messages[i].provider /\ messages[i].provider # "none"
      BY <2>2, <1>6
    <3>2. Old(j)
      BY <3>1, <1>4, <1>5
    <3>3. j \in DOMAIN messages /\ messages[j].provider = messages[i].provider
      BY <3>1, <3>2, <1>6
    <3>4. ~messages[j].connected /\ i = j
      BY <3>1, <3>3, <2>1 DEF CardsInUse
    <3>5. QED
      BY <3>1, <3>2, <3>3, <3>4, <1>6
  <2>5. CardsInUse'
    <3>1. dialog' # 0 =>
            InUse(messages'[dialog']) /\ messages'[dialog'].busy
              /\ registering'[messages'[dialog'].provider] = 0
      <4> HAVE dialog' # 0
      <4>1. dialog' = dialog /\ dialog \in DOMAIN messages
        BY <1>0 DEF IInv, TypeOK
      <4>2. InUse(messages[dialog]) /\ messages[dialog].busy
            /\ registering[messages[dialog].provider] = 0
        BY <4>1, <2>1 DEF CardsInUse
      <4>3. messages[dialog].provider \in Providers \ {p}
        BY <4>1, <4>2, <1>0, ConnectProvider DEF InUse
      <4>4. QED
        BY <4>1, <4>2, <4>3, <2>3, <1>4, <1>6, <1>12
    <3>2. ASSUME NEW q \in Providers
          PROVE  /\ registering'[q] \in {0, 1}
                 /\ registering'[q] # 0 =>
                      \A i \in DOMAIN messages' :
                        InUse(messages'[i]) /\ messages'[i].provider = q => messages'[i].busy
      <4>1. registering[q] \in {0, 1}
            /\ (registering[q] # 0 =>
                  \A i \in DOMAIN messages :
                    InUse(messages[i]) /\ messages[i].provider = q => messages[i].busy)
        BY <2>1 DEF CardsInUse
      <4>2. CASE q = p
        <5>1. registering'[q] = 0
          BY <4>1, <4>2, <1>0, <1>12
        <5>2. QED
          BY <5>1
      <4>3. CASE q # p
        <5>1. registering'[q] = registering[q]
          BY <4>3, <1>12
        <5>2. QED
          BY <4>1, <5>1, <2>2, <1>6
      <4>4. QED
        BY <4>2, <4>3
    <3>3. QED
      BY <2>4, <3>1, <3>2 DEF CardsInUse
  <2>6. c # NoCommand /\ missing[c] # {} =>
          /\ \A i \in DOMAIN messages : InUse(messages[i]) => messages[i].provider \in missing[c]
          /\ \A q \in Providers :
               registering[q] # 0 =>
                 \E i \in DOMAIN messages : InUse(messages[i]) /\ messages[i].provider = q
          /\ \A i \in DOMAIN messages : messages[i].kind = "plan" => messages[i].cmd # c
    <3> HAVE c # NoCommand /\ missing[c] # {}
    <3>1. \E i \in DOMAIN messages : InUse(messages[i]) /\ messages[i].provider = p
      BY <2>1, <1>0 DEF Pending
    <3>2. QED
      BY <3>1, <2>1 DEF Pending
  <2>7. Pending'
    <3> SUFFICES ASSUME c # NoCommand, missing[c] # {}
                 PROVE  /\ \A i \in DOMAIN messages' :
                             InUse(messages'[i]) => messages'[i].provider \in missing[c]
                        /\ \A q \in Providers :
                             registering'[q] # 0 =>
                               \E i \in DOMAIN messages' :
                                 InUse(messages'[i]) /\ messages'[i].provider = q
                        /\ (\E i \in DOMAIN messages' : InUse(messages'[i])) =>
                             \A i \in DOMAIN messages' :
                               messages'[i].kind = "plan" => messages'[i].cmd # c
      <4>1. pendingPlan' = c /\ missing' = missing
        BY <1>0 DEF server
      <4>2. QED
        BY <4>1 DEF Pending
    <3>1. \A i \in DOMAIN messages' :
            InUse(messages'[i]) => messages'[i].provider \in missing[c]
      BY <2>2, <2>6, <1>6
    <3>2. ASSUME NEW q \in Providers, registering'[q] # 0
          PROVE  \E i \in DOMAIN messages' : InUse(messages'[i]) /\ messages'[i].provider = q
      <4>1. q # p
        <5>1. registering[p] \in {0, 1}
          BY <2>1 DEF CardsInUse
        <5>2. registering'[p] = 0
          BY <5>1, <1>0, <1>12
        <5>3. QED
          BY <5>2, <3>2
      <4>2. registering[q] # 0
        BY <4>1, <3>2, <1>12
      <4>3. PICK i \in DOMAIN messages : InUse(messages[i]) /\ messages[i].provider = q
        BY <4>2, <2>6
      <4>4. InUse(messages'[i]) /\ messages'[i].provider = q /\ i \in DOMAIN messages'
        BY <4>1, <4>3, <2>3, <1>4, <1>6
      <4>5. QED
        BY <4>4
    <3>3. ASSUME NEW i \in DOMAIN messages', InUse(messages'[i]),
                 NEW j \in DOMAIN messages', messages'[j].kind = "plan"
          PROVE  messages'[j].cmd # c
      <4>1. CASE Old(j)
        BY <4>1, <3>3, <2>6, <1>6
      <4>2. CASE New(j)
        <5>1. messages'[i].provider \in missing[c] /\ AllReady(updated, c)
          BY <4>2, <3>1, <3>3, <1>5
        <5>2. PICK k \in DOMAIN updated :
                updated[k].provider = messages'[i].provider /\ updated[k].connected
          BY <5>1 DEF AllReady
        <5>3. k \in DOMAIN messages' /\ messages'[k].provider = messages'[i].provider
              /\ messages'[k].connected
          BY <5>2, <1>2, <1>4
        <5>4. QED
          BY <5>3, <3>3, <2>4
      <4>3. QED
        BY <4>1, <4>2, <1>4
    <3>4. QED
      BY <3>1, <3>2, <3>3
  <2>8. PlanCards'
    <3>1. ASSUME NEW i \in DOMAIN messages', NEW j \in DOMAIN messages',
                 messages'[i].kind = "plan", messages'[j].kind = "plan",
                 messages'[i].cmd = messages'[j].cmd
          PROVE  i = j
      <4>1. ASSUME NEW k \in DOMAIN messages', NEW l \in DOMAIN messages',
                   messages'[k].cmd = messages'[l].cmd, messages'[l].kind = "plan",
                   New(k), Old(l)
            PROVE  FALSE
        BY <4>1, <2>6, <1>5, <1>6
      <4>2. CASE Old(i) /\ Old(j)
        BY <4>2, <3>1, <2>1, <1>6 DEF PlanCards
      <4>3. CASE New(i) /\ New(j)
        BY <4>3 DEF New
      <4>4. QED
        BY <4>1, <4>2, <4>3, <3>1, <1>4
    <3>2. \A i \in DOMAIN messages' :
            messages'[i].kind = "plan" /\ confirms'[messages'[i].cmd] # 0 => messages'[i].busy
      <4> TAKE i \in DOMAIN messages'
      <4> HAVE messages'[i].kind = "plan" /\ confirms'[messages'[i].cmd] # 0
      <4>1. CASE Old(i)
        BY <4>1, <2>1, <1>0, <1>6 DEF PlanCards
      <4>2. CASE New(i)
        BY <4>2, <1>0, <1>3, <1>5
      <4>3. QED
        BY <4>1, <4>2, <1>4
    <3>3. \A d \in Commands : confirms'[d] \in {0, 1}
      BY <2>1, <1>0 DEF PlanCards
    <3>4. QED
      BY <3>1, <3>2, <3>3 DEF PlanCards
  <2>9. QED
    BY <2>5, <2>7, <2>8 DEF Uncrowded
<1>16. ASSUME ~late'
       PROVE  InTime'
  <2>1. ~late /\ ~Covers(p)
    BY <1>0, <1>16
  <2>2. Awaited' = Awaited
    BY <1>0, StillAwaited DEF server
  <2>3. ASSUME NEW i \in DOMAIN messages', New(i)
        PROVE  Awaited
    <3>1. c \in Commands /\ stage[c] # "new" /\ confirms[c] = 0
      BY <2>3, <1>3, <1>5
    <3>2. Owned(c) = {}
      <4>1. IsFiniteSet(Owned(c)) /\ Cardinality(Owned(c)) <= 0
        BY <3>1 DEF IInv, RunsAreOwned
      <4>2. Cardinality(Owned(c)) = 0
        BY <4>1, FS_CardinalityType
      <4>3. QED
        BY <4>1, <4>2, FS_EmptySet
    <3>3. \A r \in settled : owner[r] # c
      BY <3>2 DEF Owned, IInv, TypeOK
    <3>4. QED
      BY <3>1, <3>3 DEF Awaited, Unserved
  <2>4. ASSUME NEW i \in DOMAIN messages'
        PROVE  /\ messages'[i].spinning # <<>> => messages'[i].status = "processing"
               /\ messages'[i].status = "processing" => Awaited
    <3>1. CASE Old(i)
      <4>1. /\ i \in DOMAIN messages
            /\ messages'[i].spinning = messages[i].spinning
            /\ \/ messages'[i].status = messages[i].status
               \/ messages'[i].status = "complete" /\ messages[i].provider = p /\ ~messages[i].connected
        BY <3>1, <1>6
      <4>2. messages[i].provider = p /\ ~messages[i].connected => messages[i].spinning = <<>>
        BY <4>1, <2>1 DEF Covers
      <4>3. /\ messages[i].spinning # <<>> => messages[i].status = "processing"
            /\ messages[i].status = "processing" => Awaited
        BY <4>1, <2>1 DEF IInv, InTime, Busy
      <4>4. QED
        BY <4>1, <4>2, <4>3
    <3>2. CASE New(i)
      BY <3>2, <2>3, <1>5
    <3>3. QED
      BY <3>1, <3>2, <1>4
  <2>5. processing' => Awaited
    BY <2>1, <1>0 DEF IInv, InTime, Busy
  <2>6. QED
    BY <2>2, <2>4, <2>5 DEF InTime, Busy
<1>17. QED
  BY <1>0, <1>8, <1>10, <1>13, <1>14, <1>15, <1>16 DEF IInv

LEMMA ConfirmKeeps ==
  ASSUME IInv, NEW i \in DOMAIN messages, ConfirmPlan(i)
  PROVE  IInv'
<1> DEFINE pressed == [messages EXCEPT ![i].busy = TRUE]
           m == Note("processing", <<"create">>, TRUE)
           c == messages[i].cmd
           Old(j) == j \in DOMAIN messages
           New(j) == messages'[j] = m
<1>0. /\ messages[i].kind = "plan" /\ ~messages[i].busy /\ dialog = 0
      /\ messages' = Append(pressed, m) /\ pendingPlan' = NoCommand
      /\ confirms' = [confirms EXCEPT ![c] = @ + 1]
      /\ UNCHANGED <<world, processing, seen, accounts, server, traffic, history>>
  BY DEF ConfirmPlan, FreeToClick, CanConfirm
<1>1. messages \in Seq(Message) /\ confirms \in [Commands -> Nat] /\ processing \in BOOLEAN
      /\ seen \subseteq Commands
  BY DEF IInv, TypeOK
<1>2. c \in Commands /\ c \in seen /\ stage[c] = "previewed"
  BY <1>0, PlansAreSeen
<1>3. m \in Message /\ Card(m) = Blank
  <2>1. <<"create">> \in Seq(Label)
    BY DEF Label
  <2>2. m \in Message
    BY <2>1, NoteIsMessage
  <2>3. QED
    BY <2>2, NoteIsBlank
<1>4. m.kind = "note" /\ m.status = "processing" /\ m.cmd = NoCommand /\ m.provider = "none"
      /\ ~m.connected /\ ~m.busy
  BY DEF Note
<1>5. /\ pressed \in Seq(Message) /\ DOMAIN pressed = DOMAIN messages
      /\ pressed[i] = [messages[i] EXCEPT !.busy = TRUE]
      /\ \A j \in DOMAIN messages : j # i => pressed[j] = messages[j]
  BY <1>1, PressedList
<1> HIDE DEF pressed, m
<1>6. /\ messages' \in Seq(Message)
      /\ DOMAIN messages \subseteq DOMAIN messages'
      /\ \A j \in DOMAIN messages : messages'[j] = pressed[j]
      /\ \A j \in DOMAIN messages' : Old(j) \/ New(j)
  BY <1>0, <1>3, <1>5, Appended
<1> HIDE DEF c
<1>7. \A j \in DOMAIN messages :
        /\ messages'[j].kind = messages[j].kind /\ messages'[j].cmd = messages[j].cmd
        /\ messages'[j].provider = messages[j].provider
        /\ messages'[j].connected = messages[j].connected
        /\ messages'[j].status = messages[j].status
        /\ messages'[j].spinning = messages[j].spinning
        /\ j # i => messages'[j].busy = messages[j].busy
        /\ j = i => messages'[j].busy
  <2> TAKE j \in DOMAIN messages
  <2>1. messages[j] \in Message
    BY <1>1
  <2>2. CASE j = i
    <3>1. messages'[j] = [messages[j] EXCEPT !.busy = TRUE]
      BY <2>2, <1>5, <1>6
    <3>2. QED
      BY <2>1, <2>2, <3>1 DEF Message
  <2>3. CASE j # i
    BY <2>3, <1>5, <1>6
  <2>4. QED
    BY <2>2, <2>3
<1>8. \A j : New(j) =>
        /\ messages'[j].kind = "note" /\ messages'[j].status = "processing"
        /\ messages'[j].cmd = NoCommand /\ messages'[j].provider = "none"
        /\ ~messages'[j].connected /\ ~messages'[j].busy
  BY <1>4
<1> HIDE DEF Old, New
<1>9. \A j \in DOMAIN messages' : j \in DOMAIN messages \/ New(j)
  BY <1>6 DEF Old
<1>10. confirms'[c] = confirms[c] + 1 /\ confirms' \in [Commands -> Nat] /\ confirms[c] \in Nat
       /\ \A d \in Commands \ {c} : confirms'[d] = confirms[d]
  BY <1>0, <1>1, <1>2
<1>11. UNCHANGED <<dialog, registering, registered, lost, stage, missing, run, owner, wire,
                   duplicates, published, settled, late, crowded>>
  BY <1>0 DEF accounts, server, traffic, history
<1>12. Cards'
  <2> SUFFICES ASSUME NEW j \in DOMAIN messages'
               PROVE  /\ messages'[j].kind = "connect" <=> messages'[j].provider # "none"
                      /\ messages'[j].kind = "plan" => messages'[j].cmd # NoCommand
                      /\ messages'[j].kind = "note" =>
                           messages'[j].cmd = NoCommand /\ ~messages'[j].busy
                      /\ messages'[j].connected =>
                           /\ messages'[j].kind = "connect"
                           /\ messages'[j].provider \in registered' \cup lost'
    BY DEF Cards
  <2>1. CASE New(j)
    BY <2>1, <1>8
  <2>2. CASE j \in DOMAIN messages
    <3>1. j = i => messages[j].kind = "plan"
      BY <1>0
    <3>2. QED
      BY <2>2, <3>1, <1>7, <1>11 DEF IInv, Cards
  <2>3. QED
    BY <2>1, <2>2, <1>9
<1>13. Plans'
  <2>1. \A d \in seen' : stage'[d] = "previewed"
    BY <1>0, <1>11 DEF IInv, Plans
  <2>2. \A j \in DOMAIN messages' :
          messages'[j].kind = "plan" => missing'[messages'[j].cmd] \subseteq registered' \cup lost'
    BY <1>7, <1>8, <1>9, <1>11 DEF IInv, Plans
  <2>3. ConfirmedIsConnected'
    <3>1. missing[c] \subseteq registered \cup lost
      BY <1>0 DEF IInv, Plans, c
    <3>2. \A d \in Commands \ {c} : confirms'[d] > 0 => missing[d] \subseteq registered \cup lost
      BY <1>10 DEF IInv, Plans, ConfirmedIsConnected
    <3>3. QED
      BY <3>1, <3>2, <1>11 DEF ConfirmedIsConnected
  <2>4. pendingPlan' = NoCommand
    BY <1>0
  <2>5. QED
    BY <2>1, <2>2, <2>3, <2>4 DEF Plans
<1>14. SessionTypes'
  <2>1. \A j \in DOMAIN messages' : messages'[j].cmd \in seen' \cup {NoCommand}
    BY <1>0, <1>7, <1>8, <1>9 DEF IInv, TypeOK
  <2>2. dialog' \in DOMAIN messages' \cup {0}
    BY <1>0, <1>11
  <2>3. QED
    BY <2>1, <2>2, <1>0, <1>1, <1>6 DEF SessionTypes
<1>15. TypeOK'
  <2>1. \A d \in Commands : confirms'[d] > 0 => d \in seen
    BY <1>2, <1>10, AccountTypes
  <2>2. late' \in BOOLEAN /\ registering' \in [Providers -> Nat]
        /\ registered' \cup lost' \subseteq Providers
    BY <1>11, AccountTypes
  <2>3. QED
    BY <2>1, <2>2, <1>0, <1>10, <1>11, <1>14, UserTypes
<1>16. Wires' /\ Grown
  BY <1>0, UserWires
<1>17. \A d \in Commands : Owned(d)' = Owned(d)
  BY <1>11 DEF Owned
<1>18. \A d \in Commands : IsFiniteSet(Owned(d)) /\ Cardinality(Owned(d)) <= confirms[d]
                             /\ Cardinality(Owned(d)) \in Nat
  BY FS_CardinalityType DEF IInv, RunsAreOwned
<1>19. RunsAreOwned'
  <2>1. ASSUME NEW d \in Commands
        PROVE  IsFiniteSet(Owned(d)') /\ Cardinality(Owned(d)') <= confirms'[d]
    <3>1. Owned(d)' = Owned(d) /\ IsFiniteSet(Owned(d)) /\ Cardinality(Owned(d)) <= confirms[d]
          /\ Cardinality(Owned(d)) \in Nat
      BY <1>17, <1>18
    <3>2. confirms[d] \in Nat /\ confirms'[d] \in Nat /\ confirms[d] <= confirms'[d]
      BY <1>1, <1>10
    <3>3. QED
      BY <3>1, <3>2
  <2>2. \A r \in Runs : run'[r] = "unused" => owner'[r] = NoCommand /\ r \notin settled'
    BY <1>11 DEF IInv, RunsAreOwned
  <2>3. \A r \in Runs \ settled' : run'[r] = "over" =>
          \E k \in {"succeeded", "failed"} : \E j \in DOMAIN wire'[k] : wire'[k][j].run = r
    BY <1>11 DEF IInv, RunsAreOwned
  <2>4. QED
    BY <2>1, <2>2, <2>3 DEF RunsAreOwned
<1>20. ASSUME ~crowded
       PROVE  Uncrowded'
  <2>1. CardsInUse /\ PlanCards
    BY <1>20 DEF IInv, Uncrowded
  <2>2. \A j \in DOMAIN messages' :
          InUse(messages'[j]) => j \in DOMAIN messages /\ InUse(messages[j])
    BY <1>7, <1>8, <1>9 DEF InUse
  <2>3. CardsInUse'
    <3>1. ASSUME NEW j \in DOMAIN messages', NEW k \in DOMAIN messages',
                 InUse(messages'[j]), messages'[k].provider = messages'[j].provider
          PROVE  ~messages'[k].connected /\ j = k
      <4>1. j \in DOMAIN messages /\ InUse(messages[j]) /\ messages[j].provider # "none"
            /\ messages'[j].provider = messages[j].provider
        BY <3>1, <2>2, <1>7 DEF InUse, IInv, Cards
      <4>2. k \in DOMAIN messages /\ messages[k].provider = messages[j].provider
            /\ messages'[k].connected = messages[k].connected
        BY <4>1, <3>1, <1>7, <1>8, <1>9
      <4>3. QED
        BY <4>1, <4>2, <2>1 DEF CardsInUse
    <3>2. dialog' = 0
      BY <1>0, <1>11
    <3>3. ASSUME NEW p \in Providers
          PROVE  /\ registering'[p] \in {0, 1}
                 /\ registering'[p] # 0 =>
                      \A j \in DOMAIN messages' :
                        InUse(messages'[j]) /\ messages'[j].provider = p => messages'[j].busy
      <4>1. /\ registering[p] \in {0, 1}
            /\ registering[p] # 0 =>
                 \A j \in DOMAIN messages :
                   InUse(messages[j]) /\ messages[j].provider = p => messages[j].busy
        BY <2>1 DEF CardsInUse
      <4>2. QED
        BY <4>1, <2>2, <1>7, <1>11
    <3>4. QED
      BY <3>1, <3>2, <3>3 DEF CardsInUse
  <2>4. Pending'
    BY <1>0 DEF Pending
  <2>5. PlanCards'
    <3>1. \A j \in DOMAIN messages' : messages'[j].kind = "plan" => j \in DOMAIN messages
      BY <1>8, <1>9
    <3>2. ASSUME NEW j \in DOMAIN messages', NEW k \in DOMAIN messages',
                 messages'[j].kind = "plan", messages'[k].kind = "plan",
                 messages'[j].cmd = messages'[k].cmd
          PROVE  j = k
      BY <3>1, <3>2, <2>1, <1>7 DEF PlanCards
    <3>3. ASSUME NEW j \in DOMAIN messages', messages'[j].kind = "plan",
                 confirms'[messages'[j].cmd] # 0
          PROVE  messages'[j].busy
      <4>1. j \in DOMAIN messages /\ messages[j].kind = "plan" /\ messages'[j].cmd = messages[j].cmd
            /\ messages[j].cmd \in Commands
        BY <3>1, <3>3, <1>7, PlansAreSeen
      <4>2. CASE j = i
        BY <4>2, <1>7
      <4>3. CASE j # i
        <5>1. messages[j].cmd # c
          BY <4>1, <4>3, <2>1, <1>0 DEF PlanCards, c
        <5>2. confirms[messages[j].cmd] # 0
          BY <5>1, <4>1, <3>3, <1>10
        <5>3. QED
          BY <5>2, <4>1, <4>3, <2>1, <1>7 DEF PlanCards
      <4>4. QED
        BY <4>2, <4>3
    <3>4. ASSUME NEW d \in Commands
          PROVE  confirms'[d] \in {0, 1}
      <4>1. confirms[c] = 0
        <5>1. ~ (confirms[messages[i].cmd] # 0)
          BY <2>1, <1>0 DEF PlanCards
        <5>2. QED
          BY <5>1 DEF c
      <4>2. confirms[d] \in {0, 1}
        BY <2>1 DEF PlanCards
      <4>3. QED
        BY <4>1, <4>2, <1>10
    <3>5. QED
      BY <3>2, <3>3, <3>4 DEF PlanCards
  <2>6. QED
    BY <2>3, <2>4, <2>5 DEF Uncrowded
<1>21. ASSUME ~late
       PROVE  InTime'
  <2>1. Awaited'
    <3>0. PICK d \in Commands : d = c
      BY <1>2
    <3>1. Cardinality(Owned(d)') < confirms'[d]
      <4>1. Owned(d)' = Owned(d)
        BY <1>17
      <4>2. Cardinality(Owned(d)) <= confirms[d] /\ Cardinality(Owned(d)) \in Nat
        BY <1>18
      <4>3. confirms'[d] = confirms[d] + 1 /\ confirms[d] \in Nat
        BY <3>0, <1>10
      <4>4. Cardinality(Owned(d)) < confirms'[d]
        BY <4>2, <4>3
      <4>5. QED
        BY <4>1, <4>4
    <3>2. stage'[d] # "new"
      BY <3>0, <1>2, <1>11
    <3>3. Unserved(d)'
      BY <3>1, <3>2 DEF Unserved
    <3>4. QED
      BY <3>3 DEF Awaited
  <2>2. \A j \in DOMAIN messages' :
          messages'[j].spinning # <<>> => messages'[j].status = "processing"
    BY <1>7, <1>8, <1>9, <1>21, OldSpinning
  <2>3. QED
    BY <2>1, <2>2 DEF InTime
<1>22. QED
  BY <1>11, <1>12, <1>13, <1>15, <1>16, <1>19, <1>20, <1>21 DEF IInv

LEMMA ClearKeeps ==
  ASSUME IInv, ClearMessages
  PROVE  IInv'
<1>0. /\ dialog = 0 /\ messages' = <<>> /\ processing' = FALSE /\ pendingPlan' = NoCommand
      /\ UNCHANGED <<world, seen, accounts, confirms, server, traffic, history>>
  BY DEF ClearMessages, FreeToClick
<1>1. UNCHANGED <<dialog, registering, registered, lost, stage, missing, run, owner, wire,
                  duplicates, published, settled, late, crowded>>
  BY <1>0 DEF accounts, server, traffic, history
<1>2. messages' \in Seq(Message) /\ DOMAIN messages' = {}
  BY <1>0
<1>3. Cards'
  BY <1>2 DEF Cards
<1>4. Plans'
  <2>1. \A c \in seen' : stage'[c] = "previewed"
    BY <1>0, <1>1 DEF IInv, Plans
  <2>2. ConfirmedIsConnected'
    BY <1>0, <1>1 DEF IInv, Plans, ConfirmedIsConnected
  <2>3. QED
    BY <2>1, <2>2, <1>0, <1>2 DEF Plans
<1>5. SessionTypes'
  BY <1>0, <1>1, <1>2 DEF SessionTypes, IInv, TypeOK
<1>6. TypeOK'
  BY <1>0, <1>1, <1>5, AccountTypes, UserTypes
<1>7. Wires' /\ RunsAreOwned'
  BY <1>0, <1>1, UserWires, RunsStay
<1>8. ASSUME ~crowded
      PROVE  Uncrowded'
  <2>1. CardsInUse /\ PlanCards
    BY <1>8 DEF IInv, Uncrowded
  <2>2. CardsInUse'
    BY <2>1, <1>0, <1>1, <1>2 DEF CardsInUse
  <2>3. Pending'
    BY <1>0 DEF Pending
  <2>4. PlanCards'
    BY <2>1, <1>0, <1>2 DEF PlanCards
  <2>5. QED
    BY <2>2, <2>3, <2>4 DEF Uncrowded
<1>9. InTime'
  BY <1>0, <1>2 DEF InTime, Busy
<1>10. QED
  BY <1>1, <1>3, <1>4, <1>6, <1>7, <1>8, <1>9 DEF IInv

-----------------------------------------------------------------------------
(* The invariant and what follows from it.                                   *)

LEMMA InitIsGood ==
  ASSUME Init
  PROVE  IInv
<1> USE DEF Init
<1>1. DOMAIN messages = {} /\ messages \in Seq(Message)
  OBVIOUS
<1>2. TypeOK
  <2>1. world \in World
    BY WorldsAssumption
  <2>2. /\ registering \in [Providers -> Nat] /\ confirms \in [Commands -> Nat]
        /\ stage \in [Commands -> {"new", "planning", "checking", "checked", "previewed", "failed"}]
        /\ missing \in [Commands -> SUBSET Providers]
        /\ run \in [Runs -> RunStage] /\ owner \in [Runs -> Commands \cup {NoCommand}]
    BY DEF RunStage
  <2>3. \A c \in Commands : confirms[c] > 0 => c \in seen
    OBVIOUS
  <2>4. QED
    BY <1>1, <2>1, <2>2, <2>3 DEF TypeOK
<1>3. Wires
  <2>1. \A k \in Subject : wire[k] = <<>> /\ DOMAIN wire[k] = {} /\ wire[k] \in Seq(EventRecord)
    OBVIOUS
  <2>2. "accepted" \in Subject /\ "preview" \in Subject /\ Speaks \subseteq Subject
    BY DEF Subject, Speaks
  <2>3. wire \in [Subject -> Seq(EventRecord)]
    BY <2>1
  <2> HIDE DEF Init
  <2>4. QED
    BY <2>1, <2>2, <2>3 DEF Wires
<1>4. Cards /\ Plans
  BY <1>1 DEF Cards, Plans, ConfirmedIsConnected
<1>5. RunsAreOwned
  <2>1. \A c \in Commands : Owned(c) = {}
    BY NoCommandAssumption DEF Owned
  <2>2. \A c \in Commands : confirms[c] = 0
    OBVIOUS
  <2>3. IsFiniteSet({}) /\ Cardinality({}) = 0
    BY FS_EmptySet
  <2> HIDE DEF Init
  <2>4. \A c \in Commands : IsFiniteSet(Owned(c)) /\ Cardinality(Owned(c)) <= confirms[c]
    <3> TAKE c \in Commands
    <3>1. Owned(c) = {} /\ confirms[c] = 0
      BY <2>1, <2>2
    <3>2. Cardinality(Owned(c)) = 0
      BY <3>1, <2>3, Zenon
    <3>3. QED
      BY <3>1, <3>2, <2>3
  <2>5. \A r \in Runs : run[r] = "unused" /\ owner[r] = NoCommand /\ r \notin settled
    BY DEF Init
  <2>6. QED
    BY <2>4, <2>5 DEF RunsAreOwned
<1>6. Uncrowded
  BY <1>1 DEF Uncrowded, CardsInUse, Pending, PlanCards
<1>7. InTime
  BY <1>1 DEF InTime, Busy
<1>8. QED
  BY <1>2, <1>3, <1>4, <1>5, <1>6, <1>7 DEF IInv

LEMMA StutterKeeps ==
  ASSUME IInv, UNCHANGED vars
  PROVE  IInv'
<1>1. UNCHANGED <<world, messages, processing, pendingPlan, seen, dialog, registering, registered,
                  lost, confirms, stage, missing, run, owner, wire, duplicates, published,
                  settled, late, crowded>>
  BY DEF vars, session, accounts, server, traffic, history
<1>2. Wires' /\ RunsAreOwned'
  BY <1>1, UserWires, RunsStay DEF server, traffic
<1>3. DialogStep
  BY <1>1 DEF DialogStep, IInv, TypeOK, server, traffic, history
<1>4. ~crowded => Uncrowded'
  BY <1>1 DEF IInv, Uncrowded, CardsInUse, Pending, PlanCards
<1>5. QED
  BY <1>3, <1>4, DialogKeeps

LEMMA StepKeeps ==
  ASSUME IInv, [Next]_vars
  PROVE  IInv'
<1>0. world.cmds \subseteq Commands /\ world.runs \subseteq Runs
  BY DEF IInv, TypeOK, World
<1>1. CASE \E c \in world.cmds : Send(c)
  BY <1>0, <1>1, SendKeeps
<1>2. CASE \E c \in world.cmds, s \in PlannerSteps : PlannerStep(c, s[1], s[2])
  BY <1>0, <1>2, PlannerKeeps
<1>3. CASE \E c \in world.cmds, r \in world.runs : Builder(c, r)
  BY <1>0, <1>3, BuilderKeeps
<1>4. CASE \E r \in world.runs : StrangerRuns(r) \/ Runtime(r)
  BY <1>0, <1>4, StrangerKeeps, RuntimeKeeps
<1>5. CASE \E e \in Coming("accepted") : CommandAccepted(e)
  BY <1>5, AcceptedKeeps
<1>6. CASE \E e \in Coming("progress") : PlannerProgress(e)
  BY <1>6, ProgressKeeps
<1>7. CASE \E e \in Coming("preview") : PlanPreview(e)
  BY <1>7, SeenKeeps, PreviewKeeps
<1>8. CASE \E e \in Coming("created") : AgentCreated(e)
  BY <1>8, CreatedKeeps
<1>9. CASE \E e \in Coming("started") : RunStarted(e)
  BY <1>9, StartedKeeps
<1>10. CASE \E e \in Coming("thinking") : RunThinking(e)
  BY <1>10, ThinkingKeeps
<1>11. CASE \E e \in Coming("step") : RunStep(e)
  BY <1>11, StepEventKeeps
<1>12. CASE \E e \in Coming("succeeded") : RunSucceeded(e)
  BY <1>12, SucceededKeeps
<1>13. CASE \E e \in Coming("failed") : RunFailed(e)
  BY <1>13, FailedKeeps
<1>14. CASE \E i \in DOMAIN messages : ClickConnect(i) \/ ConfirmPlan(i)
  BY <1>14, ClickKeeps, ConfirmKeeps
<1>15. CASE DialogFails \/ DialogConnects
  BY <1>15, DialogFailsKeeps, DialogConnectsKeeps
<1>16. CASE \E p \in Providers : OAuthComplete(p)
  BY <1>16, OAuthKeeps
<1>17. CASE NextAction \/ ClearMessages
  BY <1>17, NextActionKeeps, ClearKeeps
<1>18. CASE UNCHANGED vars
  BY <1>18, StutterKeeps
<1>19. QED
  BY <1>1, <1>2, <1>3, <1>4, <1>5, <1>6, <1>7, <1>8, <1>9, <1>10, <1>11, <1>12, <1>13, <1>14,
     <1>15, <1>16, <1>17, <1>18 DEF Next

LEMMA Invariance == Spec => []IInv
BY InitIsGood, StepKeeps, PTL DEF Spec

\* The messages, the accounts and the events have their types; a plan that is shown
\* or waits to be was recorded as seen (use-agent-chat.ts:253), whatever is pushed
\* twice.
THEOREM TypeCorrect == Spec => []TypeOK
<1>1. IInv => TypeOK
  BY DEF IInv
<1>2. QED
  BY <1>1, Invariance, PTL

\* Whatever plans meet, whichever requests are lost and whatever comes twice: a plan
\* that was confirmed lacks no connection that was not reported to the platform
\* (use-agent-chat.ts:788-797).
THEOREM ConfirmedPlansAreConnected == Spec => []ConfirmedIsConnected
<1>1. IInv => ConfirmedIsConnected
  BY DEF IInv, Plans
<1>2. QED
  BY <1>1, Invariance, PTL

\* A plan that met no cards of another one is confirmed at most once: its card is
\* shown by the last completion only, and loses its button when it is pressed
\* (use-agent-chat.ts:799-825, plan-preview-card.tsx:308-322).
THEOREM PlansAreConfirmedOnce == Spec => []ConfirmedOnce
<1>1. IInv => ConfirmedOnce
  <2> SUFFICES ASSUME IInv, ~crowded, NEW c \in Commands
               PROVE  confirms[c] <= 1
    BY DEF ConfirmedOnce
  <2>1. confirms[c] \in {0, 1}
    BY DEF IInv, Uncrowded, PlanCards
  <2>2. QED
    BY <2>1
<1>2. QED
  BY <1>1, Invariance, PTL

\* When every event was handled and none was late, nothing spins: whatever a run or
\* a plan began is awaited by somebody until the outcome that finishes it
\* (use-agent-chat.ts:501-625).
THEOREM NothingSpinsForever == Spec => []NothingSpins
<1>1. IInv => NothingSpins
  <2> SUFFICES ASSUME IInv, Quiet
               PROVE  /\ ~processing
                      /\ \A i \in DOMAIN messages :
                           messages[i].spinning = <<>> /\ messages[i].status # "processing"
    BY DEF NothingSpins
  <2>1. /\ ~late
        /\ \A k \in Subject : wire[k] = <<>>
        /\ \A c \in Commands : stage[c] # "new" =>
             confirms[c] > 0 /\ Cardinality(Owned(c)) = confirms[c]
        /\ \A r \in Runs : run[r] \in {"unused", "over"}
    BY DEF Quiet, Owned
  <2>2. ASSUME NEW r \in Runs \ settled
        PROVE  run[r] = "unused"
    <3> SUFFICES ASSUME run[r] = "over"
                 PROVE  FALSE
      BY <2>1
    <3>1. PICK k \in {"succeeded", "failed"} : \E i \in DOMAIN wire[k] : wire[k][i].run = r
      BY DEF IInv, RunsAreOwned
    <3>2. wire[k] = <<>>
      BY <2>1 DEF Subject
    <3>3. QED
      BY <3>1, <3>2
  <2>3. ASSUME NEW c \in Commands, Unserved(c)
        PROVE  FALSE
    <3>1. confirms[c] > 0 /\ Cardinality(Owned(c)) = confirms[c] /\ confirms[c] \in Nat
      BY <2>1, <2>3 DEF Unserved, IInv, TypeOK
    <3>2. \A r \in settled : owner[r] # c
      BY <3>1, <2>3 DEF Unserved
    <3>3. \A r \in Runs \ settled : owner[r] # c
      BY <2>2, NoCommandAssumption DEF IInv, RunsAreOwned
    <3>4. Owned(c) = {}
      BY <3>2, <3>3 DEF Owned
    <3>5. QED
      BY <3>1, <3>4, FS_EmptySet
  <2>4. ~Awaited
    BY <2>2, <2>3 DEF Awaited
  <2>5. InTime
    BY <2>1 DEF IInv
  <2>6. QED
    BY <2>4, <2>5 DEF InTime, Busy
<1>2. QED
  BY <1>1, Invariance, PTL

=============================================================================
