---------------------------- MODULE StreamProofs ----------------------------
(***************************************************************************)
(* The stream of stanzas from one client to the other, and what the ends   *)
(* know of each other by it: what a step of the sender adds and a step of  *)
(* the receiver takes keeps.  Nothing here is about one state of the two   *)
(* clients or the next: PartyProofs, which builds on it, says that their   *)
(* steps are such steps.                                                   *)
(***************************************************************************)
EXTENDS Naturals, Sequences, SequenceTheorems, TLAPS

-----------------------------------------------------------------------------
(* The stanzas on their way from one client, whose session ids are `own`,  *)
(* to the other.  `begun` is what the sender has opened or had opened,     *)
(* `heard` the same at the receiver.                                       *)

Openers == {"propose", "proceed", "session-initiate"}
WireActions == {"propose", "ringing", "proceed", "reject", "retract", "finish",
                "session-initiate", "session-accept", "transport-info", "session-terminate"}

\* The sender opens calls and sessions of its own, and proceeds with those of the receiver.
OpenedBy(own, theirs, o) == \/ o[1] \in own /\ o[2] \in {"propose", "session-initiate"}
                            \/ o[1] \in theirs /\ o[2] = "proceed"

\* What the sender says is its to say, and said of a call that was opened that far.
SaidInRole(stanza, begun, own, theirs) ==
    /\ stanza.action \in WireActions /\ stanza.sid \in own \cup theirs
    /\ stanza.action \in {"propose", "retract", "session-initiate"} => stanza.sid \in own
    /\ stanza.action \in {"ringing", "proceed", "reject", "session-accept"} =>
          stanza.sid \in theirs
    /\ <<stanza.sid, "propose">> \in begun
    /\ stanza.action \in Openers => <<stanza.sid, stanza.action>> \in begun
    /\ stanza.action \in {"session-accept", "transport-info"} /\ stanza.sid \in theirs =>
          <<stanza.sid, "session-initiate">> \in begun

\* The proposal comes before all else that is said of the call.
Announced(stanzas, sid) ==
    \E i \in DOMAIN stanzas : /\ stanzas[i].action = "propose" /\ stanzas[i].sid = sid
                              /\ \A j \in DOMAIN stanzas : stanzas[j].sid = sid => i <= j

OpensNew(stanzas, known) ==
    \A i \in DOMAIN stanzas : stanzas[i].action \in Openers =>
        /\ <<stanzas[i].sid, stanzas[i].action>> \notin known
        /\ \A j \in DOMAIN stanzas :
              stanzas[j].action = stanzas[i].action /\ stanzas[j].sid = stanzas[i].sid => j = i

\* The receiver has heard of nothing the sender did not open, what opens something is
\* on its way once and was not heard of, and every proposal was heard of or is ahead of
\* all that is said of its call.
Link(queue, kinds, begun, heard, own, theirs) ==
    /\ queue \in Seq(kinds)
    /\ \A i \in DOMAIN queue : SaidInRole(queue[i], begun, own, theirs)
    /\ \A o \in heard : OpenedBy(own, theirs, o) => o \in begun
    /\ OpensNew(queue, heard)
    /\ \A sid \in own : <<sid, "propose">> \in begun =>
          <<sid, "propose">> \in heard \/ Announced(queue, sid)

\* What one step of the sender adds.
Said(words, kinds, begun, begunNext, own, theirs) ==
    /\ words \in Seq(kinds)
    /\ begun \subseteq begunNext
    /\ \A i \in DOMAIN words : SaidInRole(words[i], begunNext, own, theirs)
    /\ OpensNew(words, begun)
    /\ \A sid \in own : <<sid, "propose">> \in begunNext \ begun => Announced(words, sid)

\* What opens something is the sender's to open.
LEMMA OpenersAreOwn ==
    ASSUME NEW stanza, NEW begun, NEW own, NEW theirs,
           SaidInRole(stanza, begun, own, theirs), stanza.action \in Openers
    PROVE  /\ OpenedBy(own, theirs, <<stanza.sid, stanza.action>>)
           /\ <<stanza.sid, stanza.action>> \in begun
<1> DEFINE o == <<stanza.sid, stanza.action>>
<1>1. o[1] = stanza.sid /\ o[2] = stanza.action
  OBVIOUS
<1> QED BY <1>1 DEF SaidInRole, OpenedBy, Openers

\* The sender's step keeps the link.
LEMMA LinkSends ==
    ASSUME NEW queue, NEW kinds, NEW begun, NEW begunNext, NEW heard, NEW own, NEW theirs,
           NEW words, Link(queue, kinds, begun, heard, own, theirs),
           Said(words, kinds, begun, begunNext, own, theirs)
    PROVE  Link(queue \o words, kinds, begunNext, heard, own, theirs)
<1> DEFINE all == queue \o words
           n == Len(queue)
<1>1. /\ queue \in Seq(kinds) /\ words \in Seq(kinds) /\ begun \subseteq begunNext
      /\ n \in Nat /\ Len(words) \in Nat
      /\ DOMAIN queue = 1..n /\ DOMAIN words = 1..Len(words)
  <2>1. queue \in Seq(kinds) /\ words \in Seq(kinds) /\ begun \subseteq begunNext
    BY DEF Link, Said
  <2> QED BY <2>1
<1>2. /\ all \in Seq(kinds) /\ DOMAIN all = 1..n + Len(words)
      /\ \A i \in 1..n + Len(words) : all[i] = IF i <= n THEN queue[i] ELSE words[i - n]
  <2>1. all \in Seq(kinds) /\ Len(all) = n + Len(words)
    BY <1>1, ConcatProperties
  <2>2. \A i \in 1..n + Len(words) : all[i] = IF i <= n THEN queue[i] ELSE words[i - n]
    BY <1>1, ConcatProperties
  <2> HIDE DEF all
  <2> QED BY <1>1, <2>1, <2>2
<1> HIDE DEF all, n
<1>3. \A i \in DOMAIN all : \/ i \in DOMAIN queue /\ all[i] = queue[i]
                            \/ /\ i \notin DOMAIN queue /\ i - n \in DOMAIN words /\ i > n
                               /\ all[i] = words[i - n]
  <2> SUFFICES ASSUME NEW i \in DOMAIN all
               PROVE  \/ i \in DOMAIN queue /\ all[i] = queue[i]
                      \/ /\ i \notin DOMAIN queue /\ i - n \in DOMAIN words /\ i > n
                         /\ all[i] = words[i - n]
    OBVIOUS
  <2>1. CASE i <= n
    BY <1>1, <1>2, <2>1
  <2>2. CASE i > n
    BY <1>1, <1>2, <2>2
  <2> QED BY <1>1, <1>2, <2>1, <2>2
<1>4. \A i \in DOMAIN all : SaidInRole(all[i], begunNext, own, theirs)
  <2>1. \A i \in DOMAIN queue : SaidInRole(queue[i], begunNext, own, theirs)
    BY <1>1 DEF Link, SaidInRole
  <2> QED BY <1>3, <2>1 DEF Said
<1>5. \A o \in heard : OpenedBy(own, theirs, o) => o \in begunNext
  BY <1>1 DEF Link
<1>6. OpensNew(all, heard)
  <2> SUFFICES ASSUME NEW i \in DOMAIN all, all[i].action \in Openers
               PROVE  /\ <<all[i].sid, all[i].action>> \notin heard
                      /\ \A j \in DOMAIN all :
                            all[j].action = all[i].action /\ all[j].sid = all[i].sid => j = i
    BY DEF OpensNew
  <2> DEFINE Same(a, b) == a.action = b.action /\ a.sid = b.sid
  <2>1. ASSUME NEW k \in DOMAIN queue, queue[k].action \in Openers
        PROVE  /\ <<queue[k].sid, queue[k].action>> \in begun
               /\ <<queue[k].sid, queue[k].action>> \notin heard
               /\ \A j \in DOMAIN queue : Same(queue[j], queue[k]) => j = k
    BY <2>1, OpenersAreOwn DEF Link, OpensNew
  <2>2. ASSUME NEW k \in DOMAIN words, words[k].action \in Openers
        PROVE  /\ <<words[k].sid, words[k].action>> \notin begun
               /\ <<words[k].sid, words[k].action>> \notin heard
               /\ \A j \in DOMAIN words : Same(words[j], words[k]) => j = k
    <3>1. /\ <<words[k].sid, words[k].action>> \notin begun
          /\ \A j \in DOMAIN words : Same(words[j], words[k]) => j = k
      BY <2>2 DEF Said, OpensNew
    <3>2. OpenedBy(own, theirs, <<words[k].sid, words[k].action>>)
      BY <2>2, OpenersAreOwn DEF Said
    <3> QED BY <3>1, <3>2 DEF Link
  <2>3. CASE i \in DOMAIN queue /\ all[i] = queue[i]
    <3> SUFFICES ASSUME NEW j \in DOMAIN all, Same(all[j], all[i]), j # i PROVE FALSE
      BY <2>1, <2>3
    <3>1. j - n \in DOMAIN words /\ all[j] = words[j - n]
      BY <1>3, <2>1, <2>3
    <3> QED BY <2>1, <2>2, <2>3, <3>1
  <2>4. CASE i - n \in DOMAIN words /\ i > n /\ all[i] = words[i - n]
    <3> SUFFICES ASSUME NEW j \in DOMAIN all, Same(all[j], all[i]), j # i PROVE FALSE
      BY <2>2, <2>4
    <3>1. CASE j \in DOMAIN queue /\ all[j] = queue[j]
      BY <2>1, <2>2, <2>4, <3>1
    <3>2. CASE j - n \in DOMAIN words /\ all[j] = words[j - n]
      <4>1. j - n = i - n
        BY <2>2, <2>4, <3>2
      <4>2. i \in Int /\ j \in Int
        BY <1>1, <1>2
      <4> QED BY <1>1, <4>1, <4>2
    <3> QED BY <1>3, <3>1, <3>2
  <2> QED BY <1>3, <2>3, <2>4
<1>7. ASSUME NEW sid \in own, <<sid, "propose">> \in begunNext, <<sid, "propose">> \notin heard
      PROVE  Announced(all, sid)
  <2>1. CASE <<sid, "propose">> \in begun
    <3>1. PICK i \in DOMAIN queue : /\ queue[i].action = "propose" /\ queue[i].sid = sid
                                    /\ \A j \in DOMAIN queue : queue[j].sid = sid => i <= j
      BY <1>7, <2>1 DEF Link, Announced
    <3>2. i \in DOMAIN all /\ all[i] = queue[i] /\ i <= n /\ i \in Int
      BY <1>1, <1>2, <3>1
    <3>3. \A j \in DOMAIN all : all[j].sid = sid => i <= j
      <4> SUFFICES ASSUME NEW j \in DOMAIN all, all[j].sid = sid PROVE i <= j
        OBVIOUS
      <4>1. CASE j \in DOMAIN queue /\ all[j] = queue[j]
        BY <3>1, <4>1
      <4>2. CASE j > n
        BY <1>1, <1>2, <3>2, <4>2
      <4> QED BY <1>3, <4>1, <4>2
    <3> QED BY <3>1, <3>2, <3>3 DEF Announced
  <2>2. CASE <<sid, "propose">> \notin begun
    <3>1. PICK i \in DOMAIN words : /\ words[i].action = "propose" /\ words[i].sid = sid
                                    /\ \A j \in DOMAIN words : words[j].sid = sid => i <= j
      BY <1>7, <2>2 DEF Said, Announced
    <3>2. i + n \in DOMAIN all /\ all[i + n] = words[i]
      BY <1>1, <1>2, <3>1
    <3>3. \A j \in DOMAIN queue : queue[j].sid # sid
      BY <2>2 DEF Link, SaidInRole
    <3>4. \A j \in DOMAIN all : all[j].sid = sid => i + n <= j
      <4> SUFFICES ASSUME NEW j \in DOMAIN all, all[j].sid = sid PROVE i + n <= j
        OBVIOUS
      <4>1. j - n \in DOMAIN words /\ all[j] = words[j - n]
        BY <1>3, <3>3
      <4>2. i <= j - n
        BY <3>1, <4>1
      <4> QED BY <1>1, <1>2, <3>1, <4>2
    <3> QED BY <3>1, <3>2, <3>4 DEF Announced
  <2> QED BY <2>1, <2>2
<1> QED BY <1>2, <1>4, <1>5, <1>6, <1>7 DEF Link, all

\* So does a step in which the receiver takes the first stanza.
LEMMA LinkTakes ==
    ASSUME NEW queue, NEW kinds, NEW begun, NEW heard, NEW heardNext, NEW own, NEW theirs,
           Link(queue, kinds, begun, heard, own, theirs), queue # <<>>,
           heard \subseteq heardNext,
           \A o \in heardNext \ heard :
              ~OpenedBy(own, theirs, o) \/ o = <<Head(queue).sid, Head(queue).action>>,
           Head(queue).action = "propose" => <<Head(queue).sid, "propose">> \in heardNext
    PROVE  Link(Tail(queue), kinds, begun, heardNext, own, theirs)
<1> DEFINE rest == Tail(queue)
           head == Head(queue)
<1>1. /\ queue \in Seq(kinds) /\ rest \in Seq(kinds) /\ head = queue[1] /\ 1 \in DOMAIN queue
      /\ \A i \in DOMAIN rest : /\ i \in Nat /\ i + 1 \in DOMAIN queue /\ i + 1 # 1
                                /\ rest[i] = queue[i + 1]
      /\ \A i \in DOMAIN queue : i \in Nat /\ (i = 1 \/ i - 1 \in DOMAIN rest)
  <2>1. queue \in Seq(kinds)
    BY DEF Link
  <2> QED BY <2>1
<1> HIDE DEF rest, head
<1>2. \A i \in DOMAIN rest : SaidInRole(rest[i], begun, own, theirs)
  BY <1>1 DEF Link
<1>3. SaidInRole(head, begun, own, theirs)
  BY <1>1 DEF Link
<1>4. ASSUME NEW o \in heardNext, OpenedBy(own, theirs, o) PROVE o \in begun
  <2>1. CASE o \in heard
    BY <1>4, <2>1 DEF Link
  <2>2. CASE o = <<head.sid, head.action>>
    <3>1. o[1] = head.sid /\ o[2] = head.action
      BY <2>2
    <3> QED BY <1>3, <1>4, <2>2, <3>1, OpenersAreOwn DEF OpenedBy, Openers
  <2> QED BY <1>4, <2>1, <2>2 DEF head
<1>5. OpensNew(rest, heardNext)
  <2> SUFFICES ASSUME NEW i \in DOMAIN rest, rest[i].action \in Openers
               PROVE  /\ <<rest[i].sid, rest[i].action>> \notin heardNext
                      /\ \A j \in DOMAIN rest :
                            rest[j].action = rest[i].action /\ rest[j].sid = rest[i].sid => j = i
    BY DEF OpensNew
  <2>1. /\ <<queue[i + 1].sid, queue[i + 1].action>> \notin heard
        /\ \A j \in DOMAIN queue : queue[j].action = queue[i + 1].action
              /\ queue[j].sid = queue[i + 1].sid => j = i + 1
    BY <1>1 DEF Link, OpensNew
  <2>2. OpenedBy(own, theirs, <<rest[i].sid, rest[i].action>>)
    BY <1>2, OpenersAreOwn
  <2>3. <<rest[i].sid, rest[i].action>> # <<head.sid, head.action>>
    BY <1>1, <2>1
  <2>4. <<rest[i].sid, rest[i].action>> \notin heardNext
    BY <1>1, <2>1, <2>2, <2>3 DEF head
  <2>5. ASSUME NEW j \in DOMAIN rest, rest[j].action = rest[i].action, rest[j].sid = rest[i].sid
        PROVE  j = i
    <3>1. j + 1 = i + 1
      BY <1>1, <2>1, <2>5
    <3> QED BY <1>1, <3>1
  <2> QED BY <2>4, <2>5
<1>6. ASSUME NEW sid \in own, <<sid, "propose">> \in begun, <<sid, "propose">> \notin heardNext
      PROVE  Announced(rest, sid)
  <2>1. PICK i \in DOMAIN queue : /\ queue[i].action = "propose" /\ queue[i].sid = sid
                                  /\ \A j \in DOMAIN queue : queue[j].sid = sid => i <= j
    BY <1>6 DEF Link, Announced
  <2>2. i # 1
    BY <1>1, <1>6, <2>1 DEF head
  <2>3. i - 1 \in DOMAIN rest /\ rest[i - 1] = queue[i]
    <3>1. i - 1 \in DOMAIN rest /\ i \in Nat
      BY <1>1, <2>2
    <3>2. rest[i - 1] = queue[(i - 1) + 1] /\ (i - 1) + 1 = i
      BY <1>1, <3>1
    <3> QED BY <3>1, <3>2
  <2>4. ASSUME NEW j \in DOMAIN rest, rest[j].sid = sid PROVE i - 1 <= j
    <3>1. i <= j + 1
      BY <1>1, <2>1, <2>4
    <3>2. i \in Nat /\ j \in Nat
      BY <1>1
    <3> QED BY <3>1, <3>2
  <2> QED BY <2>1, <2>3, <2>4 DEF Announced
<1> QED BY <1>1, <1>2, <1>4, <1>5, <1>6 DEF Link, rest

\* And one in which it only opens what is its own to open.
LEMMA LinkHears ==
    ASSUME NEW queue, NEW kinds, NEW begun, NEW heard, NEW heardNext, NEW own, NEW theirs,
           Link(queue, kinds, begun, heard, own, theirs), heard \subseteq heardNext,
           \A o \in heardNext \ heard : ~OpenedBy(own, theirs, o)
    PROVE  Link(queue, kinds, begun, heardNext, own, theirs)
<1>1. \A o \in heardNext : OpenedBy(own, theirs, o) => o \in heard
  OBVIOUS
<1>2. \A o \in heardNext : OpenedBy(own, theirs, o) => o \in begun
  BY <1>1 DEF Link
<1>3. OpensNew(queue, heardNext)
  <2>1. \A i \in DOMAIN queue : queue[i].action \in Openers =>
           /\ OpenedBy(own, theirs, <<queue[i].sid, queue[i].action>>)
           /\ <<queue[i].sid, queue[i].action>> \notin heard
    BY OpenersAreOwn DEF Link, OpensNew
  <2> QED BY <1>1, <2>1 DEF Link, OpensNew
<1> QED BY <1>2, <1>3 DEF Link

\* What arrives next suits what the receiver has heard of: the proposal of a call comes
\* first and once, and so does what opens its session.
LEMMA HeadFits ==
    ASSUME NEW queue, NEW kinds, NEW begun, NEW heard, NEW own, NEW theirs,
           Link(queue, kinds, begun, heard, own, theirs), queue # <<>>,
           \A o \in begun : OpenedBy(theirs, own, o) => o \in heard
    PROVE  LET head == Head(queue)
               Heard(action) == <<head.sid, action>> \in heard
           IN  /\ SaidInRole(head, begun, own, theirs)
               /\ head.action \in Openers => ~Heard(head.action)
               /\ head.action # "propose" => Heard("propose")
               /\ head.action \in {"session-accept", "transport-info"} /\ head.sid \in theirs =>
                     Heard("session-initiate")
<1> DEFINE head == Head(queue)
<1>1. head = queue[1] /\ 1 \in DOMAIN queue /\ \A i \in DOMAIN queue : i \in Nat /\ i >= 1
  <2>1. queue \in Seq(kinds)
    BY DEF Link
  <2> QED BY <2>1
<1> HIDE DEF head
<1>2. SaidInRole(head, begun, own, theirs)
  BY <1>1 DEF Link
<1>3. head.action \in Openers => <<head.sid, head.action>> \notin heard
  BY <1>1 DEF Link, OpensNew
<1>4. ASSUME NEW action, OpenedBy(theirs, own, <<head.sid, action>>), <<head.sid, action>> \in begun
      PROVE  <<head.sid, action>> \in heard
  BY <1>4
<1>5. ASSUME head.action # "propose" PROVE <<head.sid, "propose">> \in heard
  <2>1. <<head.sid, "propose">> \in begun /\ head.sid \in own \cup theirs
    BY <1>2 DEF SaidInRole
  <2>2. CASE head.sid \in theirs
    <3>1. OpenedBy(theirs, own, <<head.sid, "propose">>)
      BY <2>2 DEF OpenedBy
    <3> QED BY <1>4, <2>1, <3>1
  <2>3. CASE head.sid \in own /\ Announced(queue, head.sid)
    <3>1. PICK i \in DOMAIN queue :
             /\ queue[i].action = "propose"
             /\ \A j \in DOMAIN queue : queue[j].sid = head.sid => i <= j
      BY <2>3 DEF Announced
    <3>2. i <= 1
      BY <1>1, <3>1
    <3>3. i \in Nat /\ i >= 1
      BY <1>1
    <3> QED BY <1>1, <1>5, <3>1, <3>2, <3>3
  <2> QED BY <2>1, <2>2, <2>3 DEF Link
<1>6. ASSUME head.action \in {"session-accept", "transport-info"}, head.sid \in theirs
      PROVE  <<head.sid, "session-initiate">> \in heard
  <2>1. <<head.sid, "session-initiate">> \in begun
    BY <1>2, <1>6 DEF SaidInRole
  <2>2. OpenedBy(theirs, own, <<head.sid, "session-initiate">>)
    BY <1>6 DEF OpenedBy
  <2> QED BY <1>4, <2>1, <2>2
<1> QED BY <1>2, <1>3, <1>5, <1>6 DEF head

-----------------------------------------------------------------------------
(* What the two sides have of a call: `alive` holds the session id of a    *)
(* live call set up in JMI, `straight` that of one that rang for a session *)
(* alone, `asking` that of an own call that is not answered yet, `given`   *)
(* that of a live call whose other description has come, `answered` all    *)
(* those an engine was given one for.                                      *)

Endings == {"reject", "retract", "finish", "session-terminate"}
SessionActions == {"session-initiate", "session-accept"}
TalkActions == {"propose", "proceed"} \cup SessionActions

Bears(stanza, actions, sid) == stanza.action \in actions /\ stanza.sid = sid
Carries(queue, actions, sid) == \E i \in DOMAIN queue : Bears(queue[i], actions, sid)

\* One live call, of a known side; an own session is offered when the other end
\* proceeded, and it proceeds with what was proposed.
Sound(X, own, theirs) ==
    /\ \A sid \in X.alive \cup X.straight : <<sid, "propose">> \in X.begun
    /\ X.alive \subseteq own \cup theirs /\ X.straight \subseteq theirs
    /\ X.asking \subseteq X.alive \cap own
    /\ X.alive \cap X.straight = {} /\ X.given \subseteq X.alive \cup X.straight
    /\ \A s, t \in X.alive \cup X.straight : s = t
    /\ \A sid \in own :
          <<sid, "session-initiate">> \in X.begun => <<sid, "proceed">> \in X.begun
    /\ \A sid \in theirs : <<sid, "proceed">> \in X.begun => <<sid, "propose">> \in X.begun

\* A call that X has left, or never got to have, and Y has or may come to have, ends at
\* Y with what is on its way.
LossIsTold(queue, X, Y) ==
    \A sid : /\ <<sid, "propose">> \in X.begun /\ sid \notin X.alive
             /\ sid \in Y.alive \/ <<sid, "propose">> \notin Y.begun
             => Carries(queue, Endings, sid)

\* What X has ended it does not have.
EndsAreFinal(queue, X) == \A sid \in X.alive : ~Carries(queue, Endings, sid)

\* A call that Y has and does not wait to be answered, or was given a description for.
Held(Y) == Y.given \cup (Y.alive \ Y.asking)

\* Y does not wait for an answer that was given and is not on its way.
AnswerIsComing(queue, X, Y) ==
    \A sid \in Y.asking : <<sid, "proceed">> \in X.begun => Carries(queue, {"proceed"}, sid)

\* What X says of other calls comes before the one it places.
CallComesLast(queue, X, own) ==
    \A sid \in own \cap X.alive : \A j \in DOMAIN queue :
        queue[j].action \in TalkActions /\ queue[j].sid # sid =>
            \E i \in DOMAIN queue : i > j /\ Bears(queue[i], {"propose"}, sid)

\* Y has no other call while X has one that Y accepted,
NoOtherGiven(X, Y, own) ==
    \A sid \in own \cap X.alive : <<sid, "proceed">> \in Y.begun => Held(Y) \subseteq {sid}

\* nor is another offered to it when it has one,
NoOtherOffer(queue, Y) ==
    \A sid \in Held(Y) : \A j \in DOMAIN queue :
        queue[j].action = "session-initiate" => queue[j].sid = sid

\* or will have.
OffersAreSingle(queue) ==
    \A i, j \in DOMAIN queue :
        i < j /\ queue[i].action \in TalkActions /\ queue[j].action = "session-initiate" =>
            queue[i].sid = queue[j].sid

\* A session that rang at X when X had left the call ends at Y before it is accepted.
BelatedIsLost(queue, X, Y) ==
    \A sid \in X.straight \cap Y.alive :
        /\ sid \notin Y.answered
        /\ \A j \in DOMAIN queue : Bears(queue[j], {"session-accept"}, sid) =>
              \E i \in DOMAIN queue : i < j /\ Bears(queue[i], Endings, sid)

\* Y was given descriptions for own sessions that X knows of.
AnswersWereOffered(X, Y, theirs) ==
    \A sid \in theirs \cap Y.answered : <<sid, "session-initiate">> \in X.begun

Accord(queue, X, Y, own, theirs) ==
    /\ LossIsTold(queue, X, Y) /\ EndsAreFinal(queue, X) /\ AnswerIsComing(queue, X, Y)
    /\ CallComesLast(queue, X, own) /\ NoOtherGiven(X, Y, own) /\ NoOtherOffer(queue, Y)
    /\ OffersAreSingle(queue) /\ BelatedIsLost(queue, X, Y)
    /\ AnswersWereOffered(X, Y, theirs)

\* What a step may do that takes the stanza `head`, or none: X is the client before it,
\* Y the same client after it.
Moves(X, Y, words, head, own, theirs) ==
    /\ \A i \in DOMAIN words :
          /\ words[i].action \in Endings => words[i].sid \notin Y.alive
          /\ words[i].action \in TalkActions => words[i].sid \in Y.alive \cup Y.straight
    /\ \A sid : <<sid, "propose">> \in Y.begun \ X.begun =>
          sid \in Y.alive \/ Carries(words, Endings, sid)
    /\ \A sid \in theirs : <<sid, "proceed">> \in Y.begun \ X.begun =>
          sid \in Y.alive /\ Carries(words, {"proceed"}, sid)
    /\ \A sid \in Y.alive : sid \in X.alive \/ <<sid, "propose">> \notin X.begun
    /\ \A sid \in X.alive :
          sid \in Y.alive \/ Carries(words, Endings, sid) \/ Bears(head, Endings, sid)
    /\ \A sid \in Y.asking : sid \in X.asking \/ <<sid, "propose">> \notin X.begun
    /\ \A sid \in Y.alive \ Y.asking :
          \/ sid \in X.alive \ X.asking
          \/ sid \in X.asking /\ Bears(head, {"proceed"}, sid)
          \/ Bears(head, {"propose"}, sid)
    /\ \A sid \in Y.straight :
          \/ sid \in X.straight
          \/ Bears(head, {"session-initiate"}, sid) /\ sid \notin X.alive
    /\ \A sid \in Y.given : sid \in X.given \/ Bears(head, SessionActions, sid)
    /\ \A sid \in own \cap Y.answered :
          sid \in X.answered \/ Bears(head, {"session-accept"}, sid)
    /\ head.action \in Endings => head.sid \notin Y.alive
    /\ head.action = "proceed" => head.sid \notin Y.asking

\* Where what was said before, and what is said now, stand among all of it.
LEMMA Appended ==
    ASSUME NEW kinds, NEW queue \in Seq(kinds), NEW words \in Seq(kinds)
    PROVE  LET all == queue \o words
               n == Len(queue)
           IN  /\ all \in Seq(kinds)
               /\ \A i \in DOMAIN queue : i \in DOMAIN all /\ all[i] = queue[i]
               /\ \A i \in DOMAIN words : n + i \in DOMAIN all /\ all[n + i] = words[i]
               /\ \A i \in DOMAIN all :
                     \/ i \in DOMAIN queue /\ all[i] = queue[i]
                     \/ i - n \in DOMAIN words /\ all[i] = words[i - n]
               /\ \A i \in DOMAIN queue, j \in DOMAIN words : i \in Nat /\ i < n + j
               /\ \A i \in DOMAIN all : i \in Nat /\ (i \in DOMAIN queue <=> i <= n)
               /\ n \in Nat
<1> DEFINE all == queue \o words
           n == Len(queue)
<1>1. /\ n \in Nat /\ Len(words) \in Nat
      /\ DOMAIN queue = 1..n /\ DOMAIN words = 1..Len(words)
  OBVIOUS
<1>2. /\ all \in Seq(kinds) /\ DOMAIN all = 1..n + Len(words)
      /\ \A i \in 1..n + Len(words) : all[i] = IF i <= n THEN queue[i] ELSE words[i - n]
  <2>1. all \in Seq(kinds) /\ Len(all) = n + Len(words)
    BY ConcatProperties
  <2>2. \A i \in 1..n + Len(words) : all[i] = IF i <= n THEN queue[i] ELSE words[i - n]
    BY ConcatProperties
  <2> HIDE DEF all, n
  <2> QED BY <1>1, <2>1, <2>2
<1> HIDE DEF all, n
<1>3. \A i \in DOMAIN queue : i \in DOMAIN all /\ all[i] = queue[i]
  BY <1>1, <1>2
<1>4. ASSUME NEW i \in DOMAIN words PROVE n + i \in DOMAIN all /\ all[n + i] = words[i]
  <2>1. i \in Nat /\ i >= 1 /\ i <= Len(words)
    BY <1>1
  <2>2. n + i \in 1..n + Len(words) /\ ~(n + i <= n) /\ (n + i) - n = i
    BY <1>1, <2>1
  <2> QED BY <1>2, <2>2
<1>5. ASSUME NEW i \in DOMAIN all
      PROVE  \/ i \in DOMAIN queue /\ all[i] = queue[i]
             \/ i - n \in DOMAIN words /\ all[i] = words[i - n]
  BY <1>1, <1>2
<1>6. \A i \in DOMAIN queue, j \in DOMAIN words : i \in Nat /\ i < n + j
  BY <1>1
<1>7. \A i \in DOMAIN all : i \in Nat /\ (i \in DOMAIN queue <=> i <= n)
  BY <1>1, <1>2
<1> QED BY <1>1, <1>2, <1>3, <1>4, <1>5, <1>6, <1>7 DEF all, n

\* What is carried stays so when more is sent.
LEMMA CarriesMore ==
    ASSUME NEW kinds, NEW queue \in Seq(kinds), NEW words \in Seq(kinds), NEW actions, NEW sid
    PROVE  Carries(queue \o words, actions, sid)
              <=> Carries(queue, actions, sid) \/ Carries(words, actions, sid)
<1> DEFINE all == queue \o words
           n == Len(queue)
<1>1. /\ \A i \in DOMAIN queue : i \in DOMAIN all /\ all[i] = queue[i]
      /\ \A i \in DOMAIN words : n + i \in DOMAIN all /\ all[n + i] = words[i]
      /\ \A i \in DOMAIN all : \/ i \in DOMAIN queue /\ all[i] = queue[i]
                               \/ i - n \in DOMAIN words /\ all[i] = words[i - n]
  BY Appended
<1> HIDE DEF all, n
<1>2. Carries(all, actions, sid) <=> Carries(queue, actions, sid) \/ Carries(words, actions, sid)
  BY <1>1 DEF Carries
<1> QED BY <1>2 DEF all

\* A step of X that says these words keeps the accord.
LEMMA AccordSends ==
    ASSUME NEW queue, NEW kinds, NEW own, NEW theirs, own \cap theirs = {},
           NEW X, NEW Xn, NEW Y, NEW words, NEW head,
           Sound(X, own, theirs), Sound(Xn, own, theirs), Sound(Y, theirs, own),
           Accord(queue, X, Y, own, theirs),
           Link(queue, kinds, X.begun, Y.begun, own, theirs),
           Link(queue \o words, kinds, Xn.begun, Y.begun, own, theirs),
           Said(words, kinds, X.begun, Xn.begun, own, theirs),
           Moves(X, Xn, words, head, own, theirs),
           \A o \in Xn.begun : OpenedBy(theirs, own, o) => o \in Y.begun,
           head.action \in Endings =>
               head.sid \notin Y.alive /\ <<head.sid, "propose">> \in Y.begun,
           head.action = "session-initiate" =>
               /\ head.sid \in theirs /\ <<head.sid, "propose">> \in X.begun
               /\ <<head.sid, "session-initiate">> \notin X.begun
    PROVE  Accord(queue \o words, Xn, Y, own, theirs)
<1> DEFINE all == queue \o words
           n == Len(queue)
<1>1. /\ queue \in Seq(kinds) /\ words \in Seq(kinds) /\ X.begun \subseteq Xn.begun
      /\ \A i \in DOMAIN queue : SaidInRole(queue[i], X.begun, own, theirs)
      /\ \A i \in DOMAIN words : SaidInRole(words[i], Xn.begun, own, theirs)
      /\ OpensNew(all, Y.begun)
      /\ \A sid \in own : <<sid, "propose">> \in Xn.begun \ X.begun => Announced(words, sid)
  BY DEF Link, Said
<1>2. /\ \A i \in DOMAIN queue : i \in DOMAIN all /\ all[i] = queue[i]
      /\ \A i \in DOMAIN words : n + i \in DOMAIN all /\ all[n + i] = words[i]
      /\ \A i \in DOMAIN all : \/ i \in DOMAIN queue /\ all[i] = queue[i]
                               \/ i - n \in DOMAIN words /\ all[i] = words[i - n]
      /\ \A i \in DOMAIN queue, j \in DOMAIN words : i \in Nat /\ i < n + j
      /\ \A i \in DOMAIN all : i \in Nat /\ (i \in DOMAIN queue <=> i <= n)
      /\ n \in Nat
  BY <1>1, Appended
<1>3. \A actions, sid : Carries(all, actions, sid)
                          <=> Carries(queue, actions, sid) \/ Carries(words, actions, sid)
  BY <1>1, CarriesMore
<1> HIDE DEF all, n
\* What Y has heard of an own call of X's was begun by X.
<1>4. ASSUME NEW sid \in own, <<sid, "proceed">> \in Y.begun
      PROVE  <<sid, "propose">> \in Y.begun /\ <<sid, "propose">> \in X.begun
  <2>1. <<sid, "propose">> \in Y.begun
    BY <1>4 DEF Sound
  <2>2. OpenedBy(own, theirs, <<sid, "propose">>)
    BY DEF OpenedBy
  <2> QED BY <2>1, <2>2 DEF Link
<1>5. LossIsTold(all, Xn, Y)
  <2> SUFFICES ASSUME NEW sid, <<sid, "propose">> \in Xn.begun, sid \notin Xn.alive,
                      sid \in Y.alive \/ <<sid, "propose">> \notin Y.begun
               PROVE  Carries(all, Endings, sid)
    BY DEF LossIsTold
  <2>1. CASE <<sid, "propose">> \notin X.begun
    BY <1>3, <2>1 DEF Moves
  <2>2. CASE <<sid, "propose">> \in X.begun /\ sid \notin X.alive
    BY <1>3, <2>2 DEF Accord, LossIsTold
  <2>3. CASE sid \in X.alive
    BY <1>3, <2>3 DEF Moves, Bears
  <2> QED BY <2>1, <2>2, <2>3
<1>6. EndsAreFinal(all, Xn)
  <2> SUFFICES ASSUME NEW sid \in Xn.alive, Carries(all, Endings, sid) PROVE FALSE
    BY DEF EndsAreFinal
  <2>1. CASE Carries(words, Endings, sid)
    BY <2>1 DEF Carries, Bears, Moves
  <2>2. CASE Carries(queue, Endings, sid)
    <3>1. <<sid, "propose">> \in X.begun
      BY <1>1, <2>2 DEF Carries, Bears, SaidInRole
    <3>2. sid \in X.alive
      BY <3>1 DEF Moves
    <3> QED BY <2>2, <3>2 DEF Accord, EndsAreFinal
  <2> QED BY <1>3, <2>1, <2>2
<1>7. AnswerIsComing(all, Xn, Y)
  <2> SUFFICES ASSUME NEW sid \in Y.asking, <<sid, "proceed">> \in Xn.begun
               PROVE  Carries(all, {"proceed"}, sid)
    BY DEF AnswerIsComing
  <2>1. sid \in theirs
    BY DEF Sound
  <2>2. CASE <<sid, "proceed">> \in X.begun
    BY <1>3, <2>2 DEF Accord, AnswerIsComing
  <2>3. CASE <<sid, "proceed">> \notin X.begun
    BY <1>3, <2>1, <2>3 DEF Moves
  <2> QED BY <2>2, <2>3
<1>8. CallComesLast(all, Xn, own)
  <2> SUFFICES ASSUME NEW sid \in own \cap Xn.alive, NEW j \in DOMAIN all,
                      all[j].action \in TalkActions, all[j].sid # sid
               PROVE  \E i \in DOMAIN all : i > j /\ Bears(all[i], {"propose"}, sid)
    BY DEF CallComesLast
  <2>1. j \in DOMAIN queue /\ all[j] = queue[j]
    <3> SUFFICES ASSUME j - n \in DOMAIN words, all[j] = words[j - n] PROVE FALSE
      BY <1>2
    <3>1. all[j].sid \in Xn.alive \cup Xn.straight
      BY DEF Moves
    <3> QED BY <3>1 DEF Sound
  <2>2. CASE sid \in X.alive
    <3>1. PICK i \in DOMAIN queue : i > j /\ Bears(queue[i], {"propose"}, sid)
      BY <2>1, <2>2 DEF Accord, CallComesLast
    <3> QED BY <1>2, <3>1
  <2>3. CASE sid \notin X.alive
    <3>1. <<sid, "propose">> \in Xn.begun \ X.begun
      BY <2>3 DEF Moves, Sound
    <3>2. PICK i \in DOMAIN words : words[i].action = "propose" /\ words[i].sid = sid
      BY <1>1, <3>1 DEF Announced
    <3>3. n + i \in DOMAIN all /\ all[n + i] = words[i] /\ j < n + i /\ j \in Nat /\ n + i \in Nat
      BY <1>2, <2>1, <3>2
    <3> QED BY <3>2, <3>3 DEF Bears
  <2> QED BY <2>2, <2>3
<1>9. NoOtherGiven(Xn, Y, own)
  <2> SUFFICES ASSUME NEW sid \in own \cap Xn.alive, <<sid, "proceed">> \in Y.begun
               PROVE  Held(Y) \subseteq {sid}
    BY DEF NoOtherGiven
  <2>1. sid \in X.alive
    BY <1>4 DEF Moves
  <2> QED BY <2>1 DEF Accord, NoOtherGiven
\* A session that X offers is of its live call, and Y proceeded with it.
<1>10. ASSUME NEW i \in DOMAIN words, words[i].action = "session-initiate"
       PROVE  /\ words[i].sid \in own \cap Xn.alive /\ <<words[i].sid, "proceed">> \in Y.begun
  <2>1. words[i].sid \in own /\ <<words[i].sid, "session-initiate">> \in Xn.begun
    BY <1>1, <1>10 DEF SaidInRole, Openers
  <2>2. words[i].sid \in Xn.alive
    BY <1>10, <2>1 DEF Moves, Sound, TalkActions, SessionActions
  <2>3. <<words[i].sid, "proceed">> \in Xn.begun
    BY <2>1 DEF Sound
  <2>4. OpenedBy(theirs, own, <<words[i].sid, "proceed">>)
    BY <2>1 DEF OpenedBy
  <2> QED BY <2>1, <2>2, <2>3, <2>4
<1>11. NoOtherOffer(all, Y)
  <2> SUFFICES ASSUME NEW sid \in Held(Y), NEW j \in DOMAIN all,
                      all[j].action = "session-initiate"
               PROVE  all[j].sid = sid
    BY DEF NoOtherOffer
  <2>1. CASE j \in DOMAIN queue /\ all[j] = queue[j]
    BY <2>1 DEF Accord, NoOtherOffer
  <2>2. CASE j - n \in DOMAIN words /\ all[j] = words[j - n]
    BY <1>9, <1>10, <2>2 DEF NoOtherGiven
  <2> QED BY <1>2, <2>1, <2>2
<1>12. OffersAreSingle(all)
  <2> SUFFICES ASSUME NEW i \in DOMAIN all, NEW j \in DOMAIN all, i < j,
                      all[i].action \in TalkActions, all[j].action = "session-initiate",
                      all[i].sid # all[j].sid
               PROVE  FALSE
    BY DEF OffersAreSingle
  <2>1. CASE j \in DOMAIN queue /\ all[j] = queue[j]
    <3>1. i \in DOMAIN queue /\ all[i] = queue[i]
      BY <1>2, <2>1
    <3> QED BY <2>1, <3>1 DEF Accord, OffersAreSingle
  <2>2. CASE j - n \in DOMAIN words /\ all[j] = words[j - n]
    <3> DEFINE sid == all[j].sid
    <3>1. sid \in own \cap Xn.alive /\ <<sid, "propose">> \in Y.begun
      BY <1>4, <1>10, <2>2
    <3>2. PICK k \in DOMAIN all : Bears(all[k], {"propose"}, sid)
      BY <1>8, <3>1 DEF CallComesLast
    <3>3. <<sid, "propose">> \notin Y.begun
      BY <1>1, <3>2 DEF OpensNew, Bears, Openers
    <3> QED BY <3>1, <3>3
  <2> QED BY <1>2, <2>1, <2>2
<1>13. BelatedIsLost(all, Xn, Y)
  <2> SUFFICES ASSUME NEW sid \in Xn.straight \cap Y.alive
               PROVE  /\ sid \notin Y.answered
                      /\ \A j \in DOMAIN all : Bears(all[j], {"session-accept"}, sid) =>
                            \E i \in DOMAIN all : i < j /\ Bears(all[i], Endings, sid)
    BY DEF BelatedIsLost
  <2>1. /\ sid \notin X.alive /\ <<sid, "propose">> \in X.begun /\ sid \in theirs
    BY DEF Moves, Sound, Bears
  <2>2. PICK e \in DOMAIN queue : Bears(queue[e], Endings, sid)
    BY <2>1 DEF Accord, LossIsTold, Carries
  <2>3. /\ sid \notin Y.answered
        /\ \A j \in DOMAIN queue : Bears(queue[j], {"session-accept"}, sid) =>
              \E i \in DOMAIN queue : i < j /\ Bears(queue[i], Endings, sid)
    <3>1. CASE sid \in X.straight
      BY <3>1 DEF Accord, BelatedIsLost
    <3>2. CASE sid \notin X.straight
      <4>1. <<sid, "session-initiate">> \notin X.begun
        BY <3>2 DEF Moves, Bears
      <4>2. sid \notin Y.answered
        BY <2>1, <4>1 DEF Accord, AnswersWereOffered
      <4>3. \A j \in DOMAIN queue : ~Bears(queue[j], {"session-accept"}, sid)
        BY <1>1, <2>1, <4>1 DEF SaidInRole, Bears
      <4> QED BY <4>2, <4>3
    <3> QED BY <3>1, <3>2
  <2>4. ASSUME NEW j \in DOMAIN all, Bears(all[j], {"session-accept"}, sid)
        PROVE  \E i \in DOMAIN all : i < j /\ Bears(all[i], Endings, sid)
    <3>1. CASE j \in DOMAIN queue /\ all[j] = queue[j]
      <4>1. PICK i \in DOMAIN queue : i < j /\ Bears(queue[i], Endings, sid)
        BY <2>3, <2>4, <3>1
      <4> QED BY <1>2, <4>1
    <3>2. CASE j - n \in DOMAIN words /\ all[j] = words[j - n]
      <4>1. e < n + (j - n) /\ n + (j - n) = j
        BY <1>2, <3>2
      <4> QED BY <1>2, <2>2, <4>1
    <3> QED BY <1>2, <3>1, <3>2
  <2> QED BY <2>3, <2>4
<1>14. AnswersWereOffered(Xn, Y, theirs)
  BY <1>1 DEF Accord, AnswersWereOffered
<1> QED BY <1>5, <1>6, <1>7, <1>8, <1>9, <1>11, <1>12, <1>13, <1>14 DEF Accord, all


\* A step of Y that takes what is next on its way, or (d = 0) nothing, keeps the accord.
LEMMA AccordHears ==
    ASSUME NEW queue, NEW kinds, NEW own, NEW theirs, own \cap theirs = {},
           NEW X, NEW Y, NEW Yn, NEW words, NEW head,
           Sound(X, own, theirs), Sound(Y, theirs, own), Sound(Yn, theirs, own),
           Accord(queue, X, Y, own, theirs),
           Link(queue, kinds, X.begun, Y.begun, own, theirs),
           Moves(Y, Yn, words, head, theirs, own), Y.begun \subseteq Yn.begun,
           \A o \in X.begun : OpenedBy(theirs, own, o) => o \in Y.begun,
           NEW rest, NEW d \in {0, 1},
           DOMAIN queue \subseteq Nat \ {0}, DOMAIN rest \subseteq Nat \ {0},
           \A i \in DOMAIN queue : i > d => i - d \in DOMAIN rest /\ rest[i - d] = queue[i],
           \A i \in DOMAIN rest : i + d \in DOMAIN queue /\ queue[i + d] = rest[i],
           IF d = 0 THEN head.action = "none"
           ELSE 1 \in DOMAIN queue /\ head = queue[1]
                /\ (head.action # "propose" => <<head.sid, "propose">> \in Y.begun)
    PROVE  Accord(rest, X, Yn, own, theirs)
<1>1. ASSUME NEW actions, actions \subseteq WireActions, NEW sid, Bears(head, actions, sid)
      PROVE  d = 1 /\ 1 \in DOMAIN queue /\ Bears(queue[1], actions, sid)
  BY <1>1 DEF Bears, WireActions
<1>2. /\ Endings \subseteq WireActions /\ TalkActions \subseteq WireActions
      /\ {"session-accept"} \subseteq WireActions
  BY DEF Endings, TalkActions, SessionActions, WireActions
\* What was carried still is, or has come.
<1>3. ASSUME NEW actions, NEW sid, Carries(queue, actions, sid)
      PROVE  Carries(rest, actions, sid) \/ Bears(head, actions, sid)
  <2>1. PICK i \in DOMAIN queue : Bears(queue[i], actions, sid)
    BY <1>3 DEF Carries
  <2>2. CASE i > d
    BY <2>1, <2>2 DEF Carries
  <2>3. CASE ~(i > d)
    <3>1. i = 1 /\ d = 1
      BY <2>3
    <3> QED BY <2>1, <3>1
  <2> QED BY <2>2, <2>3
<1>4. ASSUME NEW sid \in theirs, <<sid, "propose">> \in X.begun
      PROVE  <<sid, "propose">> \in Y.begun
  <2>1. OpenedBy(theirs, own, <<sid, "propose">>)
    BY DEF OpenedBy
  <2> QED BY <1>4, <2>1
<1>5. LossIsTold(rest, X, Yn)
  <2> SUFFICES ASSUME NEW sid, <<sid, "propose">> \in X.begun, sid \notin X.alive,
                      sid \in Yn.alive \/ <<sid, "propose">> \notin Yn.begun
               PROVE  Carries(rest, Endings, sid)
    BY DEF LossIsTold
  <2>1. sid \in Y.alive \/ <<sid, "propose">> \notin Y.begun
    BY DEF Moves
  <2>2. Carries(queue, Endings, sid)
    BY <2>1 DEF Accord, LossIsTold
  <2>3. ~Bears(head, Endings, sid)
    <3> SUFFICES ASSUME Bears(head, Endings, sid) PROVE FALSE
      OBVIOUS
    <3>1. sid \notin Yn.alive
      BY DEF Bears, Moves
    <3>2. head.action # "propose" /\ d = 1 /\ head.sid = sid
      BY <1>1, <1>2 DEF Bears, Endings
    <3> QED BY <3>1, <3>2
  <2> QED BY <1>3, <2>2, <2>3
<1>6. EndsAreFinal(rest, X)
  BY DEF Accord, EndsAreFinal, Carries
<1>7. AnswerIsComing(rest, X, Yn)
  <2> SUFFICES ASSUME NEW sid \in Yn.asking, <<sid, "proceed">> \in X.begun
               PROVE  Carries(rest, {"proceed"}, sid)
    BY DEF AnswerIsComing
  <2>1. sid \in theirs /\ <<sid, "propose">> \in X.begun
    BY DEF Sound
  <2>2. sid \in Y.asking
    BY <1>4, <2>1 DEF Moves
  <2>3. Carries(queue, {"proceed"}, sid)
    BY <2>2 DEF Accord, AnswerIsComing
  <2>4. ~Bears(head, {"proceed"}, sid)
    BY DEF Bears, Moves
  <2> QED BY <1>3, <2>3, <2>4
<1>8. CallComesLast(rest, X, own)
  <2> SUFFICES ASSUME NEW sid \in own \cap X.alive, NEW j \in DOMAIN rest,
                      rest[j].action \in TalkActions, rest[j].sid # sid
               PROVE  \E i \in DOMAIN rest : i > j /\ Bears(rest[i], {"propose"}, sid)
    BY DEF CallComesLast
  <2>1. j + d \in DOMAIN queue /\ queue[j + d] = rest[j]
    OBVIOUS
  <2>2. PICK i \in DOMAIN queue : i > j + d /\ Bears(queue[i], {"propose"}, sid)
    BY <2>1 DEF Accord, CallComesLast
  <2>3. i > d /\ i - d > j
    BY <2>2
  <2> QED BY <2>2, <2>3
\* What Y has that it had not came with what it took.
<1>0. ASSUME NEW t \in Held(Yn), t \notin Held(Y) PROVE Bears(head, TalkActions, t)
  <2>1. CASE t \in Yn.given
    BY <1>0, <2>1 DEF Moves, Held, Bears, TalkActions
  <2>2. CASE t \in Yn.alive \ Yn.asking
    BY <1>0, <2>2 DEF Moves, Held, Bears, TalkActions
  <2> QED BY <1>0, <2>1, <2>2 DEF Held
<1>9. NoOtherGiven(X, Yn, own)
  <2> SUFFICES ASSUME NEW sid \in own \cap X.alive, <<sid, "proceed">> \in Yn.begun,
                      NEW t \in Held(Yn)
               PROVE  t = sid
    BY DEF NoOtherGiven
  <2>1. CASE <<sid, "proceed">> \notin Y.begun
    <3>1. sid \in Yn.alive
      BY <2>1 DEF Moves
    <3> QED BY <3>1 DEF Sound, Held
  <2>2. CASE <<sid, "proceed">> \in Y.begun /\ t \in Held(Y)
    BY <2>2 DEF Accord, NoOtherGiven
  <2>3. CASE <<sid, "proceed">> \in Y.begun /\ Bears(head, TalkActions, t) /\ t # sid
    <3>1. 1 \in DOMAIN queue /\ queue[1].action \in TalkActions /\ queue[1].sid = t
      BY <1>1, <1>2, <2>3 DEF Bears
    <3>2. PICK i \in DOMAIN queue : i > 1 /\ Bears(queue[i], {"propose"}, sid)
      BY <2>3, <3>1 DEF Accord, CallComesLast
    <3>3. <<sid, "propose">> \notin Y.begun
      BY <3>2 DEF Link, OpensNew, Bears, Openers
    <3>4. <<sid, "propose">> \in Y.begun
      BY <2>3 DEF Sound
    <3> QED BY <3>3, <3>4
  <2> QED BY <1>0, <2>1, <2>2, <2>3
<1>10. NoOtherOffer(rest, Yn)
  <2> SUFFICES ASSUME NEW sid \in Held(Yn), NEW j \in DOMAIN rest,
                      rest[j].action = "session-initiate"
               PROVE  rest[j].sid = sid
    BY DEF NoOtherOffer
  <2>1. j + d \in DOMAIN queue /\ queue[j + d] = rest[j]
    OBVIOUS
  <2>2. CASE sid \in Held(Y)
    BY <2>1, <2>2 DEF Accord, NoOtherOffer
  <2>3. CASE Bears(head, TalkActions, sid)
    <3>1. d = 1 /\ 1 \in DOMAIN queue /\ queue[1].action \in TalkActions /\ queue[1].sid = sid
      BY <1>1, <1>2, <2>3 DEF Bears
    <3>2. 1 < j + d
      BY <3>1
    <3> QED BY <2>1, <3>1, <3>2 DEF Accord, OffersAreSingle
  <2> QED BY <1>0, <2>2, <2>3
<1>11. OffersAreSingle(rest)
  <2> SUFFICES ASSUME NEW i \in DOMAIN rest, NEW j \in DOMAIN rest, i < j,
                      rest[i].action \in TalkActions, rest[j].action = "session-initiate"
               PROVE  rest[i].sid = rest[j].sid
    BY DEF OffersAreSingle
  <2>1. /\ i + d \in DOMAIN queue /\ queue[i + d] = rest[i]
        /\ j + d \in DOMAIN queue /\ queue[j + d] = rest[j]
        /\ i + d < j + d
    OBVIOUS
  <2> QED BY <2>1 DEF Accord, OffersAreSingle
<1>12. BelatedIsLost(rest, X, Yn)
  <2> SUFFICES ASSUME NEW sid \in X.straight \cap Yn.alive
               PROVE  /\ sid \notin Yn.answered
                      /\ \A j \in DOMAIN rest : Bears(rest[j], {"session-accept"}, sid) =>
                            \E i \in DOMAIN rest : i < j /\ Bears(rest[i], Endings, sid)
    BY DEF BelatedIsLost
  <2>1. sid \in theirs /\ <<sid, "propose">> \in Y.begun
    BY <1>4 DEF Sound
  <2>2. sid \in Y.alive
    BY <2>1 DEF Moves
  <2>3. /\ sid \notin Y.answered
        /\ \A j \in DOMAIN queue : Bears(queue[j], {"session-accept"}, sid) =>
              \E i \in DOMAIN queue : i < j /\ Bears(queue[i], Endings, sid)
    BY <2>2 DEF Accord, BelatedIsLost
  <2>4. ~Bears(head, {"session-accept"}, sid)
    <3> SUFFICES ASSUME Bears(head, {"session-accept"}, sid) PROVE FALSE
      OBVIOUS
    <3>1. 1 \in DOMAIN queue /\ Bears(queue[1], {"session-accept"}, sid)
      BY <1>1, <1>2
    <3>2. PICK i \in DOMAIN queue : i < 1
      BY <2>3, <3>1
    <3> QED BY <3>2
  <2>5. sid \notin Yn.answered
    BY <2>1, <2>3, <2>4 DEF Moves
  <2>6. ASSUME NEW j \in DOMAIN rest, Bears(rest[j], {"session-accept"}, sid)
        PROVE  \E i \in DOMAIN rest : i < j /\ Bears(rest[i], Endings, sid)
    <3>1. j + d \in DOMAIN queue /\ Bears(queue[j + d], {"session-accept"}, sid)
      BY <2>6
    <3>2. PICK i \in DOMAIN queue : i < j + d /\ Bears(queue[i], Endings, sid)
      BY <2>3, <3>1
    <3>3. CASE i > d
      <4>1. i - d < j /\ i - d \in DOMAIN rest /\ rest[i - d] = queue[i]
        BY <3>2, <3>3
      <4> QED BY <3>2, <4>1
    <3>4. CASE ~(i > d)
      <4>1. i = 1 /\ d = 1
        BY <3>4
      <4>2. Bears(head, Endings, sid)
        BY <3>2, <4>1
      <4> QED BY <4>2 DEF Bears, Moves
    <3> QED BY <3>3, <3>4
  <2> QED BY <2>5, <2>6
<1>13. AnswersWereOffered(X, Yn, theirs)
  <2> SUFFICES ASSUME NEW sid \in theirs \cap Yn.answered
               PROVE  <<sid, "session-initiate">> \in X.begun
    BY DEF AnswersWereOffered
  <2>1. CASE sid \in Y.answered
    BY <2>1 DEF Accord, AnswersWereOffered
  <2>2. CASE Bears(head, {"session-accept"}, sid)
    <3>1. 1 \in DOMAIN queue /\ Bears(queue[1], {"session-accept"}, sid)
      BY <1>1, <1>2, <2>2
    <3>2. SaidInRole(queue[1], X.begun, own, theirs)
      BY <3>1 DEF Link
    <3> QED BY <3>1, <3>2 DEF SaidInRole, Bears
  <2> QED BY <2>1, <2>2 DEF Moves
<1> QED BY <1>5, <1>6, <1>7, <1>8, <1>9, <1>10, <1>11, <1>12, <1>13 DEF Accord

\* One end takes `head`, or nothing, and says these words: both ways keep the accord.
LEMMA AccordMoves ==
    ASSUME NEW own, NEW theirs, own \cap theirs = {}, NEW X, NEW Xn, NEW Y, NEW words, NEW head,
           Sound(X, own, theirs), Sound(Xn, own, theirs), Sound(Y, theirs, own),
           NEW out, NEW kinds, Accord(out, X, Y, own, theirs),
           Link(out, kinds, X.begun, Y.begun, own, theirs),
           Link(out \o words, kinds, Xn.begun, Y.begun, own, theirs),
           NEW in, NEW back, Accord(in, Y, X, theirs, own),
           Link(in, back, Y.begun, X.begun, theirs, own),
           NEW rest, Link(rest, back, Y.begun, Xn.begun, theirs, own),
           \/ rest = in /\ head.action = "none"
           \/ in # <<>> /\ head = Head(in) /\ rest = Tail(in),
           Said(words, kinds, X.begun, Xn.begun, own, theirs),
           Moves(X, Xn, words, head, own, theirs)
    PROVE  Accord(out \o words, Xn, Y, own, theirs) /\ Accord(rest, Y, Xn, theirs, own)
<1>1. /\ in \in Seq(back) /\ X.begun \subseteq Xn.begun
      /\ \A o \in Y.begun : OpenedBy(own, theirs, o) => o \in X.begun
      /\ \A o \in Xn.begun : OpenedBy(theirs, own, o) => o \in Y.begun
  BY DEF Link, Said
<1>2. ASSUME in # <<>>, head = Head(in)
      PROVE  /\ SaidInRole(head, Y.begun, theirs, own)
             /\ head.action \in Openers => <<head.sid, head.action>> \notin X.begun
             /\ head.action # "propose" => <<head.sid, "propose">> \in X.begun
             /\ 1 \in DOMAIN in /\ head = in[1]
  <2>1. 1 \in DOMAIN in /\ head = in[1]
    BY <1>1, <1>2
  <2>2. /\ SaidInRole(Head(in), Y.begun, theirs, own)
        /\ Head(in).action \in Openers => <<Head(in).sid, Head(in).action>> \notin X.begun
        /\ Head(in).action # "propose" => <<Head(in).sid, "propose">> \in X.begun
    BY <1>1, <1>2, HeadFits
  <2> QED BY <1>2, <2>1, <2>2
<1>3. /\ head.action \in Endings => head.sid \notin Y.alive /\ <<head.sid, "propose">> \in Y.begun
      /\ head.action = "session-initiate" =>
            /\ head.sid \in theirs /\ <<head.sid, "propose">> \in X.begun
            /\ <<head.sid, "session-initiate">> \notin X.begun
  <2>1. CASE head.action = "none"
    BY <2>1 DEF Endings
  <2>2. CASE in # <<>> /\ head = Head(in)
    <3>1. head.action \in Endings => head.sid \notin Y.alive
      BY <1>2, <2>2 DEF Accord, EndsAreFinal, Carries, Bears
    <3> QED BY <1>2, <2>2, <3>1 DEF SaidInRole, Openers
  <2> QED BY <2>1, <2>2
<1>4. Accord(out \o words, Xn, Y, own, theirs)
  BY <1>1, <1>3, AccordSends
<1>5. Accord(rest, Y, Xn, theirs, own)
  <2>1. CASE rest = in /\ head.action = "none"
    <3>1. /\ DOMAIN in \subseteq Nat \ {0} /\ 0 \in {0, 1}
          /\ \A i \in DOMAIN in : i - 0 = i /\ i + 0 = i
      BY <1>1
    <3> QED BY <1>1, <2>1, <3>1, AccordHears
  <2>2. CASE in # <<>> /\ head = Head(in) /\ rest = Tail(in)
    <3>1. /\ DOMAIN in \subseteq Nat \ {0} /\ DOMAIN rest \subseteq Nat \ {0} /\ 1 \in {0, 1}
          /\ \A i \in DOMAIN in : i > 1 => i - 1 \in DOMAIN rest /\ rest[i - 1] = in[i]
          /\ \A i \in DOMAIN rest : i + 1 \in DOMAIN in /\ in[i + 1] = rest[i]
      BY <1>1, <2>2, HeadTailProperties
    <3>2. IF 1 = 0 THEN head.action = "none"
          ELSE 1 \in DOMAIN in /\ head = in[1]
               /\ (head.action # "propose" => <<head.sid, "propose">> \in X.begun)
      BY <1>2, <2>2
    <3> QED BY <1>1, <3>1, <3>2, AccordHears
  <2> QED BY <2>1, <2>2
<1> QED BY <1>4, <1>5

-----------------------------------------------------------------------------
(* When nothing is on its way.                                             *)

\* A phase says what the side has of the call.
InPhase(phase, sid, X, own, theirs) ==
    LET Talks == phase \in {"negotiating", "connected"}
        Has(action) == <<sid, action>> \in X.begun
    IN
    /\ sid \in X.alive <=> phase \in {"proposing", "ringing"} \/ Talks
    /\ sid \in X.asking <=> phase = "proposing"
    /\ phase = "proposing" => sid \in own
    /\ phase = "ringing" => sid \in theirs /\ ~Has("proceed")
    /\ Talks => Has("proceed") \/ (sid \in theirs /\ Has("session-initiate"))

\* The one that placed the call, X, and the other are as far with it.
LEMMA EndsAgree ==
    ASSUME NEW own, NEW theirs, own \cap theirs = {}, NEW X, NEW Y,
           Sound(X, own, theirs), Sound(Y, theirs, own),
           Accord(<<>>, X, Y, own, theirs), Accord(<<>>, Y, X, theirs, own),
           NEW kinds, Link(<<>>, kinds, X.begun, Y.begun, own, theirs),
           NEW back, Link(<<>>, back, Y.begun, X.begun, theirs, own),
           NEW sid \in own, NEW p, NEW q,
           InPhase(p, sid, X, own, theirs), InPhase(q, sid, Y, theirs, own)
    PROVE  /\ p \in {"negotiating", "connected"} <=> q \in {"negotiating", "connected"}
           /\ p = "proposing" <=> q = "ringing"
           /\ p = "ringing" <=> q = "proposing"
<1> DEFINE Had(Z, action) == <<sid, action>> \in Z.begun
<1>1. \A actions, s : ~Carries(<<>>, actions, s) /\ ~Announced(<<>>, s)
  BY DEF Carries, Announced
<1>2. /\ OpenedBy(own, theirs, <<sid, "propose">>) /\ OpenedBy(theirs, own, <<sid, "proceed">>)
      /\ OpenedBy(own, theirs, <<sid, "session-initiate">>)
  BY DEF OpenedBy
<1>3. /\ Had(X, "propose") <=> Had(Y, "propose")
      /\ Had(X, "proceed") => Had(Y, "proceed")
      /\ Had(Y, "session-initiate") => Had(X, "session-initiate")
  BY <1>1, <1>2 DEF Link
<1>4. sid \in X.alive <=> sid \in Y.alive
  BY <1>1, <1>3 DEF Accord, LossIsTold, Sound
<1>5. Had(X, "session-initiate") => Had(X, "proceed")
  BY DEF Sound
<1>6. sid \in X.asking => ~Had(Y, "proceed")
  BY <1>1 DEF Accord, AnswerIsComing
<1> QED BY <1>3, <1>4, <1>5, <1>6 DEF InPhase
=============================================================================
