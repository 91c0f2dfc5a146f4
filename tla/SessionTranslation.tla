------------------------- MODULE SessionTranslation -------------------------
(***************************************************************************)
(* How a media description travels: webrtcbin writes SDP, sdp.py reads it  *)
(* into the plugin's model, protocol.py writes that as Jingle XML; at the  *)
(* peer protocol.py reads the XML and sdp.py writes SDP for its webrtcbin, *)
(* which then reads it.  Candidates that are found later follow one by one *)
(* in transport-info and are added to the section of their mid.            *)
(*                                                                         *)
(* An SDP text is the sequence of its lines, one record each, and XML a    *)
(* record; the members of a group, formats, parameters and candidates are tokens.     *)
(* Lines no parser here looks at are left out.                             *)
(***************************************************************************)
EXTENDS Naturals, Sequences, FiniteSets, SequencesExt

CONSTANTS
    Texts,          \* the SDP texts webrtcbin writes
    Trickled,       \* candidates found later
    OverTcp,        \* the candidates, of these or in texts, that use TCP
    MaxFound,       \* bound on those found in one run
    ForeignNames    \* content names other clients use for them

None == "none"
AnyPt == 0      \* the * of a=rtcp-fb:*
Actions == {"session-initiate", "session-accept"}

VARIABLES
    stage,        \* how far the description has come
    action,       \* the Jingle action that carries it
    written,      \* the SDP it began as
    description,  \* SessionDescription, at the sender and then at the peer
    jingle,       \* the XML on its way
    applied,      \* the SDP given to the peer's webrtcbin
    found,        \* the candidates found later, each with its mid
    queued,       \* those that came before it
    added         \* the candidates added there: m-line and candidate

vars == <<stage, action, written, description, jingle, applied, found, queued, added>>

-----------------------------------------------------------------------------
(* SDP lines.  `pt` is the payload type of the lines that have one.        *)

Line(kind, value) == [kind |-> kind, pt |-> AnyPt, value |-> value]
CodecLine(kind, pt, value) == [kind |-> kind, pt |-> pt, value |-> value]

NoFingerprint == [value |-> None, setup |-> "actpass"]
Codec(pt, format) == [pt |-> pt, format |-> format, parameters |-> "", feedback |-> <<>>]

-----------------------------------------------------------------------------
(* parse_sdp: one pass over the lines.  `p` is its local variables.        *)

NothingParsed ==
    [ufrag |-> "", pwd |-> "", fingerprint |-> NoFingerprint, setup |-> "actpass",
     direction |-> "sendrecv", bundle |-> "", media |-> <<>>]

NewSection(p, media) ==
    [media |-> media, mid |-> media, codecs |-> <<>>, wildcard |-> <<>>,
     ufrag |-> p.ufrag, pwd |-> p.pwd, fingerprint |-> p.fingerprint,
     candidates |-> <<>>, rtcpMux |-> FALSE, direction |-> p.direction]

InSession(p) == p.media = <<>>
Last_(p) == Len(p.media)
Target(p) == p.media[Last_(p)]

\* An attribute of the session before the first m= line, else of the section.
Assign(p, field, value) ==
    IF InSession(p) THEN [p EXCEPT ![field] = value]
                    ELSE [p EXCEPT !.media[Last_(p)][field] = value]

\* a=setup: the session's is the default of the fingerprints that follow; a
\* section's belongs to the fingerprint read, or inherited, before it.
ReadSetup(p, value) ==
    IF InSession(p)
      THEN [p EXCEPT !.setup = value,
                     !.fingerprint.setup = IF p.fingerprint.value = None
                                             THEN @ ELSE value]
      ELSE IF Target(p).fingerprint.value = None THEN p
      ELSE [p EXCEPT !.media[Last_(p)].fingerprint.setup = value]

\* The codec read for a payload type, which later lines change.
Known(p, pt) == \E i \in DOMAIN Target(p).codecs : Target(p).codecs[i].pt = pt
CodecOf(p, pt) == CHOOSE codec \in ToSet(Target(p).codecs) : codec.pt = pt

Replace(p, codec) ==
    [p EXCEPT !.media[Last_(p)].codecs =
        [i \in DOMAIN @ |-> IF @[i].pt = codec.pt THEN codec ELSE @[i]]]

ReadRtpmap(p, line) ==
    LET codec == Codec(line.pt, line.value)
    IN  IF Known(p, line.pt) THEN Replace(p, codec)
        ELSE [p EXCEPT !.media[Last_(p)].codecs = Append(@, codec)]

ReadFmtp(p, line) ==
    IF ~Known(p, line.pt) THEN p
    ELSE Replace(p, [CodecOf(p, line.pt) EXCEPT !.parameters = line.value])

\* Mutant: feedback for every payload is given to those read so far only.
ReadFeedbackAtOnce(p, line) ==
    [p EXCEPT !.media[Last_(p)].codecs =
        [i \in DOMAIN @ |-> IF line.pt \in {AnyPt, @[i].pt}
                              THEN [@[i] EXCEPT !.feedback = Append(@, line.value)]
                              ELSE @[i]]]

\* Feedback for every payload type is kept until all of them are known.
ReadFeedback(p, line) ==
    IF line.pt = AnyPt
      THEN [p EXCEPT !.media[Last_(p)].wildcard = Append(@, line.value)]
    ELSE IF ~Known(p, line.pt) THEN p
    ELSE Replace(p, [CodecOf(p, line.pt) EXCEPT !.feedback = Append(@, line.value)])

SectionKinds == {"mid", "rtcpMux", "candidate", "rtpmap", "fmtp", "rtcp-fb"}

ReadLine(p, line) ==
    CASE line.kind = "m" -> [p EXCEPT !.media = Append(@, NewSection(p, line.value))]
      [] line.kind = "group" -> [p EXCEPT !.bundle = line.value]
      [] line.kind \in {"direction", "ufrag", "pwd"} -> Assign(p, line.kind, line.value)
      [] line.kind = "setup" -> ReadSetup(p, line.value)
      [] line.kind = "fingerprint" ->
           Assign(p, "fingerprint", [value |-> line.value, setup |-> p.setup])
      [] line.kind \in SectionKinds /\ InSession(p) -> p
      [] line.kind = "mid" -> Assign(p, "mid", line.value)
      [] line.kind = "rtcpMux" -> Assign(p, "rtcpMux", TRUE)
      [] line.kind = "candidate" ->
           [p EXCEPT !.media[Last_(p)].candidates = Append(@, line.value)]
      [] line.kind = "rtpmap" -> ReadRtpmap(p, line)
      [] line.kind = "fmtp" -> ReadFmtp(p, line)
      [] line.kind = "rtcp-fb" -> ReadFeedback(p, line)

\* A codec's own feedback, then what else every codec of its section has.
Merge(codec, common) ==
    LET New(feedback) == ~Contains(codec.feedback, feedback)
    IN  [codec EXCEPT !.feedback = @ \o SelectSeq(common, New)]

MergeAll(codecs, common) == [i \in DOMAIN codecs |-> Merge(codecs[i], common)]

\* MediaSection
Section(media, mid, codecs, ufrag, pwd, fingerprint, candidates, rtcpMux, direction) ==
    [media |-> media, mid |-> mid, codecs |-> codecs, ufrag |-> ufrag, pwd |-> pwd,
     fingerprint |-> fingerprint, candidates |-> candidates, rtcpMux |-> rtcpMux,
     direction |-> direction]

\* The session's fingerprint and credentials are those of sections without.
Finished(p, s) ==
    Section(s.media, s.mid, MergeAll(s.codecs, s.wildcard),
            IF s.ufrag = "" THEN p.ufrag ELSE s.ufrag,
            IF s.pwd = "" THEN p.pwd ELSE s.pwd,
            IF s.fingerprint.value = None THEN p.fingerprint ELSE s.fingerprint,
            s.candidates, s.rtcpMux, s.direction)

ParseSdp(lines) ==
    LET p == FoldLeft(ReadLine, NothingParsed, lines)
    IN  [media |-> [i \in DOMAIN p.media |-> Finished(p, p.media[i])],
         bundle |-> p.bundle]

-----------------------------------------------------------------------------
(* build_sdp.                                                              *)

When(condition, lines) == IF condition THEN lines ELSE <<>>

\* The role of the transport: an answer must choose one.
RoleFor(setup, answer) == IF answer /\ setup = "actpass" THEN "active" ELSE setup

BuildSecurity(fingerprint, answer) ==
    When(fingerprint.value # None,
         <<Line("fingerprint", fingerprint.value),
           Line("setup", RoleFor(fingerprint.setup, answer))>>)

BuildCodec(codec) ==
    <<CodecLine("rtpmap", codec.pt, codec.format)>>
    \o When(codec.parameters # "", <<CodecLine("fmtp", codec.pt, codec.parameters)>>)
    \o [i \in DOMAIN codec.feedback |-> CodecLine("rtcp-fb", codec.pt, codec.feedback[i])]

BuildSection(s, answer) ==
    <<Line("m", s.media), Line("mid", s.mid), Line("direction", s.direction)>>
    \o When(s.rtcpMux, <<Line("rtcpMux", "")>>)
    \o When(s.ufrag # "", <<Line("ufrag", s.ufrag)>>)
    \o When(s.pwd # "", <<Line("pwd", s.pwd)>>)
    \o BuildSecurity(s.fingerprint, answer)
    \o FlattenSeq([i \in DOMAIN s.codecs |-> BuildCodec(s.codecs[i])])
    \o [i \in DOMAIN s.candidates |-> Line("candidate", s.candidates[i])]

BuildSdp(d, answer) ==
    When(d.bundle # "", <<Line("group", d.bundle)>>)
    \o FlattenSeq([i \in DOMAIN d.media |-> BuildSection(d.media[i], answer)])

-----------------------------------------------------------------------------
(* Jingle XML.  A direction is relative to the description's owner, the    *)
(* senders of a content to the roles in the session.                       *)

OwnerRole(act) == IF act = "session-accept" THEN "responder" ELSE "initiator"
OppositeRole(role) == IF role = "initiator" THEN "responder" ELSE "initiator"

DirectionToSenders(direction, owner) ==
    CASE direction = "sendonly" -> owner
      [] direction = "recvonly" -> OppositeRole(owner)
      [] direction = "inactive" -> "none"
      [] OTHER -> "both"

\* Mutant: the senders are read from the reader's side.
SendersToDirectionOfReader(senders, owner) ==
    CASE senders = "none" -> "inactive"
      [] senders = owner -> "recvonly"
      [] senders = OppositeRole(owner) -> "sendonly"
      [] OTHER -> "sendrecv"

SendersToDirection(senders, owner) ==
    CASE senders = "none" -> "inactive"
      [] senders = owner -> "sendonly"
      [] senders = OppositeRole(owner) -> "recvonly"
      [] OTHER -> "sendrecv"

IsUdp(candidate) == candidate \notin OverTcp

\* _media_to_content: candidates the transport does not know are left out.
Content(s, owner) ==
    [name |-> s.mid, senders |-> DirectionToSenders(s.direction, owner),
     media |-> s.media, payloads |-> s.codecs, feedback |-> <<>>,
     rtcpMux |-> s.rtcpMux, ufrag |-> s.ufrag, pwd |-> s.pwd,
     fingerprint |-> s.fingerprint, candidates |-> SelectSeq(s.candidates, IsUdp)]

BuildJingle(act, d) ==
    [group |-> d.bundle,
     contents |-> [i \in DOMAIN d.media |-> Content(d.media[i], OwnerRole(act))]]

ContentSection(c, owner) ==
    Section(c.media, c.name, MergeAll(c.payloads, c.feedback), c.ufrag, c.pwd,
            c.fingerprint, SelectSeq(c.candidates, IsUdp), c.rtcpMux,
            SendersToDirection(c.senders, owner))

ParseJingle(act, xml) ==
    [media |-> [i \in DOMAIN xml.contents |->
                  ContentSection(xml.contents[i], OwnerRole(act))],
     bundle |-> xml.group]

\* What another client may write for the same description: feedback that all
\* payload types share once for all, and no senders, which means both.
CommonFeedback(c) ==
    IF c.payloads = <<>> THEN <<>>
    ELSE LET Shared(f) == \A i \in DOMAIN c.payloads : Contains(c.payloads[i].feedback, f)
         IN  SelectSeq(c.payloads[1].feedback, Shared)

ForeignContent(c) ==
    LET Own(f) == ~Contains(CommonFeedback(c), f)
    IN  [c EXCEPT !.feedback = CommonFeedback(c),
                  !.payloads = [i \in DOMAIN @ |->
                     [@[i] EXCEPT !.feedback = SelectSeq(@, Own)]],
                  !.senders = IF @ = "both" THEN "omitted" ELSE @]

Foreign(xml) ==
    [xml EXCEPT !.contents = [i \in DOMAIN @ |-> ForeignContent(@[i])]]

-----------------------------------------------------------------------------
(* Candidates in transport-info name their section by its mid.             *)

MlinesOf(text, mid) ==
    LET media == ParseSdp(text).media
    IN  {i \in DOMAIN media : media[i].mid = mid}

FirstMlineOf(text, mid) ==
    CHOOSE i \in MlinesOf(text, mid) : \A j \in MlinesOf(text, mid) : i <= j

\* The sections of the peer's own description when a candidate comes: it has one
\* if this one answers it, else only later, of the same sections.
OwnSections(text) ==
    LET sections == Len(ParseSdp(text).media)
    IN  IF action = "session-accept" THEN {sections}
        ELSE IF stage = "applied" THEN {0, sections} ELSE {0}

\* Mutant: an unknown mid is taken for the first section's.
MlineOrFirst(text, mid, own) ==
    IF MlinesOf(text, mid) # {} THEN FirstMlineOf(text, mid) ELSE 1

\* _add_remote_candidate_now: the m-line of a mid, 0 if there is none.
MlineOf(text, mid, own) ==
    IF MlinesOf(text, mid) # {} THEN FirstMlineOf(text, mid)
    ELSE IF own = 1 THEN 1 ELSE 0

Routed(text, batch, own) ==
    {r \in {[mline |-> MlineOf(text, b.mid, own), candidate |-> b.candidate] : b \in batch} :
        r.mline # 0}

-----------------------------------------------------------------------------
NoDescription == [media |-> <<>>, bundle |-> ""]
NoXml == [group |-> "", contents |-> <<>>]

TranslationInit ==
    /\ stage = "written"
    /\ action \in Actions
    /\ written \in Texts
    /\ description = NoDescription
    /\ jingle = NoXml
    /\ applied = <<>>
    /\ found = {}
    /\ queued = {}
    /\ added = {}

\* webrtcbin has set the text it wrote; it becomes the local description.
LocalDescriptionSet ==
    /\ stage = "written"
    /\ stage' = "described"
    /\ description' = ParseSdp(written)
    /\ UNCHANGED <<action, written, jingle, applied, found, queued, added>>

\* The controller sends it, or another client one of the same meaning.
SendJingle ==
    /\ stage = "described"
    /\ stage' = "sent"
    /\ \/ jingle' = BuildJingle(action, description)
       \/ jingle' = Foreign(BuildJingle(action, description))
    /\ UNCHANGED <<action, written, description, applied, found, queued, added>>

\* The peer reads it.
ReceiveJingle ==
    /\ stage = "sent"
    /\ stage' = "received"
    /\ description' = ParseJingle(action, jingle)
    /\ jingle' = NoXml
    /\ UNCHANGED <<action, written, applied, found, queued, added>>

\* The peer's webrtcbin is given it, then the candidates that came before.
SetRemoteDescription ==
    /\ stage = "received"
    /\ stage' = "applied"
    /\ applied' = BuildSdp(description, action = "session-accept")
    /\ queued' = {}
    /\ \E own \in OwnSections(applied') : added' = Routed(applied', queued, own)
    /\ UNCHANGED <<action, written, description, jingle, found>>

\* A candidate is found and sent after the description: add_remote_candidate
\* keeps it until the peer's webrtcbin has that.
Arrives(mid, candidate) ==
    LET item == [mid |-> mid, candidate |-> candidate]
    IN  /\ stage \in {"sent", "received", "applied"}
        /\ Cardinality(found) < MaxFound
        /\ \A f \in found : f.candidate # candidate
        /\ found' = found \cup {item}
        /\ IF ~IsUdp(candidate) THEN UNCHANGED <<queued, added>>
           ELSE IF stage = "applied"
             THEN /\ \E own \in OwnSections(applied) :
                       added' = added \cup Routed(applied, {item}, own)
                  /\ UNCHANGED queued
           ELSE /\ queued' = queued \cup {item}
                /\ UNCHANGED added
        /\ UNCHANGED <<stage, action, written, description, jingle, applied>>

\* _on_local_ice: the mid of the m-line webrtcbin found it for.
Trickle(mline, candidate) ==
    Arrives(ParseSdp(written).media[mline].mid, candidate)

\* The names other clients give to contents need not be mids.
ForeignTrickle(name, candidate) == Arrives(name, candidate)

TranslationNext ==
    \/ LocalDescriptionSet
    \/ SendJingle
    \/ ReceiveJingle
    \/ SetRemoteDescription
    \/ \E candidate \in Trickled :
         \/ \E mline \in DOMAIN ParseSdp(written).media : Trickle(mline, candidate)
         \/ \E name \in ForeignNames : ForeignTrickle(name, candidate)

TranslationSpec == TranslationInit /\ [][TranslationNext]_vars
=============================================================================
