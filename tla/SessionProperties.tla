------------------------- MODULE SessionProperties -------------------------
(***************************************************************************)
(* What the translation of a media description must preserve.  Meaning is  *)
(* what an SDP text says, stated without a parser: what a section says, or *)
(* else what the session says for all of its sections.                     *)
(***************************************************************************)
EXTENDS SessionTranslation

Starts(lines) == {i \in DOMAIN lines : lines[i].kind = "m"}

StartOf(lines, n) ==
    CHOOSE i \in Starts(lines) : Cardinality({j \in Starts(lines) : j <= i}) = n

EndOf(lines, n) ==
    IF n = Cardinality(Starts(lines)) THEN Len(lines) ELSE StartOf(lines, n + 1) - 1

SessionLines(lines) ==
    IF Starts(lines) = {} THEN lines ELSE SubSeq(lines, 1, StartOf(lines, 1) - 1)

SectionLines(lines, n) == SubSeq(lines, StartOf(lines, n), EndOf(lines, n))

Kinds(lines, kind) ==
    LET Is(line) == line.kind = kind IN SelectSeq(lines, Is)

ForPt(lines, kind, pts) ==
    LET Is(line) == line.kind = kind /\ line.pt \in pts IN SelectSeq(lines, Is)

Values(lines) == [i \in DOMAIN lines |-> lines[i].value]

LastValue(lines, default) == IF lines = <<>> THEN default ELSE Last(lines).value

\* A section's own value of an attribute, else the session's.
Attribute(lines, n, kind, default) ==
    LastValue(Kinds(SectionLines(lines, n), kind),
              LastValue(Kinds(SessionLines(lines), kind), default))

CodecMeaning(section, line) ==
    [pt |-> line.pt, format |-> line.value,
     parameters |-> LastValue(ForPt(section, "fmtp", {line.pt}), ""),
     feedback |-> ToSet(Values(ForPt(section, "rtcp-fb", {line.pt, AnyPt})))]

SectionMeaning(lines, n) ==
    LET section == SectionLines(lines, n)
        media == Head(section).value
        codecs == Kinds(section, "rtpmap")
        who == Attribute(lines, n, "fingerprint", None)
    IN  [media |-> media,
         mid |-> LastValue(Kinds(section, "mid"), media),
         codecs |-> [i \in DOMAIN codecs |-> CodecMeaning(section, codecs[i])],
         ufrag |-> Attribute(lines, n, "ufrag", ""),
         pwd |-> Attribute(lines, n, "pwd", ""),
         fingerprint |-> who,
         setup |-> IF who = None THEN "actpass" ELSE Attribute(lines, n, "setup", "actpass"),
         candidates |-> Values(Kinds(section, "candidate")),
         rtcpMux |-> Kinds(section, "rtcpMux") # <<>>,
         direction |-> Attribute(lines, n, "direction", "sendrecv")]

Meaning(lines) ==
    [bundle |-> LastValue(Kinds(SessionLines(lines), "group"), ""),
     media |-> [n \in 1 .. Cardinality(Starts(lines)) |-> SectionMeaning(lines, n)]]

\* The same of a description in the plugin's model.
SectionMeaningOfModel(s) ==
    [media |-> s.media, mid |-> s.mid,
     codecs |-> [i \in DOMAIN s.codecs |->
                   [s.codecs[i] EXCEPT !.feedback = ToSet(@)]],
     ufrag |-> s.ufrag, pwd |-> s.pwd,
     fingerprint |-> s.fingerprint.value, setup |-> s.fingerprint.setup,
     candidates |-> s.candidates, rtcpMux |-> s.rtcpMux, direction |-> s.direction]

MeaningOfModel(d) ==
    [bundle |-> d.bundle,
     media |-> [n \in DOMAIN d.media |-> SectionMeaningOfModel(d.media[n])]]

WithoutRoles(m) ==
    [m EXCEPT !.media = [n \in DOMAIN @ |-> [@[n] EXCEPT !.setup = "actpass"]]]

\* What Jingle carries: not the candidates over TCP.
UdpOnly(m) ==
    [m EXCEPT !.media = [n \in DOMAIN @ |->
        [@[n] EXCEPT !.candidates = SelectSeq(@, IsUdp)]]]

-----------------------------------------------------------------------------
\* The plugin's model of a local description says what webrtcbin wrote, wherever
\* an attribute stood and in whatever order the lines came, but for the role in
\* the transport: webrtcbin writes it before the fingerprint it belongs to, and
\* then a section's role is read as still open (sdp.py:117-284).
LocalDescriptionIsUnderstood ==
    stage = "described" =>
        WithoutRoles(MeaningOfModel(description)) = WithoutRoles(Meaning(written))

\* Whatever way the description took, through model and XML and another
\* client's ways to write it, the peer's webrtcbin is told what ours said:
\* directions and transport roles too, all candidates but those over TCP
\* (sdp.py:287-345, protocol.py:183-253, 334-438).
PeerIsToldTheSame ==
    stage = "applied" => Meaning(applied) = UdpOnly(Meaning(written))

MlinesReached(candidate) == {a.mline : a \in {b \in added : b.candidate = candidate}}

\* A candidate over UDP reaches the m-line it was found for and no other, whether it
\* came before the description or after; one with an unknown name is never given
\* to a section it may not belong to (media.py:256-290).
CandidateReachesItsSection ==
    stage = "applied" =>
        \A f \in found :
            LET media == Meaning(written).media
                meant == {n \in DOMAIN media : media[n].mid = f.mid}
            IN  IF IsUdp(f.candidate) /\ meant # {}
                  THEN MlinesReached(f.candidate) = meant
                ELSE \/ MlinesReached(f.candidate) = {}
                     \/ IsUdp(f.candidate) /\ Len(media) = 1
=============================================================================
