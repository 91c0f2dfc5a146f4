------------------------------ MODULE MCSession ------------------------------
(* Texts webrtcbin may write, for SessionTranslation: one or two sections,     *)
(* attributes in the session or in the sections, feedback before or after the  *)
(* payload types it is for.                                                    *)
EXTENDS SessionProperties, TLC

Maybe(lines) == {<<>>, lines}

\* The role comes before the fingerprint, and an answer is active.
Identity(who, setup) == <<Line("setup", setup), Line("fingerprint", who)>>
Credentials(who) == <<Line("ufrag", who), Line("pwd", who)>>

CodecsPlain ==
    <<CodecLine("rtpmap", 96, "vp8"), CodecLine("rtcp-fb", 96, "nack")>>
CodecsCommon ==
    <<CodecLine("rtcp-fb", AnyPt, "nack"), CodecLine("rtpmap", 96, "vp8"),
      CodecLine("fmtp", 96, "limit"), CodecLine("rtpmap", 97, "h264"),
      CodecLine("rtcp-fb", 97, "nack"), CodecLine("rtcp-fb", 97, "pli"),
      CodecLine("rtcp-fb", AnyPt, "fir")>>

MCTrickled == {"relay", "relaytcp"}

Sessions(setup) ==
    {g \o d \o s : g \in Maybe(<<Line("group", "0 1")>>),
                   d \in Maybe(<<Line("direction", "recvonly")>>),
                   s \in Maybe(Credentials("session") \o Identity("session", setup))}

Sections(media, mid, setup) ==
    {<<Line("m", media), Line("mid", mid)>> \o c \o d \o CodecsCommon \o i \o h :
        c \in Maybe(Credentials(mid) \o <<Line("rtcpMux", "")>>),
        d \in {<<>>, <<Line("direction", "sendonly")>>, <<Line("direction", "inactive")>>},
        i \in Maybe(Identity(mid, setup)),
        h \in Maybe(<<Line("candidate", "hosttcp"), Line("candidate", "hostudp")>>)}

\* One section, or two of which the first is one of a few.
TextsWith(setup) ==
    LET first == {<<Line("m", "audio"), Line("mid", "0")>> \o d \o CodecsPlain \o i :
                     d \in Maybe(<<Line("direction", "sendonly")>>),
                     i \in Maybe(Credentials("0") \o Identity("0", setup))}
    IN  {s \o a \o v : s \in Sessions(setup), a \in first \cup {<<>>},
                       v \in Sections("video", "1", setup)}

RoleOf(act) == IF act = "session-accept" THEN "active" ELSE "actpass"
MCTexts == TextsWith("actpass") \cup TextsWith("active")

\* An offer leaves the role open, and an answer does not.
Role(text) ==
    LET roles == {text[i].value : i \in {j \in DOMAIN text : text[j].kind = "setup"}}
    IN  IF roles = {} THEN "actpass" ELSE CHOOSE r \in roles : TRUE

MCInit == TranslationInit /\ Role(written) = RoleOf(action)
MCSpec == MCInit /\ [][TranslationNext]_vars
=============================================================================
