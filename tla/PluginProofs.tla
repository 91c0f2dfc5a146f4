---------------------------- MODULE PluginProofs ----------------------------
(***************************************************************************)
(* Theorems about the plugin around the calls, for every number of boxes,  *)
(* accounts and attempts: its button, its timeouts, the features it adds   *)
(* to the accounts, and the alerts of incoming calls.                      *)
(*                                                                         *)
(* The handlers of Toolbar are compositions of steps on one record, some   *)
(* of which leave it, between two of them, with a timeout that is running  *)
(* but whose id is forgotten.  Good(b, stale) is what holds between any    *)
(* two steps; there is one lemma for each step, in the order in which they *)
(* are built upon each other.                                              *)
(***************************************************************************)
EXTENDS PluginProperties, IncomingAlerts, FiniteSetTheorems, TLAPS

-----------------------------------------------------------------------------
(* What is kept.                                                           *)

SearchStates == [id: 0 .. 3, attempts: 0 .. MaxAttempts]

\* The plugin's state keeps to its type.
Bars == [box: Boxes \cup {NoBox}, button: Nat, label: Indicators, shown: BOOLEAN,
         children: SUBSET Nat, indicator: Indicators,
         attach: SearchStates, startup: SearchStates,
         sources: SUBSET [search: Searches, id: 1 .. 3]]

\* Each search that has a timeout has one GLib knows, and there are no others but a
\* stale one, whose callback is running and which GLib is about to drop.
Held(b, stale) ==
    /\ \A w \in Searches : b[w].id # NoId => Source(w, b[w].id) \in b.sources \ stale
    /\ \A s \in b.sources \ stale : s.search \in Searches /\ s.id = b[s.search].id
    /\ b.attach.id # NoId => b.attach.id # b.startup.id
    /\ stale \subseteq b.sources /\ \E one : stale \subseteq {one}
    /\ \A s \in stale : s.id \notin {b.attach.id, b.startup.id}

\* The button is there with its box only, and shows the call.
Shows(b) ==
    /\ b.box = NoBox <=> b.button = NoButton
    /\ b.children \subseteq {b.button} \ {NoButton}
    /\ b.box # NoBox => b.label = b.indicator

Good(b, stale) == b \in Bars /\ Held(b, stale) /\ Shows(b)

\* A step that is only about a search leaves the button.
SameButton(b, c) ==
    /\ c.box = b.box /\ c.button = b.button /\ c.label = b.label /\ c.shown = b.shown
    /\ c.children = b.children /\ c.indicator = b.indicator

-----------------------------------------------------------------------------
(* Writing into the plugin's state: what is written is found there, and    *)
(* the rest stays.  A write has a name of its own, as the provers lose     *)
(* their way in nested EXCEPTs.                                            *)

WithSearch(b, which, search) == [b EXCEPT ![which] = search]
WithSources(b, sources) == [b EXCEPT !.sources = sources]

\* A search is written.
LEMMA PutSearch ==
    ASSUME NEW b \in Bars, NEW which \in Searches, NEW search \in SearchStates,
           NEW c, c = WithSearch(b, which, search)
    PROVE  /\ c \in Bars /\ SameButton(b, c) /\ c.sources = b.sources
           /\ c[which] = search /\ \A w \in Searches \ {which} : c[w] = b[w]
<1>1. CASE which = "attach"
  <2>1. c \in Bars
    BY <1>1 DEF Bars, WithSearch
  <2> QED BY <1>1, <2>1 DEF Bars, Searches, SameButton, WithSearch
<1>2. CASE which = "startup"
  <2>1. c \in Bars
    BY <1>2 DEF Bars, WithSearch
  <2> QED BY <1>2, <2>1 DEF Bars, Searches, SameButton, WithSearch
<1> QED BY <1>1, <1>2 DEF Searches

\* GLib's timeouts are written.
LEMMA PutSources ==
    ASSUME NEW b \in Bars, NEW sources \in SUBSET [search: Searches, id: 1 .. 3],
           NEW c, c = WithSources(b, sources)
    PROVE  /\ c \in Bars /\ SameButton(b, c) /\ c.sources = sources
           /\ \A w \in Searches : c[w] = b[w]
  BY DEF Bars, Searches, SameButton, WithSources

\* _cancel_..._source, for a search that has a timeout.
LEMMA CancelFields ==
    ASSUME NEW b \in Bars, NEW which \in Searches, b[which].id # NoId,
           NEW c, c = Cancel(b, which)
    PROVE  /\ c \in Bars /\ SameButton(b, c)
           /\ c[which] = NoSearch /\ \A w \in Searches \ {which} : c[w] = b[w]
           /\ c.sources = {s \in b.sources : s.id # b[which].id}
<1> DEFINE d == WithSearch(b, which, NoSearch)
           left == {s \in b.sources : s.id # b[which].id}
<1>1. c = WithSources(d, left)
  BY DEF Cancel, WithSearch, WithSources
<1>2. NoSearch \in SearchStates
  BY ToolbarAssumption DEF NoSearch, SearchStates, NoId
<1>3. left \in SUBSET [search: Searches, id: 1 .. 3]
  BY DEF Bars
<1>4. /\ d \in Bars /\ SameButton(b, d)
      /\ d[which] = NoSearch /\ \A w \in Searches \ {which} : d[w] = b[w]
  BY <1>2, PutSearch
<1> HIDE DEF d, left
<1>5. c \in Bars /\ SameButton(d, c) /\ c.sources = left /\ \A w \in Searches : c[w] = d[w]
  BY <1>1, <1>3, <1>4, PutSources
<1> QED BY <1>4, <1>5 DEF left, SameButton

\* The parts of a search.
LEMMA SearchTypes ==
    ASSUME NEW b \in Bars, NEW w \in Searches
    PROVE  b[w].id \in 0 .. 3 /\ b[w].attempts \in 0 .. MaxAttempts
<1>1. b["attach"] \in SearchStates /\ b["startup"] \in SearchStates
  BY DEF Bars
<1> QED BY <1>1 DEF Searches, SearchStates

\* A search that is cancelled has no timeout, and the rest is left alone.
LEMMA CancelGood ==
    ASSUME NEW b, NEW stale, Good(b, stale), NEW which \in Searches, NEW c, c = Cancel(b, which)
    PROVE  /\ Good(c, stale) /\ SameButton(b, c)
           /\ c[which].id = NoId /\ \A w \in Searches \ {which} : c[w] = b[w]
<1>1. CASE b[which].id = NoId
  BY <1>1 DEF Cancel, SameButton
<1>2. CASE b[which].id # NoId
  <2>1. /\ c \in Bars /\ SameButton(b, c)
        /\ c[which] = NoSearch /\ \A w \in Searches \ {which} : c[w] = b[w]
        /\ c.sources = {s \in b.sources : s.id # b[which].id}
    BY <1>2, CancelFields DEF Good
  <2>2. c[which].id = NoId
    BY <2>1 DEF NoSearch
  <2>3. Shows(c)
    BY <2>1 DEF Good, Shows, SameButton
  <2>4. Held(c, stale)
    <3>1. ASSUME NEW w \in Searches, c[w].id # NoId
          PROVE  Source(w, c[w].id) \in c.sources \ stale
      <4>1. w # which /\ c[w] = b[w] /\ Source(w, b[w].id) \in b.sources \ stale
        BY <2>1, <2>2, <3>1 DEF Good, Held
      <4>2. b[w].id # b[which].id
        BY <1>2, <3>1, <4>1 DEF Good, Held, Searches
      <4> QED BY <2>1, <4>1, <4>2 DEF Source
    <3>2. ASSUME NEW s \in c.sources \ stale PROVE s.search \in Searches /\ s.id = c[s.search].id
      BY <2>1, <3>2 DEF Good, Held, Bars
    <3>3. c.attach.id # NoId => c.attach.id # c.startup.id
      BY <2>1, <2>2 DEF Good, Held, Searches
    <3>4. ASSUME NEW s \in stale
          PROVE  s \in c.sources /\ s.id # c.attach.id /\ s.id # c.startup.id
      <4>1. s \in b.sources /\ s.id \in 1 .. 3 /\ s.id # b.attach.id /\ s.id # b.startup.id
        BY <3>4 DEF Good, Held, Bars
      <4> QED BY <2>1, <2>2, <4>1 DEF Searches, NoId
    <3>5. \E one : stale \subseteq {one}
      BY DEF Good, Held
    <3>6. \A w \in Searches : c[w].id # NoId => Source(w, c[w].id) \in c.sources \ stale
      BY <3>1
    <3> QED BY <3>2, <3>3, <3>4, <3>5, <3>6 DEF Held
  <2> QED BY <2>1, <2>2, <2>3, <2>4 DEF Good
<1> QED BY <1>1, <1>2

\* A timeout is given an id that no other has.
LEMMA FreshIdIsFree ==
    ASSUME NEW b, NEW stale, Good(b, stale), NEW which \in Searches, b[which].id = NoId
    PROVE  FreshId(b) \in 1 .. 3 /\ \A s \in b.sources : s.id # FreshId(b)
<1>1. PICK one : stale \subseteq {one}
  BY DEF Good, Held
<1>2. \A s \in b.sources : s.id \in {b.attach.id, b.startup.id, one.id} \ {NoId}
  BY <1>1 DEF Good, Held, Bars, Searches, NoId
<1>3. \E first : \A s \in b.sources : s.id \in {first, one.id}
  BY <1>2 DEF Searches
<1>4. \E n \in 1 .. 3 : \A s \in b.sources : s.id # n
  BY <1>3
<1> QED BY <1>4 DEF FreshId

\* A search that is armed has a timeout of its own.
LEMMA ArmGood ==
    ASSUME NEW b, NEW stale, Good(b, stale), NEW which \in Searches, b[which].id = NoId,
           NEW c, c = Arm(b, which)
    PROVE  /\ Good(c, stale) /\ SameButton(b, c)
           /\ c[which].id # NoId /\ \A w \in Searches \ {which} : c[w] = b[w]
<1> DEFINE n == FreshId(b)
           search == [b[which] EXCEPT !.id = n]
           d == WithSearch(b, which, search)
           more == b.sources \cup {Source(which, n)}
<1>1. c = WithSources(d, more)
  BY DEF Arm, WithSearch, WithSources
<1>2. n \in 1 .. 3 /\ \A s \in b.sources : s.id # n
  BY FreshIdIsFree
<1> HIDE DEF n
<1>3. search \in SearchStates /\ search.id = n
  <2>1. b[which] \in SearchStates
    BY DEF Good, Bars, Searches
  <2> QED BY <1>2, <2>1 DEF SearchStates
<1> HIDE DEF search
<1>4. more \in SUBSET [search: Searches, id: 1 .. 3]
  BY <1>2 DEF Source, Good, Bars
<1>5. /\ d \in Bars /\ SameButton(b, d)
      /\ d[which] = search /\ \A w \in Searches \ {which} : d[w] = b[w]
  BY <1>3, PutSearch DEF Good
<1> HIDE DEF d, more
<1>6. c \in Bars /\ SameButton(d, c) /\ c.sources = more /\ \A w \in Searches : c[w] = d[w]
  BY <1>1, <1>4, <1>5, PutSources
<1>7. SameButton(b, c) /\ c[which].id = n /\ \A w \in Searches \ {which} : c[w] = b[w]
  BY <1>3, <1>5, <1>6 DEF SameButton
<1>8. Shows(c)
  BY <1>7 DEF Good, Shows, SameButton
<1>9. Held(c, stale)
  <2>1. ASSUME NEW w \in Searches, c[w].id # NoId
        PROVE  Source(w, c[w].id) \in c.sources \ stale
    <3>1. Source(which, n).id = n
      BY DEF Source
    <3>2. Source(which, n) \notin stale
      BY <1>2, <3>1 DEF Good, Held
    <3>3. CASE w = which
      BY <1>6, <1>7, <3>2, <3>3 DEF more
    <3>4. CASE w # which
      BY <1>6, <1>7, <2>1, <3>4 DEF Good, Held, more
    <3> QED BY <3>3, <3>4
  <2>2. ASSUME NEW s \in c.sources \ stale PROVE s.search \in Searches /\ s.id = c[s.search].id
    <3>1. CASE s = Source(which, n)
      BY <1>7, <3>1 DEF Source
    <3>2. CASE s \in b.sources
      <4>1. s.search \in Searches /\ s.id = b[s.search].id /\ s.id \in 1 .. 3
        BY <2>2, <3>2 DEF Good, Held, Bars
      <4>2. s.search # which
        BY <4>1 DEF NoId
      <4> QED BY <1>7, <4>1, <4>2
    <3> QED BY <1>6, <2>2, <3>1, <3>2 DEF more
  <2>3. c.attach.id # NoId => c.attach.id # c.startup.id
    <3>1. \A w \in Searches : b[w].id # NoId => b[w].id # n
      BY <1>2 DEF Good, Held, Source
    <3>2. n # NoId
      BY <1>2 DEF NoId
    <3> QED BY <1>7, <3>1, <3>2 DEF Searches
  <2>4. ASSUME NEW s \in stale
        PROVE  s \in c.sources /\ s.id # c.attach.id /\ s.id # c.startup.id
    <3>1. s \in b.sources /\ s.id # n /\ s.id # b.attach.id /\ s.id # b.startup.id
      BY <1>2, <2>4 DEF Good, Held
    <3> QED BY <1>6, <1>7, <3>1 DEF more, Searches
  <2>5. \E one : stale \subseteq {one}
    BY DEF Good, Held
  <2>6. \A w \in Searches : c[w].id # NoId => Source(w, c[w].id) \in c.sources \ stale
    BY <2>1
  <2> QED BY <2>2, <2>3, <2>4, <2>5, <2>6 DEF Held
<1> QED BY <1>2, <1>6, <1>7, <1>8, <1>9 DEF Good, NoId

-----------------------------------------------------------------------------
(* The steps of a handler.                                                 *)

\* The searches and their timeouts are the same.
SameSearches(b, c) == c.sources = b.sources /\ \A w \in Searches : c[w] = b[w]

WithShown(b, shown) == [b EXCEPT !.shown = shown]
WithChildren(b, children) == [b EXCEPT !.children = children]
WithIndicator(b, indicator) == [b EXCEPT !.indicator = indicator]
WithLabel(b, label) == [b EXCEPT !.label = label]
WithBox(b, box) == [b EXCEPT !.box = box]
WithButton(b, button) == [b EXCEPT !.button = button]

\* Whether the button is visible is written.
LEMMA PutShown ==
    ASSUME NEW b \in Bars, NEW shown \in BOOLEAN, NEW c, c = WithShown(b, shown)
    PROVE  /\ c \in Bars /\ SameSearches(b, c) /\ c.shown = shown
           /\ c.box = b.box /\ c.button = b.button /\ c.label = b.label
           /\ c.children = b.children /\ c.indicator = b.indicator
  BY DEF Bars, Searches, SameSearches, WithShown

\* The toolbar's children are written.
LEMMA PutChildren ==
    ASSUME NEW b \in Bars, NEW children \in SUBSET Nat, NEW c, c = WithChildren(b, children)
    PROVE  /\ c \in Bars /\ SameSearches(b, c) /\ c.children = children
           /\ c.box = b.box /\ c.button = b.button /\ c.label = b.label
           /\ c.shown = b.shown /\ c.indicator = b.indicator
  BY DEF Bars, Searches, SameSearches, WithChildren

\* What the controller showed last is written.
LEMMA PutIndicator ==
    ASSUME NEW b \in Bars, NEW indicator \in Indicators, NEW c, c = WithIndicator(b, indicator)
    PROVE  /\ c \in Bars /\ SameSearches(b, c) /\ c.indicator = indicator
           /\ c.box = b.box /\ c.button = b.button /\ c.label = b.label
           /\ c.children = b.children /\ c.shown = b.shown
  BY DEF Bars, Searches, SameSearches, WithIndicator

\* What the button shows is written.
LEMMA PutLabel ==
    ASSUME NEW b \in Bars, NEW label \in Indicators, NEW c, c = WithLabel(b, label)
    PROVE  /\ c \in Bars /\ SameSearches(b, c) /\ c.label = label
           /\ c.box = b.box /\ c.button = b.button /\ c.indicator = b.indicator
           /\ c.children = b.children /\ c.shown = b.shown
  BY DEF Bars, Searches, SameSearches, WithLabel

\* The box is written.
LEMMA PutBox ==
    ASSUME NEW b \in Bars, NEW box \in Boxes \cup {NoBox}, NEW c, c = WithBox(b, box)
    PROVE  /\ c \in Bars /\ SameSearches(b, c) /\ c.box = box
           /\ c.label = b.label /\ c.button = b.button /\ c.indicator = b.indicator
           /\ c.children = b.children /\ c.shown = b.shown
  BY DEF Bars, Searches, SameSearches, WithBox

\* The button is written.
LEMMA PutButton ==
    ASSUME NEW b \in Bars, NEW button \in Nat, NEW c, c = WithButton(b, button)
    PROVE  /\ c \in Bars /\ SameSearches(b, c) /\ c.button = button
           /\ c.box = b.box /\ c.label = b.label /\ c.indicator = b.indicator
           /\ c.children = b.children /\ c.shown = b.shown
  BY DEF Bars, Searches, SameSearches, WithButton

\* set_call_active shows what it is told on the button there is.
LEMMA SetCallActiveShows ==
    ASSUME NEW b \in Bars, NEW indicator \in Indicators, NEW c, c = SetCallActive(b, indicator)
    PROVE  /\ c \in Bars /\ SameSearches(b, c)
           /\ c.indicator = indicator /\ (c.box # NoBox => c.label = indicator)
           /\ c.box = b.box /\ c.button = b.button
           /\ c.children = b.children /\ c.shown = b.shown
<1> DEFINE d == WithIndicator(b, indicator)
           label == IF b.box = NoBox THEN b.label ELSE indicator
<1>1. c = WithLabel(d, label)
  BY DEF SetCallActive, WithIndicator, WithLabel
<1>2. /\ d \in Bars /\ SameSearches(b, d) /\ d.indicator = indicator
      /\ d.box = b.box /\ d.button = b.button /\ d.label = b.label
      /\ d.children = b.children /\ d.shown = b.shown
  BY PutIndicator
<1>3. label \in Indicators /\ (b.box # NoBox => label = indicator)
  BY DEF Bars
<1> HIDE DEF d, label
<1>4. /\ c \in Bars /\ SameSearches(d, c) /\ c.label = label
      /\ c.box = d.box /\ c.button = d.button /\ c.indicator = d.indicator
      /\ c.children = d.children /\ c.shown = d.shown
  BY <1>1, <1>2, <1>3, PutLabel
<1> QED BY <1>2, <1>3, <1>4 DEF SameSearches

\* Timeouts with the same ids are held as before.
LEMMA SameHeld ==
    ASSUME NEW b, NEW stale, NEW c, Held(b, stale), c.sources = b.sources,
           \A w \in Searches : c[w].id = b[w].id
    PROVE  Held(c, stale)
<1>1. c.attach.id = b.attach.id /\ c.startup.id = b.startup.id
  BY DEF Searches
<1> QED BY <1>1 DEF Held

\* A failed attempt ends the search after the last one, and else leaves its timeout.
LEMMA AttemptCounts ==
    ASSUME NEW b \in Bars, NEW which \in Searches, NEW c, c = Attempt(b, which)
    PROVE  /\ c \in Bars /\ SameButton(b, c) /\ c.sources = b.sources
           /\ c[which].id = IF Exhausted(c, which) THEN NoId ELSE b[which].id
           /\ \A w \in Searches \ {which} : c[w] = b[w]
<1> DEFINE attempts == IF b[which].attempts < MaxAttempts THEN b[which].attempts + 1
                                                          ELSE MaxAttempts
           search == [id |-> IF attempts = MaxAttempts THEN NoId ELSE b[which].id,
                      attempts |-> attempts]
<1>1. c = WithSearch(b, which, search)
  BY DEF Attempt, WithSearch
<1>2. attempts \in 0 .. MaxAttempts /\ b[which].id \in 0 .. 3
  BY SearchTypes, ToolbarAssumption
<1>3. search \in SearchStates /\ search.attempts = attempts
      /\ search.id = IF attempts = MaxAttempts THEN NoId ELSE b[which].id
  BY <1>2 DEF SearchStates, NoId
<1> HIDE DEF search
<1>4. /\ c \in Bars /\ SameButton(b, c) /\ c.sources = b.sources
      /\ c[which] = search /\ \A w \in Searches \ {which} : c[w] = b[w]
  BY <1>1, <1>3, PutSearch
<1> HIDE DEF attempts
<1> QED BY <1>3, <1>4 DEF Exhausted

\* _attach_toolbar_control puts the button into the toolbar or counts an attempt.
LEMMA AttachShows ==
    ASSUME NEW b, NEW stale, Good(b, stale), b.box # NoBox, NEW c, c = AttachToolbarControl(b)
    PROVE  /\ c \in Bars /\ Shows(c)
           /\ c.box = b.box /\ c.button = b.button
           /\ c.sources = b.sources /\ c.startup = b.startup
           /\ hasToolbar' => c.button \in c.children /\ c.attach.id = NoId
           /\ ~hasToolbar' =>
                 /\ c.children = b.children
                 /\ c.attach.id = IF Exhausted(c, "attach") THEN NoId ELSE b.attach.id
<1>0. b \in Bars /\ Shows(b) /\ b.button \in Nat /\ b.children \subseteq Nat
      /\ b.indicator \in Indicators
  BY DEF Good, Bars
<1> DEFINE single == b.box \in oneToOne'
           seen == WithShown(b, single)
<1>s. single \in BOOLEAN
  OBVIOUS
<1> HIDE DEF single
<1>1. /\ seen \in Bars /\ SameSearches(b, seen)
      /\ seen.box = b.box /\ seen.button = b.button /\ seen.label = b.label
      /\ seen.children = b.children /\ seen.indicator = b.indicator
  BY <1>0, <1>s, PutShown
<1>2. CASE hasToolbar'
  <2> DEFINE more == b.children \cup {b.button}
             placed == WithChildren(seen, more)
             done == WithSearch(placed, "attach", NoSearch)
  <2>1. c = SetCallActive(done, b.indicator)
    <3>1. done = [seen EXCEPT !.children = @ \cup {b.button}, !.attach = NoSearch]
      <4>1. seen.children = b.children
        BY <1>1
      <4> QED BY <4>1 DEF WithSearch, WithChildren
    <3> QED BY <1>2, <3>1 DEF AttachToolbarControl, WithShown, single
  <2>2. more \in SUBSET Nat /\ NoSearch \in SearchStates
    BY <1>0, ToolbarAssumption DEF NoSearch, SearchStates, NoId
  <2> HIDE DEF seen, more
  <2>3. /\ placed \in Bars /\ SameSearches(seen, placed) /\ placed.children = more
        /\ placed.box = seen.box /\ placed.button = seen.button
    BY <1>1, <2>2, PutChildren
  <2> HIDE DEF placed
  <2>4. /\ done \in Bars /\ SameButton(placed, done) /\ done.sources = placed.sources
        /\ done["attach"] = NoSearch /\ done["startup"] = placed["startup"]
    BY <2>2, <2>3, PutSearch DEF Searches
  <2> HIDE DEF done
  <2>5. /\ c \in Bars /\ SameSearches(done, c) /\ c.indicator = b.indicator
        /\ c.box # NoBox => c.label = b.indicator
        /\ c.box = done.box /\ c.button = done.button /\ c.children = done.children
    BY <1>0, <2>1, <2>4, SetCallActiveShows
  <2>6. c.box = b.box /\ c.button = b.button /\ c.children = b.children \cup {b.button}
    BY <1>1, <2>3, <2>4, <2>5 DEF SameButton, more
  <2>7. c.sources = b.sources /\ c.startup = b.startup /\ c.attach.id = NoId
    BY <1>1, <2>3, <2>4, <2>5 DEF SameSearches, Searches, NoSearch
  <2>8. Shows(c)
    BY <1>0, <2>5, <2>6 DEF Shows
  <2> QED BY <1>2, <2>5, <2>6, <2>7, <2>8
<1>3. CASE ~hasToolbar'
  <2>1. c = Attempt(seen, "attach")
    BY <1>3 DEF AttachToolbarControl, WithShown, single
  <2> HIDE DEF seen
  <2>2. /\ c \in Bars /\ SameButton(seen, c) /\ c.sources = seen.sources
        /\ c["attach"].id = IF Exhausted(c, "attach") THEN NoId ELSE seen["attach"].id
        /\ c["startup"] = seen["startup"]
    BY <1>1, <2>1, AttemptCounts DEF Searches
  <2>3. c.box = b.box /\ c.button = b.button /\ c.children = b.children
        /\ c.label = b.label /\ c.indicator = b.indicator
    BY <1>1, <2>2 DEF SameButton
  <2>4. /\ c.sources = b.sources /\ c.startup = b.startup
        /\ c.attach.id = IF Exhausted(c, "attach") THEN NoId ELSE b.attach.id
    BY <1>1, <2>2 DEF SameSearches, Searches
  <2>5. Shows(c)
    BY <1>0, <2>3 DEF Shows
  <2> QED BY <1>3, <2>2, <2>3, <2>4, <2>5
<1> QED BY <1>2, <1>3

\* After _schedule_toolbar_attach the button is in the toolbar, or is being looked for.
LEMMA ScheduleAttaches ==
    ASSUME NEW b, NEW stale, Good(b, stale), b.box # NoBox, NEW c, c = ScheduleToolbarAttach(b)
    PROVE  /\ Good(c, stale)
           /\ c.box = b.box /\ c.button = b.button /\ c.startup = b.startup
           /\ hasToolbar' => c.button \in c.children
           /\ ~hasToolbar' => /\ c.children = b.children
                              /\ c.attach.id # NoId \/ Exhausted(c, "attach")
<1> DEFINE free == Cancel(b, "attach")
           tried == AttachToolbarControl(free)
<1>1. c = IF Unattached(free) THEN Arm(tried, "attach") ELSE tried
  BY DEF ScheduleToolbarAttach
<1>2. Unattached(free) <=> free.box # NoBox /\ ~hasToolbar' /\ ~Exhausted(tried, "attach")
  BY DEF Unattached
<1> HIDE DEF tried
<1>s. "attach" \in Searches /\ "startup" \in Searches \ {"attach"}
  BY DEF Searches
<1>3. /\ Good(free, stale) /\ SameButton(b, free) /\ free["attach"].id = NoId
      /\ free["startup"] = b["startup"]
  BY <1>s, CancelGood
<1> HIDE DEF free
<1>4. /\ tried \in Bars /\ Shows(tried)
      /\ tried.box = b.box /\ tried.button = b.button
      /\ tried.sources = free.sources /\ tried.startup = b.startup
      /\ hasToolbar' => tried.button \in tried.children
      /\ ~hasToolbar' => tried.children = b.children
      /\ tried.attach.id = NoId
  BY <1>3, AttachShows DEF tried, SameButton
<1>5. Good(tried, stale)
  <2>1. \A w \in Searches : tried[w].id = free[w].id
    BY <1>3, <1>4 DEF Searches
  <2>2. Held(free, stale)
    BY <1>3 DEF Good
  <2> QED BY <1>4, <2>1, <2>2, SameHeld DEF Good
<1>6. CASE Unattached(free)
  <2>1. c = Arm(tried, "attach")
    BY <1>1, <1>6
  <2>2. /\ Good(c, stale) /\ SameButton(tried, c)
        /\ c["attach"].id # NoId /\ c["startup"] = tried["startup"]
    BY <1>4, <1>5, <2>1, ArmGood DEF Searches
  <2> QED BY <1>4, <2>2 DEF SameButton
<1>7. CASE ~Unattached(free)
  <2>1. c = tried
    BY <1>1, <1>7
  <2>2. ~hasToolbar' => Exhausted(c, "attach")
    BY <1>2, <1>3, <1>7, <2>1 DEF SameButton
  <2> QED BY <1>4, <1>5, <2>1, <2>2
<1> QED BY <1>6, <1>7

\* _remove_toolbar_control leaves no button and no search for its place.
LEMMA RemoveClears ==
    ASSUME NEW b, NEW stale, Good(b, stale), NEW c, c = RemoveToolbarControl(b)
    PROVE  /\ Good(c, stale) /\ c.box = NoBox /\ c.children = {}
           /\ c.attach.id = NoId /\ c.startup = b.startup
<1> DEFINE free == Cancel(b, "attach")
           boxed == WithBox(free, NoBox)
           bare == WithButton(boxed, NoButton)
           left == b.children \ {b.button}
<1>1. c = WithChildren(bare, left)
  <2>1. free.button = b.button /\ free.children = b.children
    BY CancelGood DEF Searches, SameButton
  <2>2. c = [free EXCEPT !.box = NoBox, !.button = NoButton, !.children = @ \ {b.button}]
    BY DEF RemoveToolbarControl
  <2>3. boxed.children = free.children /\ bare.children = free.children
    <3>1. free \in Bars
      BY CancelGood DEF Good, Searches
    <3> HIDE DEF free
    <3>2. boxed \in Bars /\ boxed.children = free.children
      BY <3>1, PutBox
    <3> HIDE DEF boxed
    <3> QED BY <3>2, PutButton DEF NoButton
  <2>4. c = [bare EXCEPT !.children = free.children \ {b.button}]
    BY <2>2 DEF WithBox, WithButton
  <2> HIDE DEF free, boxed, bare
  <2> QED BY <2>1, <2>4 DEF WithChildren
<1>2. /\ Good(free, stale) /\ SameButton(b, free) /\ free["attach"].id = NoId
      /\ free["startup"] = b["startup"]
  BY CancelGood DEF Searches
<1>3. left = {}
  BY DEF Good, Shows
<1> HIDE DEF free, left
<1>4. boxed \in Bars /\ SameSearches(free, boxed) /\ boxed.box = NoBox
  BY <1>2, PutBox DEF Good
<1> HIDE DEF boxed
<1>5. /\ bare \in Bars /\ SameSearches(boxed, bare) /\ bare.box = NoBox
      /\ bare.button = NoButton
  BY <1>4, PutButton DEF NoButton
<1> HIDE DEF bare
<1>6. /\ c \in Bars /\ SameSearches(bare, c) /\ c.box = NoBox /\ c.button = NoButton
      /\ c.children = {}
  BY <1>1, <1>3, <1>5, PutChildren
<1>7. SameSearches(free, c)
  BY <1>4, <1>5, <1>6 DEF SameSearches
<1>8. \A w \in Searches : c[w].id = free[w].id
  BY <1>7 DEF SameSearches
<1>9. Good(c, stale)
  BY <1>2, <1>6, <1>7, <1>8, SameHeld DEF Good, Shows, SameSearches
<1> QED BY <1>2, <1>6, <1>7, <1>9 DEF SameSearches, Searches

\* The button is in the toolbar, or the plugin is looking for its place there.
Attaching(c) ==
    c.box # NoBox => IF hasToolbar' THEN c.button \in c.children
                                    ELSE c.attach.id # NoId \/ Exhausted(c, "attach")

\* It has a box, or is looking for one.
Registering(c) == c.box = NoBox => c.startup.id # NoId \/ Exhausted(c, "startup")

\* No button gets into a toolbar that is not there.
NoneAdded(b, c) == ~hasToolbar' => c.children \subseteq b.children

\* A box that Gajim tells of gets the button, which shows what is going on.
LEMMA CreatedAttaches ==
    ASSUME NEW b, NEW stale, Good(b, stale), NEW box \in Boxes,
           NEW c, c = MessageActionsBoxCreated(b, box)
    PROVE  /\ Good(c, stale) /\ c.box = box /\ c.startup.id = NoId
           /\ Attaching(c) /\ NoneAdded(b, c)
<1> DEFINE single == box \in oneToOne'
           free == Cancel(b, "startup")
           clean == IF free.box = NoBox THEN free ELSE RemoveToolbarControl(free)
           boxed == WithBox(clean, box)
           made == WithButton(boxed, FreshButton(clean))
           labelled == WithLabel(made, "start")
           new == WithShown(labelled, single)
<1>1. c = IF free.box = box THEN ScheduleToolbarAttach(WithShown(free, single))
          ELSE ScheduleToolbarAttach(SetCallActive(new, new.indicator))
  BY DEF MessageActionsBoxCreated, WithBox, WithButton, WithLabel, WithShown
<1>2. single \in BOOLEAN /\ box # NoBox
  BY ToolbarAssumption
<1> HIDE DEF single
<1>3. "startup" \in Searches
  BY DEF Searches
<1>4. Good(free, stale) /\ SameButton(b, free) /\ free["startup"].id = NoId
  BY <1>3, CancelGood
<1> HIDE DEF free
<1>5. CASE free.box = box
  <2> DEFINE d == WithShown(free, single)
  <2>1. c = ScheduleToolbarAttach(d)
    BY <1>1, <1>5
  <2>2. /\ d \in Bars /\ SameSearches(free, d)
        /\ d.box = free.box /\ d.button = free.button /\ d.label = free.label
        /\ d.children = free.children /\ d.indicator = free.indicator
    BY <1>2, <1>4, PutShown DEF Good
  <2> HIDE DEF d
  <2>3. Good(d, stale)
    BY <1>4, <2>2, SameHeld DEF Good, Shows, SameSearches
  <2>4. d.box = box /\ d.children = b.children /\ d.startup.id = NoId
    BY <1>4, <1>5, <2>2 DEF SameButton, SameSearches, Searches
  <2> QED BY <1>2, <2>1, <2>3, <2>4, ScheduleAttaches DEF Attaching, NoneAdded
<1>6. CASE free.box # box
  <2> DEFINE d == SetCallActive(new, new.indicator)
  <2>1. c = ScheduleToolbarAttach(d)
    BY <1>1, <1>6
  <2>2. Good(clean, stale) /\ clean.children = {} /\ clean.startup = free.startup
    <3>1. CASE free.box = NoBox
      BY <1>4, <3>1 DEF Good, Shows
    <3>2. CASE free.box # NoBox
      BY <1>4, <3>2, RemoveClears
    <3> QED BY <3>1, <3>2
  <2>3. FreshButton(clean) = 1
    <3>1. Cardinality(clean.children) + 1 = 1
      BY <2>2, FS_EmptySet
    <3>2. \E n \in 1 .. 1 : n \notin {}
      OBVIOUS
    <3>3. FreshButton(clean) = CHOOSE n \in 1 .. 1 : n \notin {}
      BY <2>2, <3>1 DEF FreshButton
    <3> QED BY <3>2, <3>3
  <2> HIDE DEF clean
  <2>4. /\ boxed \in Bars /\ SameSearches(clean, boxed) /\ boxed.box = box
        /\ boxed.children = {} /\ boxed.indicator = clean.indicator
    BY <2>2, PutBox DEF Good
  <2> HIDE DEF boxed
  <2>5. /\ made \in Bars /\ SameSearches(boxed, made) /\ made.box = box /\ made.button = 1
        /\ made.children = {}
    BY <2>3, <2>4, PutButton
  <2> HIDE DEF made
  <2>6. /\ labelled \in Bars /\ SameSearches(made, labelled) /\ labelled.box = box
        /\ labelled.button = 1 /\ labelled.children = {}
    <3>1. "start" \in Indicators
      BY DEF Indicators
    <3> QED BY <2>5, <3>1, PutLabel
  <2> HIDE DEF labelled
  <2>7. /\ new \in Bars /\ SameSearches(labelled, new) /\ new.box = box
        /\ new.button = 1 /\ new.children = {}
    BY <1>2, <2>6, PutShown
  <2> HIDE DEF new
  <2>8. /\ d \in Bars /\ SameSearches(new, d) /\ d.box = box /\ d.button = 1
        /\ d.children = {} /\ d.indicator = new.indicator /\ d.label = new.indicator
    <3>1. new.indicator \in Indicators
      BY <2>7 DEF Bars
    <3> QED BY <1>2, <2>7, <3>1, SetCallActiveShows
  <2> HIDE DEF d
  <2>9. SameSearches(clean, d)
    BY <2>4, <2>5, <2>6, <2>7, <2>8 DEF SameSearches
  <2>10. Good(d, stale)
    <3>1. Held(d, stale)
      BY <2>2, <2>9, SameHeld DEF Good, SameSearches
    <3> QED BY <1>2, <2>8, <3>1 DEF Good, Shows, NoButton
  <2>11. d.startup.id = NoId
    BY <1>4, <2>2, <2>9 DEF SameSearches, Searches
  <2> QED BY <1>2, <2>1, <2>8, <2>10, <2>11, ScheduleAttaches DEF Attaching, NoneAdded
<1> QED BY <1>5, <1>6

\* A timeout whose id is forgotten is stale.
LEMMA StoppedHeld ==
    ASSUME NEW b, Good(b, {}), NEW which \in Searches, b[which].id # NoId,
           NEW c, c.sources = b.sources, c[which].id = NoId,
           \A w \in Searches \ {which} : c[w].id = b[w].id
    PROVE  Held(c, {Source(which, b[which].id)})
<1> DEFINE stale == {Source(which, b[which].id)}
<1>1. Source(which, b[which].id).search = which /\ Source(which, b[which].id).id = b[which].id
  BY DEF Source
<1>2. ASSUME NEW w \in Searches, c[w].id # NoId
      PROVE  Source(w, c[w].id) \in c.sources \ stale
  <2>1. w # which /\ Source(w, c[w].id) \in c.sources
    BY <1>2 DEF Good, Held
  <2>2. Source(w, c[w].id).search = w
    BY DEF Source
  <2> QED BY <1>1, <2>1, <2>2
<1>3. ASSUME NEW s \in c.sources \ stale PROVE s.search \in Searches /\ s.id = c[s.search].id
  <2>1. s \in b.sources /\ s.search \in Searches /\ s.id = b[s.search].id
    BY <1>3 DEF Good, Held
  <2>2. s = Source(s.search, s.id)
    BY <2>1 DEF Source, Good, Bars
  <2>3. s.search # which
    BY <1>3, <2>1, <2>2
  <2> QED BY <2>1, <2>3
<1>4. c.attach.id # NoId => c.attach.id # c.startup.id
  BY DEF Good, Held, Searches
<1>5. ASSUME NEW s \in stale PROVE s \in c.sources /\ s.id # c.attach.id /\ s.id # c.startup.id
  <2>1. s \in b.sources /\ s.id = b[which].id
    BY <1>1 DEF Good, Held
  <2> QED BY <2>1 DEF Good, Held, Searches
<1>6. \A w \in Searches : c[w].id # NoId => Source(w, c[w].id) \in c.sources \ stale
  BY <1>2
<1>7. \E one : stale \subseteq {one}
  OBVIOUS
<1> QED BY <1>3, <1>4, <1>5, <1>6, <1>7 DEF Held

\* The timeout whose id the plugin forgets.
Forgotten(b) == IF b.startup.id = NoId THEN {} ELSE {Source("startup", b.startup.id)}

\* _ensure_toolbar_registered finds the current box and forgets its timeout, or counts
\* an attempt.
LEMMA EnsureRegisters ==
    ASSUME NEW b, Good(b, {}), CurrentBox \in Boxes \cup {NoBox},
           NEW c, c = EnsureToolbarRegistered(b)
    PROVE  /\ c.box = IF b.box # NoBox THEN b.box ELSE CurrentBox
           /\ Attaching(c) /\ NoneAdded(b, c)
           /\ c.box # NoBox => Good(c, Forgotten(b)) /\ c.startup.id = NoId
           /\ c.box = NoBox =>
                 /\ c \in Bars /\ Shows(c)
                 /\ c.sources = b.sources /\ c.attach = b.attach
                 /\ c.startup.id = IF Exhausted(c, "startup") THEN NoId ELSE b.startup.id
<1> DEFINE found == WithSearch(b, "startup", NoSearch)
<1>1. /\ b.box # NoBox => c = ScheduleToolbarAttach(found)
      /\ b.box = NoBox /\ CurrentBox # NoBox => c = MessageActionsBoxCreated(found, CurrentBox)
      /\ b.box = NoBox /\ CurrentBox = NoBox => c = Attempt(b, "startup")
  BY DEF EnsureToolbarRegistered, WithSearch
<1>2. /\ found \in Bars /\ SameButton(b, found) /\ found.sources = b.sources
      /\ found["startup"] = NoSearch /\ found["attach"] = b["attach"]
  <2>1. NoSearch \in SearchStates
    BY ToolbarAssumption DEF NoSearch, SearchStates, NoId
  <2> QED BY <2>1, PutSearch DEF Good, Searches
<1> HIDE DEF found
<1>3. found.startup.id = NoId /\ Good(found, Forgotten(b))
  <2>1. found.startup.id = NoId /\ found.attach.id = b.attach.id
    BY <1>2 DEF NoSearch
  <2>2. Held(found, Forgotten(b))
    <3>1. CASE b.startup.id = NoId
      <4>1. \A w \in Searches : found[w].id = b[w].id
        BY <1>2, <2>1, <3>1 DEF Searches
      <4> QED BY <1>2, <3>1, <4>1, SameHeld DEF Good, Forgotten
    <3>2. CASE b.startup.id # NoId
      <4>1. "startup" \in Searches /\ \A w \in Searches \ {"startup"} : found[w].id = b[w].id
        BY <1>2 DEF Searches
      <4>2. found["startup"].id = NoId /\ b["startup"].id # NoId
        BY <2>1, <3>2
      <4>3. Held(found, {Source("startup", b["startup"].id)})
        BY <1>2, <4>1, <4>2, StoppedHeld
      <4> QED BY <3>2, <4>3 DEF Forgotten
    <3> QED BY <3>1, <3>2
  <2> QED BY <1>2, <2>1, <2>2 DEF Good, Shows, SameButton
<1>4. CASE b.box # NoBox
  BY <1>1, <1>2, <1>3, <1>4, ScheduleAttaches DEF SameButton, Attaching, NoneAdded
<1>5. CASE b.box = NoBox /\ CurrentBox # NoBox
  BY <1>1, <1>2, <1>3, <1>5, CreatedAttaches DEF SameButton, NoneAdded
<1>6. CASE b.box = NoBox /\ CurrentBox = NoBox
  <2>1. "startup" \in Searches /\ "attach" \in Searches \ {"startup"}
    BY DEF Searches
  <2>2. /\ c \in Bars /\ SameButton(b, c) /\ c.sources = b.sources
        /\ c["startup"].id = IF Exhausted(c, "startup") THEN NoId ELSE b["startup"].id
        /\ c["attach"] = b["attach"]
    BY <1>1, <1>6, <2>1, AttemptCounts DEF Good
  <2>3. c.box = NoBox /\ Shows(c)
    BY <1>6, <2>2 DEF SameButton, Good, Shows
  <2> QED BY <1>6, <2>2, <2>3 DEF Attaching, NoneAdded, SameButton
<1> QED BY <1>4, <1>5, <1>6

\* After _schedule_startup_registration there is a box, or one is being looked for.
LEMMA ScheduleRegisters ==
    ASSUME NEW b, Good(b, {}), CurrentBox \in Boxes \cup {NoBox},
           NEW c, c = ScheduleStartupRegistration(b)
    PROVE  /\ Good(c, {})
           /\ c.box = IF b.box # NoBox THEN b.box ELSE CurrentBox
           /\ Attaching(c) /\ Registering(c) /\ NoneAdded(b, c)
<1> DEFINE free == Cancel(b, "startup")
           tried == EnsureToolbarRegistered(free)
<1>1. c = IF Unregistered(free) THEN Arm(tried, "startup") ELSE tried
  BY DEF ScheduleStartupRegistration
<1>2. "startup" \in Searches /\ "attach" \in Searches \ {"startup"}
  BY DEF Searches
<1>3. Good(free, {}) /\ SameButton(b, free) /\ free["startup"].id = NoId
  BY <1>2, CancelGood
<1>4. Forgotten(free) = {} /\ free.box = b.box /\ free.children = b.children
  BY <1>3 DEF Forgotten, SameButton
<1>5. b.box = NoBox /\ CurrentBox = NoBox => tried = Attempt(free, "startup")
  BY <1>4 DEF EnsureToolbarRegistered
<1>6. Unregistered(free) <=> b.box = NoBox /\ CurrentBox = NoBox
                             /\ ~Exhausted(Attempt(free, "startup"), "startup")
  BY <1>4 DEF Unregistered
<1> HIDE DEF free
<1>7. /\ tried.box = IF b.box # NoBox THEN b.box ELSE CurrentBox
      /\ Attaching(tried) /\ NoneAdded(b, tried)
      /\ tried.box # NoBox => Good(tried, {})
      /\ tried.box = NoBox =>
            /\ tried \in Bars /\ Shows(tried)
            /\ tried.sources = free.sources /\ tried.attach = free.attach
            /\ tried.startup.id = NoId
  <2>1. CurrentBox \in Boxes \cup {NoBox}
    OBVIOUS
  <2> QED BY <1>3, <1>4, <2>1, EnsureRegisters DEF NoneAdded
<1> HIDE DEF tried
<1>8. Good(tried, {})
  <2>1. CASE tried.box = NoBox
    <3>1. \A w \in Searches : tried[w].id = free[w].id
      BY <1>3, <1>7, <2>1 DEF Searches
    <3>2. Held(free, {})
      BY <1>3 DEF Good
    <3> QED BY <1>7, <2>1, <3>1, <3>2, SameHeld DEF Good
  <2> QED BY <1>7, <2>1
<1>9. CASE Unregistered(free)
  <2>1. tried.box = NoBox /\ tried["startup"].id = NoId /\ c = Arm(tried, "startup")
    BY <1>1, <1>6, <1>7, <1>9
  <2>2. Good(c, {}) /\ SameButton(tried, c) /\ c["startup"].id # NoId
    BY <1>2, <1>8, <2>1, ArmGood
  <2> QED BY <1>7, <2>1, <2>2 DEF SameButton, Attaching, Registering, NoneAdded
<1>10. CASE ~Unregistered(free)
  <2>1. c = tried
    BY <1>1, <1>10
  <2>2. Registering(tried)
    BY <1>5, <1>6, <1>7, <1>10 DEF Registering
  <2> QED BY <1>7, <1>8, <2>1, <2>2
<1> QED BY <1>9, <1>10

\* The box of the button is replaced when it goes.
LEMMA DestroyedRegisters ==
    ASSUME NEW b, Good(b, {}), CurrentBox \in Boxes \cup {NoBox}, NEW box, b.box = box,
           box # NoBox, NEW c, c = MessageActionsBoxDestroyed(b, box)
    PROVE  /\ Good(c, {}) /\ c.box = CurrentBox
           /\ Attaching(c) /\ Registering(c) /\ NoneAdded(b, c)
<1> DEFINE bare == RemoveToolbarControl(b)
<1>1. c = ScheduleStartupRegistration(bare)
  BY DEF MessageActionsBoxDestroyed
<1>2. Good(bare, {}) /\ bare.box = NoBox /\ bare.children = {}
  BY RemoveClears
<1> HIDE DEF bare
<1>3. CurrentBox \in Boxes \cup {NoBox}
  OBVIOUS
<1> QED BY <1>1, <1>2, <1>3, ScheduleRegisters DEF NoneAdded

\* GLib drops the stale timeout.
LEMMA DroppedGood ==
    ASSUME NEW b, NEW source, Good(b, {source}), NEW c,
           c = WithSources(b, b.sources \ {source})
    PROVE  /\ Good(c, {}) /\ SameButton(b, c)
           /\ \A w \in Searches : c[w] = b[w]
<1>1. b.sources \ {source} \in SUBSET [search: Searches, id: 1 .. 3]
  BY DEF Good, Bars
<1>2. /\ c \in Bars /\ SameButton(b, c) /\ c.sources = b.sources \ {source}
      /\ \A w \in Searches : c[w] = b[w]
  BY <1>1, PutSources DEF Good
<1>3. c.attach = b.attach /\ c.startup = b.startup
  BY <1>2 DEF Searches
<1>4. Held(c, {})
  <2>1. /\ \A w \in Searches : c[w].id # NoId => Source(w, c[w].id) \in c.sources
        /\ \A s \in c.sources : s.search \in Searches /\ s.id = c[s.search].id
    BY <1>2 DEF Good, Held
  <2> QED BY <1>3, <2>1 DEF Good, Held
<1> QED BY <1>2, <1>4 DEF Good, Shows, SameButton

\* A callback leaves the button attached or the searches under way.
LEMMA FireLooks ==
    ASSUME NEW b, Good(b, {}), Registering(b), CurrentBox \in Boxes \cup {NoBox},
           NEW source \in b.sources, NEW c, c = Fire(b, source)
    PROVE  /\ Good(c, {}) /\ c.box \in {b.box, CurrentBox}
           /\ Attaching(c) /\ Registering(c) /\ NoneAdded(b, c)
<1>1. /\ source.search \in Searches /\ source.id = b[source.search].id /\ source.id # NoId
      /\ source = Source(source.search, source.id)
  BY DEF Good, Held, Bars, NoId, Source
<1>2. CASE source.search = "attach"
  <2> DEFINE after == AttachToolbarControl(b)
  <2>1. c = IF Unattached(b) THEN after ELSE WithSources(after, after.sources \ {source})
    BY <1>2 DEF Fire, WithSources
  <2>2. Unattached(b) <=> b.box # NoBox /\ ~hasToolbar' /\ ~Exhausted(after, "attach")
    BY DEF Unattached
  <2>3. source = Source("attach", b.attach.id) /\ b.attach.id # NoId
    BY <1>1, <1>2
  <2>4. b.box = NoBox => after = WithSearch(b, "attach", [b.attach EXCEPT !.id = NoId])
    BY DEF AttachToolbarControl, WithSearch
  <2> HIDE DEF after
  <2>5. /\ after \in Bars /\ Shows(after) /\ after.box = b.box /\ after.sources = b.sources
        /\ after.startup = b.startup /\ after.children \subseteq {b.button} \cup b.children
        /\ ~hasToolbar' => after.children = b.children
        /\ IF Unattached(b) THEN after.attach.id = b.attach.id ELSE after.attach.id = NoId
        /\ Attaching(after)
    <3>1. CASE b.box = NoBox
      <4> DEFINE search == [b.attach EXCEPT !.id = NoId]
      <4>1. search \in SearchStates /\ search.id = NoId
        BY DEF Good, Bars, SearchStates, NoId
      <4>2. "attach" \in Searches /\ "startup" \in Searches \ {"attach"} /\ b \in Bars
        BY DEF Searches, Good
      <4>3. after = WithSearch(b, "attach", search)
        BY <2>4, <3>1
      <4> HIDE DEF search
      <4>4. /\ after \in Bars /\ SameButton(b, after) /\ after.sources = b.sources
            /\ after["attach"] = search /\ after["startup"] = b["startup"]
        BY <4>1, <4>2, <4>3, PutSearch
      <4> QED BY <2>2, <3>1, <4>1, <4>4 DEF SameButton, Attaching, Good, Shows
    <3>2. CASE b.box # NoBox
      <4>1. /\ after \in Bars /\ Shows(after)
            /\ after.box = b.box /\ after.button = b.button
            /\ after.sources = b.sources /\ after.startup = b.startup
            /\ hasToolbar' => after.button \in after.children /\ after.attach.id = NoId
            /\ ~hasToolbar' =>
                  /\ after.children = b.children
                  /\ after.attach.id = IF Exhausted(after, "attach") THEN NoId ELSE b.attach.id
        BY <3>2, AttachShows DEF after
      <4> QED BY <2>2, <2>3, <3>2, <4>1 DEF Attaching, Shows
    <3> QED BY <3>1, <3>2
  <2>6. CASE Unattached(b)
    <3>1. \A w \in Searches : after[w].id = b[w].id
      BY <2>5, <2>6 DEF Searches
    <3>2. Good(after, {})
      BY <2>5, <3>1, SameHeld DEF Good
    <3> QED BY <2>1, <2>5, <2>6, <3>2 DEF Registering, Exhausted, NoneAdded
  <2>7. CASE ~Unattached(b)
    <3>1. Good(after, {source})
      <4>1. "attach" \in Searches /\ \A w \in Searches \ {"attach"} : after[w].id = b[w].id
        BY <2>5 DEF Searches
      <4>2. after["attach"].id = NoId /\ b["attach"].id # NoId
        BY <2>3, <2>5, <2>7
      <4>3. Held(after, {Source("attach", b["attach"].id)})
        BY <2>5, <4>1, <4>2, StoppedHeld
      <4> QED BY <2>3, <2>5, <4>3 DEF Good
    <3>2. c = WithSources(after, after.sources \ {source})
      BY <2>1, <2>7
    <3>3. /\ Good(c, {}) /\ SameButton(after, c)
          /\ c.attach = after.attach /\ c.startup = after.startup
      BY <3>1, <3>2, DroppedGood DEF Searches
    <3> QED BY <2>5, <3>3 DEF SameButton, Attaching, Registering, Exhausted, NoneAdded
  <2> QED BY <2>6, <2>7
<1>3. CASE source.search = "startup"
  <2> DEFINE after == EnsureToolbarRegistered(b)
  <2>1. c = IF Unregistered(b) THEN after ELSE WithSources(after, after.sources \ {source})
    BY <1>3 DEF Fire, WithSources
  <2>2. b.box = NoBox /\ CurrentBox = NoBox => after = Attempt(b, "startup")
    BY DEF EnsureToolbarRegistered
  <2>3. Unregistered(b) <=> b.box = NoBox /\ CurrentBox = NoBox /\ ~Exhausted(after, "startup")
    BY <2>2 DEF Unregistered
  <2>4. source = Source("startup", b.startup.id) /\ b.startup.id # NoId /\ Forgotten(b) = {source}
    BY <1>1, <1>3 DEF Forgotten
  <2>5. /\ after.box = IF b.box # NoBox THEN b.box ELSE CurrentBox
        /\ Attaching(after) /\ NoneAdded(b, after)
        /\ after.box # NoBox => Good(after, {source}) /\ after.startup.id = NoId
        /\ after.box = NoBox =>
              /\ after \in Bars /\ Shows(after)
              /\ after.sources = b.sources /\ after.attach = b.attach
              /\ after.startup.id = IF Exhausted(after, "startup") THEN NoId ELSE b.startup.id
    <3>1. CurrentBox \in Boxes \cup {NoBox}
      OBVIOUS
    <3> QED BY <2>4, <3>1, EnsureRegisters
  <2> HIDE DEF after
  <2>6. CASE Unregistered(b)
    <3>1. after.box = NoBox /\ after.startup.id = b.startup.id /\ c = after
      BY <2>1, <2>3, <2>5, <2>6
    <3>2. \A w \in Searches : after[w].id = b[w].id
      BY <2>5, <3>1 DEF Searches
    <3>3. Good(after, {})
      BY <2>5, <3>1, <3>2, SameHeld DEF Good
    <3> QED BY <2>4, <2>5, <3>1, <3>3 DEF Registering
  <2>7. CASE ~Unregistered(b)
    <3>1. after.box = NoBox => Exhausted(after, "startup") /\ after.startup.id = NoId
      BY <2>3, <2>5, <2>7
    <3>2. Good(after, {source})
      <4>1. CASE after.box = NoBox
        <5>1. "startup" \in Searches /\ \A w \in Searches \ {"startup"} : after[w].id = b[w].id
          BY <2>5, <4>1 DEF Searches
        <5>2. after["startup"].id = NoId /\ b["startup"].id # NoId
          BY <2>4, <3>1, <4>1
        <5>3. Held(after, {Source("startup", b["startup"].id)})
          BY <2>5, <4>1, <5>1, <5>2, StoppedHeld
        <5> QED BY <2>4, <2>5, <4>1, <5>3 DEF Good
      <4> QED BY <2>5, <4>1
    <3>3. c = WithSources(after, after.sources \ {source})
      BY <2>1, <2>7
    <3>4. /\ Good(c, {}) /\ SameButton(after, c)
          /\ c.attach = after.attach /\ c.startup = after.startup
      BY <3>2, <3>3, DroppedGood DEF Searches
    <3> QED BY <2>5, <3>1, <3>4 DEF SameButton, Attaching, Registering, Exhausted, NoneAdded
  <2> QED BY <2>6, <2>7
<1> QED BY <1>1, <1>2, <1>3 DEF Searches

-----------------------------------------------------------------------------
(* The handlers do not change which call the button has to show.           *)

HasIndicator(b) == "indicator" \in DOMAIN b

\* The one state has the other's fields and shows the same call.
SameIndicator(b, c) == DOMAIN c = DOMAIN b /\ c.indicator = b.indicator

\* The searches are kept in other fields.
LEMMA SearchesKeepIndicator ==
    ASSUME NEW b, HasIndicator(b), NEW which \in Searches
    PROVE  SameIndicator(b, Cancel(b, which)) /\ SameIndicator(b, Arm(b, which))
           /\ SameIndicator(b, Attempt(b, which))
BY DEF HasIndicator, SameIndicator, Searches, Cancel, Arm, Attempt

\* The button's place is looked for with the call it has to show.
LEMMA AttachingKeepsIndicator ==
    ASSUME NEW b, HasIndicator(b)
    PROVE  /\ SameIndicator(b, AttachToolbarControl(b))
           /\ SameIndicator(b, ScheduleToolbarAttach(b))
<1>1. ASSUME NEW c, HasIndicator(c) PROVE SameIndicator(c, AttachToolbarControl(c))
  <2>1. SameIndicator(c, [c EXCEPT !.attach.id = NoId])
    BY <1>1 DEF HasIndicator, SameIndicator
  <2> DEFINE seen == [c EXCEPT !.shown = c.box \in oneToOne']
             placed == [seen EXCEPT !.children = @ \cup {c.button}, !.attach = NoSearch]
  <2>2. SameIndicator(c, seen)
    BY <1>1 DEF HasIndicator, SameIndicator
  <2>3. SameIndicator(c, placed)
    BY <1>1, <2>2 DEF HasIndicator, SameIndicator
  <2>4. SameIndicator(c, Attempt(seen, "attach"))
    <3> HIDE DEF seen
    <3> QED BY <1>1, <2>2, SearchesKeepIndicator DEF HasIndicator, SameIndicator, Searches
  <2>5. SameIndicator(c, SetCallActive(placed, c.indicator))
    <3> HIDE DEF placed
    <3> QED BY <1>1, <2>3 DEF HasIndicator, SameIndicator, SetCallActive
  <2> QED BY <2>1, <2>4, <2>5 DEF AttachToolbarControl
<1> DEFINE free == Cancel(b, "attach")
<1>2. SameIndicator(b, free)
  BY SearchesKeepIndicator DEF Searches
<1> HIDE DEF free
<1>3. HasIndicator(free) /\ SameIndicator(b, AttachToolbarControl(free))
  BY <1>1, <1>2 DEF HasIndicator, SameIndicator
<1> DEFINE tried == AttachToolbarControl(free)
<1>4. SameIndicator(b, tried)
  BY <1>3
<1> HIDE DEF tried
<1>5. SameIndicator(b, Arm(tried, "attach"))
  BY <1>4, SearchesKeepIndicator DEF HasIndicator, SameIndicator, Searches
<1>6. ScheduleToolbarAttach(b) \in {tried, Arm(tried, "attach")}
  BY DEF ScheduleToolbarAttach, free, tried
<1> QED BY <1>1, <1>4, <1>5, <1>6

\* A button that is made shows it, and one that is removed does not take it along.
LEMMA BoxesKeepIndicator ==
    ASSUME NEW b, HasIndicator(b)
    PROVE  /\ SameIndicator(b, RemoveToolbarControl(b))
           /\ \A box : SameIndicator(b, MessageActionsBoxCreated(b, box))
<1>1. ASSUME NEW c, HasIndicator(c) PROVE SameIndicator(c, RemoveToolbarControl(c))
  <2> DEFINE free == Cancel(c, "attach")
  <2>1. SameIndicator(c, free)
    BY <1>1, SearchesKeepIndicator DEF Searches
  <2> HIDE DEF free
  <2>2. RemoveToolbarControl(c) = [free EXCEPT !.box = NoBox, !.button = NoButton,
                                               !.children = @ \ {c.button}]
    BY DEF RemoveToolbarControl, free
  <2> QED BY <1>1, <2>1, <2>2 DEF HasIndicator, SameIndicator
<1>2. ASSUME NEW box PROVE SameIndicator(b, MessageActionsBoxCreated(b, box))
  <2> DEFINE free == Cancel(b, "startup")
             clean == IF free.box = NoBox THEN free ELSE RemoveToolbarControl(free)
             new == [clean EXCEPT !.box = box, !.button = FreshButton(clean),
                                  !.label = "start", !.shown = box \in oneToOne']
             shown == [free EXCEPT !.shown = box \in oneToOne']
  <2>1. SameIndicator(b, free)
    BY SearchesKeepIndicator DEF Searches
  <2>2. SameIndicator(b, clean)
    <3> HIDE DEF free
    <3> QED BY <1>1, <2>1 DEF HasIndicator, SameIndicator
  <2>3. SameIndicator(b, shown)
    <3> HIDE DEF free
    <3> QED BY <2>1 DEF HasIndicator, SameIndicator
  <2>4. SameIndicator(b, SetCallActive(new, new.indicator))
    <3> HIDE DEF clean
    <3>1. SameIndicator(b, new)
      BY <2>2 DEF HasIndicator, SameIndicator
    <3> HIDE DEF new
    <3> QED BY <3>1 DEF HasIndicator, SameIndicator, SetCallActive
  <2>5. ASSUME NEW c, SameIndicator(b, c) PROVE SameIndicator(b, ScheduleToolbarAttach(c))
    BY <2>5, AttachingKeepsIndicator DEF HasIndicator, SameIndicator
  <2>6. MessageActionsBoxCreated(b, box) \in
          {ScheduleToolbarAttach(shown), ScheduleToolbarAttach(SetCallActive(new, new.indicator))}
    BY DEF MessageActionsBoxCreated
  <2> QED BY <2>3, <2>4, <2>5, <2>6
<1> QED BY <1>1, <1>2

\* So do the searches for a box, a box that goes, and the timeouts.
LEMMA HandlersKeepIndicator ==
    ASSUME NEW b, HasIndicator(b)
    PROVE  /\ SameIndicator(b, ScheduleStartupRegistration(b))
           /\ \A box : SameIndicator(b, MessageActionsBoxDestroyed(b, box))
           /\ \A source : SameIndicator(b, Fire(b, source))
<1>1. ASSUME NEW c, HasIndicator(c) PROVE SameIndicator(c, EnsureToolbarRegistered(c))
  <2> DEFINE found == [c EXCEPT !.startup = NoSearch]
  <2>1. SameIndicator(c, found)
    BY <1>1 DEF HasIndicator, SameIndicator
  <2>2. EnsureToolbarRegistered(c) \in
          {ScheduleToolbarAttach(found), MessageActionsBoxCreated(found, CurrentBox),
           Attempt(c, "startup")}
    BY DEF EnsureToolbarRegistered
  <2> HIDE DEF found
  <2>3. HasIndicator(found)
    BY <1>1, <2>1 DEF HasIndicator, SameIndicator
  <2>4. /\ SameIndicator(found, ScheduleToolbarAttach(found))
        /\ SameIndicator(found, MessageActionsBoxCreated(found, CurrentBox))
    BY <2>3, AttachingKeepsIndicator, BoxesKeepIndicator
  <2>5. SameIndicator(c, Attempt(c, "startup"))
    BY <1>1, SearchesKeepIndicator DEF Searches
  <2> QED BY <2>1, <2>2, <2>4, <2>5 DEF SameIndicator
<1>2. ASSUME NEW c, HasIndicator(c) PROVE SameIndicator(c, ScheduleStartupRegistration(c))
  <2> DEFINE free == Cancel(c, "startup")
  <2>1. SameIndicator(c, free)
    BY <1>2, SearchesKeepIndicator DEF Searches
  <2> DEFINE tried == EnsureToolbarRegistered(free)
  <2>2. ScheduleStartupRegistration(c) \in {tried, Arm(tried, "startup")}
    BY DEF ScheduleStartupRegistration
  <2> HIDE DEF free
  <2>3. SameIndicator(c, tried)
    BY <1>1, <1>2, <2>1 DEF HasIndicator, SameIndicator
  <2> HIDE DEF tried
  <2> QED BY <1>2, <2>2, <2>3, SearchesKeepIndicator DEF HasIndicator, SameIndicator, Searches
<1>3. ASSUME NEW box PROVE SameIndicator(b, MessageActionsBoxDestroyed(b, box))
  <2> DEFINE bare == RemoveToolbarControl(b)
  <2>1. SameIndicator(b, bare)
    BY BoxesKeepIndicator
  <2>2. MessageActionsBoxDestroyed(b, box) \in {b, ScheduleStartupRegistration(bare)}
    BY DEF MessageActionsBoxDestroyed
  <2> HIDE DEF bare
  <2> QED BY <1>2, <2>1, <2>2 DEF HasIndicator, SameIndicator
<1>4. ASSUME NEW source PROVE SameIndicator(b, Fire(b, source))
  <2> DEFINE after == IF source.search = "attach" THEN AttachToolbarControl(b)
                                                  ELSE EnsureToolbarRegistered(b)
  <2>1. SameIndicator(b, after)
    BY <1>1, AttachingKeepsIndicator
  <2>2. Fire(b, source) \in {after, [after EXCEPT !.sources = @ \ {source}]}
    BY DEF Fire
  <2> HIDE DEF after
  <2> QED BY <2>1, <2>2 DEF HasIndicator, SameIndicator
<1> QED BY <1>2, <1>3, <1>4

-----------------------------------------------------------------------------
(* The plugin and Gajim's window.                                          *)

WindowTyped ==
    /\ boxes \subseteq Boxes /\ mapped \in boxes \cup {NoBox}
    /\ hasToolbar \in BOOLEAN /\ active \in BOOLEAN

\* The button's box is one of the window's; there is no button without a toolbar; the
\* plugin's flag is the call the controller has, unless that was dropped; and an
\* inactive plugin has left nothing behind.
PluginInvariant ==
    /\ WindowTyped
    /\ Good(bar, {}) /\ bar.box \in boxes \cup {NoBox}
    /\ ~hasToolbar => bar.children = {}
    /\ call \in Indicators \cup {"dropped"} /\ (call # "dropped" => bar.indicator = call)
    /\ IF active THEN KeepsLooking
       ELSE /\ bar.box = NoBox /\ bar.children = {}
            /\ bar.attach.id = NoId /\ bar.startup.id = NoId

\* The box that is found is one of the window's.
LEMMA CurrentBoxIsShown ==
    ASSUME WindowTyped'
    PROVE  CurrentBox \in boxes' \cup {NoBox} /\ CurrentBox \in Boxes \cup {NoBox}
<1>1. boxes' # {} => (CHOOSE box \in boxes' : TRUE) \in boxes'
  OBVIOUS
<1> QED BY <1>1 DEF CurrentBox, WindowTyped

\* What a handler of an active plugin has to leave.
LEMMA HandlerKeeps ==
    ASSUME PluginInvariant, SameIndicator(bar, bar'), call' = call,
           WindowTyped', active', Good(bar', {}), bar'.box \in boxes' \cup {NoBox},
           Attaching(bar'), Registering(bar'), ~hasToolbar' => bar'.children = {}
    PROVE  PluginInvariant'
BY DEF PluginInvariant, KeepsLooking, Attaching, Registering, Exhausted, SameIndicator

\* A step that only shows another call.
LEMMA IndicatorKeeps ==
    ASSUME PluginInvariant, UNCHANGED <<widgets, lifeVars>>, NEW indicator \in Indicators,
           Show(indicator)
    PROVE  PluginInvariant'
<1> DEFINE c == SetCallActive(bar, indicator)
<1>1. /\ c \in Bars /\ SameSearches(bar, c)
      /\ c.indicator = indicator /\ (c.box # NoBox => c.label = indicator)
      /\ c.box = bar.box /\ c.button = bar.button /\ c.children = bar.children
  BY SetCallActiveShows DEF PluginInvariant, Good
<1>2. c = bar' /\ call' = indicator
  BY DEF Show
<1> HIDE DEF c
<1>3. Good(c, {}) /\ c.attach = bar.attach /\ c.startup = bar.startup
  BY <1>1, SameHeld DEF SameSearches, Searches, PluginInvariant, Good, Shows
<1> QED BY <1>1, <1>2, <1>3 DEF PluginInvariant, WindowTyped, widgets, lifeVars, KeepsLooking,
       Exhausted

\* activate finds a box or looks for one.
LEMMA ActivateKeeps ==
    ASSUME PluginInvariant, Activate
    PROVE  PluginInvariant'
<1>1. /\ UNCHANGED widgets /\ active' /\ WindowTyped' /\ call' = call
      /\ Good(bar, {}) /\ bar.box = NoBox /\ bar.children = {} /\ HasIndicator(bar)
  BY DEF Activate, PluginInvariant, WindowTyped, widgets, Good, Bars, HasIndicator
<1> DEFINE Ready(b) == /\ Good(b, {}) /\ b.box \in boxes' \cup {NoBox} /\ NoneAdded(bar, b)
                       /\ SameIndicator(bar, b)
<1>2. PICK told \in ToldOfBoxes : bar' = ScheduleStartupRegistration(told)
  BY DEF Activate
<1>3. Ready(told)
  <2>1. Ready(bar)
    BY <1>1 DEF NoneAdded, SameIndicator
  <2>2. ASSUME NEW b, Ready(b), NEW box \in boxes PROVE Ready(MessageActionsBoxCreated(b, box))
    <3>1. box \in Boxes /\ boxes' = boxes /\ HasIndicator(b)
      BY <1>1, <2>2 DEF PluginInvariant, WindowTyped, widgets, HasIndicator, SameIndicator
    <3> DEFINE c == MessageActionsBoxCreated(b, box)
    <3>2. Good(c, {}) /\ c.box = box /\ NoneAdded(b, c) /\ SameIndicator(b, c)
      BY <2>2, <3>1, CreatedAttaches, BoxesKeepIndicator
    <3> HIDE DEF c
    <3>3. Ready(c)
      BY <2>2, <3>1, <3>2 DEF NoneAdded, SameIndicator
    <3> QED BY <3>3 DEF c
  <2> HIDE DEF Ready
  <2> QED BY <2>1, <2>2 DEF ToldOfBoxes
<1>4. CurrentBox \in boxes' \cup {NoBox} /\ CurrentBox \in Boxes \cup {NoBox}
  BY <1>1, CurrentBoxIsShown
<1>5. /\ Good(bar', {}) /\ bar'.box = (IF told.box # NoBox THEN told.box ELSE CurrentBox)
      /\ Attaching(bar') /\ Registering(bar') /\ NoneAdded(told, bar')
  BY <1>2, <1>3, <1>4, ScheduleRegisters
<1>6. ~hasToolbar' => bar'.children = {}
  BY <1>1, <1>3, <1>5 DEF NoneAdded
<1>7. SameIndicator(told, bar')
  BY <1>1, <1>2, <1>3, HandlersKeepIndicator DEF HasIndicator, SameIndicator
<1>8. SameIndicator(bar, bar')
  BY <1>3, <1>7 DEF SameIndicator
<1> QED BY <1>1, <1>3, <1>4, <1>5, <1>6, <1>8, HandlerKeeps

\* deactivate leaves neither a button nor a timeout.
LEMMA DeactivateKeeps ==
    ASSUME PluginInvariant, Deactivate
    PROVE  PluginInvariant'
<1>1. /\ UNCHANGED widgets /\ active' = FALSE /\ WindowTyped' /\ Good(bar, {})
      /\ HasIndicator(bar)
  BY DEF Deactivate, PluginInvariant, WindowTyped, widgets, Good, Bars, HasIndicator
<1> DEFINE Ready(b) == Good(b, {}) /\ SameIndicator(bar, b)
<1>2. PICK told \in ToldTheyAreGone :
         bar' = RemoveToolbarControl(Cancel(told, "startup"))
  BY DEF Deactivate
<1>3. Ready(told)
  <2>1. Ready(bar)
    BY <1>1 DEF SameIndicator
  <2>2. ASSUME NEW b, Ready(b), NEW box \in boxes PROVE Ready(MessageActionsBoxDestroyed(b, box))
    <3>1. box # NoBox /\ HasIndicator(b)
      BY <1>1, <2>2, ToolbarAssumption DEF PluginInvariant, WindowTyped, HasIndicator,
         SameIndicator
    <3> DEFINE c == MessageActionsBoxDestroyed(b, box)
    <3>2. SameIndicator(b, c)
      BY <3>1, HandlersKeepIndicator
    <3>3. CASE b.box # box
      BY <2>2, <3>3 DEF MessageActionsBoxDestroyed
    <3>4. CASE b.box = box
      <4>1. CurrentBox \in Boxes \cup {NoBox}
        BY <1>1, CurrentBoxIsShown
      <4>2. Good(c, {})
        BY <2>2, <3>1, <3>4, <4>1, DestroyedRegisters
      <4> HIDE DEF c
      <4>3. Ready(c)
        BY <2>2, <3>2, <4>2 DEF SameIndicator
      <4> QED BY <4>3 DEF c
    <3> QED BY <3>3, <3>4
  <2> HIDE DEF Ready
  <2> QED BY <2>1, <2>2 DEF ToldTheyAreGone
<1> DEFINE free == Cancel(told, "startup")
<1>4. Good(free, {}) /\ free["startup"].id = NoId
  BY <1>3, CancelGood DEF Searches
<1>5. bar' = RemoveToolbarControl(free)
  BY <1>2
<1>6. HasIndicator(free) /\ SameIndicator(bar, free)
  BY <1>1, <1>3, SearchesKeepIndicator DEF Searches, HasIndicator, SameIndicator
<1> HIDE DEF free
<1>7. /\ Good(bar', {}) /\ bar'.box = NoBox /\ bar'.children = {}
      /\ bar'.attach.id = NoId /\ bar'.startup = free.startup
  BY <1>4, <1>5, RemoveClears
<1>8. bar'.indicator = bar.indicator
  BY <1>5, <1>6, BoxesKeepIndicator DEF SameIndicator
<1>9. call' \in Indicators \cup {"dropped"} /\ (call' # "dropped" => bar'.indicator = call')
  BY <1>8 DEF Deactivate, PluginInvariant, Indicators
<1> QED BY <1>1, <1>4, <1>7, <1>9 DEF PluginInvariant

\* A box that appears while the plugin is active gets the button.
LEMMA WindowKeeps ==
    ASSUME PluginInvariant, NEW box \in Boxes, BoxMade(box) \/ ChatShown(box) \/ ToolbarBuilt
    PROVE  PluginInvariant'
<1>1. WindowTyped' /\ active' = active /\ call' = call /\ HasIndicator(bar)
  BY DEF Good, Bars, HasIndicator, BoxMade, ChatShown, ToolbarBuilt, PluginInvariant, WindowTyped, lifeVars
<1>2. CASE UNCHANGED bar
  BY <1>1, <1>2 DEF BoxMade, ChatShown, ToolbarBuilt, PluginInvariant, KeepsLooking
<1>3. CASE BoxMade(box) /\ active
  <2>1. bar' = MessageActionsBoxCreated(bar, box) /\ boxes' = boxes \cup {box}
        /\ hasToolbar' = hasToolbar
    BY <1>3 DEF BoxMade
  <2>2. /\ Good(bar', {}) /\ bar'.box = box /\ bar'.startup.id = NoId
        /\ Attaching(bar') /\ NoneAdded(bar, bar')
    BY <2>1, CreatedAttaches DEF PluginInvariant
  <2>3. Registering(bar')
    BY <2>2, ToolbarAssumption DEF Registering
  <2>4. SameIndicator(bar, bar')
    BY <1>1, <2>1, BoxesKeepIndicator
  <2> QED BY <1>1, <1>3, <2>1, <2>2, <2>3, <2>4, HandlerKeeps DEF PluginInvariant, NoneAdded
<1> QED BY <1>2, <1>3 DEF BoxMade, ChatShown, ToolbarBuilt

\* The button moves from a box that goes to another one, or a search for one begins.
LEMMA BoxGoneKeeps ==
    ASSUME PluginInvariant, NEW box \in Boxes, BoxGone(box)
    PROVE  PluginInvariant'
<1> DEFINE children == IF hasToolbar' THEN bar.children ELSE {}
           left == WithChildren(bar, children)
<1>1. /\ box \in boxes /\ boxes' = boxes \ {box}
      /\ mapped' = (IF mapped = box THEN NoBox ELSE mapped)
      /\ hasToolbar' = (hasToolbar /\ boxes' # {})
      /\ active' = active /\ call' = call
  BY DEF BoxGone, lifeVars
<1>2. bar' = IF active THEN MessageActionsBoxDestroyed(left, box) ELSE left
  BY DEF BoxGone, WithChildren
<1>3. WindowTyped' /\ box # NoBox
  BY <1>1, ToolbarAssumption DEF PluginInvariant, WindowTyped
<1>4. /\ left \in Bars /\ SameSearches(bar, left) /\ left.children = children
      /\ left.box = bar.box /\ left.button = bar.button /\ left.label = bar.label
      /\ left.indicator = bar.indicator
  <2>1. children \in SUBSET Nat /\ bar \in Bars
    BY DEF PluginInvariant, Good, Bars
  <2> HIDE DEF children
  <2> QED BY <2>1, PutChildren
<1> HIDE DEF left
<1>5. Good(left, {}) /\ left.attach = bar.attach /\ left.startup = bar.startup
  BY <1>4, SameHeld DEF SameSearches, Searches, PluginInvariant, Good, Shows
<1>6. CASE active /\ bar.box = box
  <2>1. CurrentBox \in boxes' \cup {NoBox} /\ CurrentBox \in Boxes \cup {NoBox}
    BY <1>3, CurrentBoxIsShown
  <2>2. bar' = MessageActionsBoxDestroyed(left, box) /\ left.box = box
    BY <1>2, <1>4, <1>6
  <2>3. /\ Good(bar', {}) /\ bar'.box = CurrentBox
        /\ Attaching(bar') /\ Registering(bar') /\ NoneAdded(left, bar')
    BY <1>3, <1>5, <2>1, <2>2, DestroyedRegisters
  <2>4. HasIndicator(left) /\ bar.indicator = left.indicator /\ DOMAIN left = DOMAIN bar
    BY <1>4 DEF PluginInvariant, Good, Bars, HasIndicator
  <2>5. SameIndicator(bar, bar')
    BY <2>2, <2>4, HandlersKeepIndicator DEF SameIndicator
  <2> QED BY <1>1, <1>3, <1>4, <1>6, <2>1, <2>3, <2>5, HandlerKeeps DEF NoneAdded
<1>7. CASE ~(active /\ bar.box = box)
  <2>1. bar' = left
    BY <1>2, <1>4, <1>7 DEF MessageActionsBoxDestroyed
  <2>2. ~active => bar.box = NoBox /\ bar.children = {}
    BY DEF PluginInvariant
  <2>3. bar.box # NoBox => bar.box \in boxes'
    BY <1>1, <1>7, <2>2 DEF PluginInvariant
  <2>4. bar.box # NoBox => left.children = bar.children
    BY <1>1, <1>4, <2>3 DEF PluginInvariant
  <2>5. bar'.box \in boxes' \cup {NoBox} /\ (~hasToolbar' => bar'.children = {})
    BY <1>4, <2>1, <2>3
  <2>6. active => KeepsLooking'
    BY <1>4, <1>5, <2>1, <2>4 DEF PluginInvariant, KeepsLooking, Exhausted
  <2> QED BY <1>1, <1>3, <1>4, <1>5, <2>1, <2>2, <2>5, <2>6 DEF PluginInvariant
<1> QED BY <1>6, <1>7

\* A timeout that fires ends its search or goes on with it.
LEMMA TimeoutKeeps ==
    ASSUME PluginInvariant, NEW source \in bar.sources, Timeout(source)
    PROVE  PluginInvariant'
<1>1. /\ UNCHANGED widgets /\ active' = active /\ WindowTyped' /\ bar' = Fire(bar, source)
      /\ call' = call /\ HasIndicator(bar)
  BY DEF Good, Bars, HasIndicator, Timeout, lifeVars, PluginInvariant, WindowTyped, widgets
<1>2. active
  BY DEF PluginInvariant, Good, Held, Bars, Searches, NoId
<1>3. CurrentBox \in boxes' \cup {NoBox} /\ CurrentBox \in Boxes \cup {NoBox}
  BY <1>1, CurrentBoxIsShown
<1>4. Registering(bar)
  BY <1>2 DEF PluginInvariant, KeepsLooking, Registering
<1>5. /\ Good(bar', {}) /\ bar'.box \in {bar.box, CurrentBox}
      /\ Attaching(bar') /\ Registering(bar') /\ NoneAdded(bar, bar')
  BY <1>1, <1>3, <1>4, FireLooks DEF PluginInvariant
<1>6. SameIndicator(bar, bar')
  BY <1>1, HandlersKeepIndicator
<1> QED BY <1>1, <1>2, <1>3, <1>5, <1>6, HandlerKeeps DEF PluginInvariant, NoneAdded, widgets

\* The invariant is inductive: one lemma above for each action.
LEMMA PluginInvariantHolds == PluginSpec => []PluginInvariant
<1>1. PluginInit => PluginInvariant
  <2> SUFFICES ASSUME PluginInit PROVE PluginInvariant
    OBVIOUS
  <2>1. NoSearch \in SearchStates /\ NoSearch.id = NoId
    BY ToolbarAssumption DEF NoSearch, SearchStates, NoId
  <2>2. InitialBar \in Bars
    BY <2>1 DEF InitialBar, Bars, Indicators, NoButton
  <2>3. /\ InitialBar.attach.id = NoId /\ InitialBar.startup.id = NoId
        /\ InitialBar.sources = {} /\ InitialBar.box = NoBox /\ InitialBar.button = NoButton
        /\ InitialBar.children = {}
    BY <2>1 DEF InitialBar
  <2>4. Held(InitialBar, {}) /\ Shows(InitialBar) /\ InitialBar.indicator = "start"
    BY <2>3 DEF Held, Shows, Searches, InitialBar
  <2> QED BY <2>2, <2>3, <2>4 DEF PluginInit, PluginInvariant, WindowTyped, Good,
           Indicators
<1>2. PluginInvariant /\ [PluginNext]_vars => PluginInvariant'
  <2> SUFFICES ASSUME PluginInvariant, [PluginNext]_vars PROVE PluginInvariant'
    OBVIOUS
  <2>1. CASE UNCHANGED <<bar, call, widgets, active>>
    BY <2>1 DEF PluginInvariant, WindowTyped, KeepsLooking, widgets
  <2>2. CASE Activate \/ Deactivate
    BY <2>2, ActivateKeeps, DeactivateKeeps
  <2>3. CASE WindowStep
    <3>1. CASE ToolbarBuilt
      <4>1. boxes # {} /\ boxes \subseteq Boxes
        BY <3>1 DEF ToolbarBuilt, PluginInvariant, WindowTyped
      <4> QED BY <3>1, <4>1, WindowKeeps
    <3> QED BY <2>3, <3>1, WindowKeeps, BoxGoneKeeps DEF WindowStep
  <2>4. CASE TimeoutStep
    BY <2>4, TimeoutKeeps DEF TimeoutStep
  <2>5. CASE ClickCallButton
    <3>1. "start" \in Indicators /\ "cancel" \in Indicators
      BY DEF Indicators
    <3>2. \/ UNCHANGED <<bar, call, widgets, lifeVars>>
          \/ /\ UNCHANGED <<widgets, lifeVars>>
             /\ \E indicator \in Indicators : Show(indicator)
      BY <2>5, <3>1 DEF ClickCallButton
    <3> QED BY <2>1, <3>2, IndicatorKeeps DEF lifeVars
  <2>6. ASSUME NEW indicator \in Indicators, ControllerShows(indicator) PROVE PluginInvariant'
    BY <2>6, IndicatorKeeps DEF ControllerShows
  <2> QED BY <2>1, <2>2, <2>3, <2>4, <2>5, <2>6 DEF PluginNext, RefreshCapsIdle, Reconnect, vars,
         lifeVars
<1> QED BY <1>1, <1>2, PTL DEF PluginSpec

\* Whatever Gajim does with its widgets, there is one call button at most, that of the
\* current box, and it shows the call the controller has, also across deactivation,
\* unless that dropped a call and no other was shown since.
THEOREM ButtonAlwaysShowsTheCall == PluginSpec => []ButtonShowsTheCall
<1>1. PluginInvariant => ButtonShowsTheCall
  BY DEF PluginInvariant, Good, Shows, ButtonShowsTheCall
<1> QED BY <1>1, PluginInvariantHolds, PTL

\* The timeouts GLib has are those the plugin holds the ids of, and a plugin that was
\* deactivated has none, nor a button.
THEOREM TimeoutsAreAlwaysHeld == PluginSpec => []TimeoutsAreHeld
<1>1. PluginInvariant => TimeoutsAreHeld
  <2> SUFFICES ASSUME PluginInvariant PROVE TimeoutsAreHeld
    OBVIOUS
  <2>1. ASSUME NEW s \in bar.sources
        PROVE  /\ s.search \in Searches /\ bar[s.search].id # NoId
               /\ s = Source(s.search, bar[s.search].id)
    BY DEF PluginInvariant, Good, Held, Bars, NoId, Source
  <2>2. ASSUME NEW w \in Searches, bar[w].id # NoId PROVE Source(w, bar[w].id) \in bar.sources
    BY <2>2 DEF PluginInvariant, Good, Held
  <2>3. bar.sources = {Source(w, bar[w].id) : w \in {v \in Searches : bar[v].id # NoId}}
    BY <2>1, <2>2
  <2>4. ~active => bar.sources = {}
    BY <2>1 DEF PluginInvariant, Searches
  <2> QED BY <2>3, <2>4 DEF TimeoutsAreHeld, PluginInvariant
<1> QED BY <1>1, PluginInvariantHolds, PTL

\* An active plugin has its button in the toolbar, or is looking for a box or for the
\* place of the button, or has made all its attempts.
THEOREM AlwaysKeepsLooking == PluginSpec => []KeepsLooking
<1>1. PluginInvariant => KeepsLooking
  BY DEF PluginInvariant, KeepsLooking
<1> QED BY <1>1, PluginInvariantHolds, PTL

-----------------------------------------------------------------------------
(* The features that are advertised.                                       *)

\* What an account advertises that Gajim computes the features for now.
CurrentFeatures == IF active THEN ExtendCallCapabilities(Own, HasVideo) ELSE Own

\* The features are recomputed in the step that changes them, or a refresh is queued.
FeaturesFollow ==
    /\ DOMAIN advertised = Accounts /\ online \subseteq Accounts
    /\ \A a \in online : ~refreshes => advertised[a] = CurrentFeatures

\* _refresh_caps brings every account up to date that can be reached.
LEMMA RefreshFollows ==
    ASSUME FeaturesFollow, RefreshCaps, online' = online
    PROVE  FeaturesFollow'
BY DEF FeaturesFollow, RefreshCaps, Computed, CurrentFeatures

\* Whatever happens in between, an account that can be reached advertises what Gajim
\* computes for the plugin as it is, or the refresh of deactivate is still to come.
THEOREM FeaturesAlwaysFollow == PluginSpec => []FeaturesFollow
<1>1. PluginInit => FeaturesFollow
  BY DEF PluginInit, FeaturesFollow, CurrentFeatures
<1>2. FeaturesFollow /\ [PluginNext]_vars => FeaturesFollow'
  <2> SUFFICES ASSUME FeaturesFollow, [PluginNext]_vars PROVE FeaturesFollow'
    OBVIOUS
  <2>1. CASE UNCHANGED lifeVars
    BY <2>1 DEF FeaturesFollow, CurrentFeatures, lifeVars
  <2>2. CASE Activate \/ RefreshCapsIdle
    BY <2>2, RefreshFollows DEF Activate, RefreshCapsIdle
  <2>3. CASE Deactivate
    BY <2>3 DEF Deactivate, FeaturesFollow
  <2>4. ASSUME NEW account \in Accounts, Reconnect(account) PROVE FeaturesFollow'
    <3>1. CASE account \in online
      BY <2>4, <3>1 DEF Reconnect, FeaturesFollow, CurrentFeatures
    <3>2. CASE account \notin online
      BY <2>4, <3>2 DEF Reconnect, FeaturesFollow, CurrentFeatures, Computed
    <3> QED BY <3>1, <3>2
  <2> QED BY <2>1, <2>2, <2>3, <2>4 DEF PluginNext, WindowStep, BoxMade, BoxGone, ChatShown,
         ToolbarBuilt, TimeoutStep, Timeout, ClickCallButton, ControllerShows, vars
<1> QED BY <1>1, <1>2, PTL DEF PluginSpec

\* An account that can be reached advertises calls exactly while the plugin is there to
\* take them, and no feature twice, provided that extend_call_capabilities appends
\* what is missing and nothing else.
THEOREM FeaturesAreThePlugins ==
    ExtensionAddsWhatIsMissing => (PluginSpec => []CapabilitiesFollowPlugin)
<1> SUFFICES ASSUME ExtensionAddsWhatIsMissing PROVE PluginSpec => []CapabilitiesFollowPlugin
  OBVIOUS
<1>1. FeaturesFollow => CapabilitiesFollowPlugin
  BY DEF ExtensionAddsWhatIsMissing, FeaturesFollow, CurrentFeatures,
       CapabilitiesFollowPlugin
<1> QED BY <1>1, FeaturesAlwaysFollow, PTL

-----------------------------------------------------------------------------
(* The alerts of incoming calls.                                           *)

\* The cache has a place for each bundled ringtone.
AlertInvariant == AlertLeavesNoTrace /\ DOMAIN cache = Bundled

\* A name the user may have saved, known or not, means one of the bundled ringtones.
LEMMA NormalizedIsBundled == \A name : Normalized(name) \in Bundled
BY AlertAssumption DEF Normalized

\* What starts to play is the new call's, and whole.
LEMMA StartRingtoneIsWhole ==
    ASSUME AlertInvariant, NEW sid, StartRingtone(sid)
    PROVE  /\ ringing'.call \in {NoAlert, sid}
           /\ ringing'.content \in {"none", "custom", "whole"}
           /\ DOMAIN cache' = Bundled
<1>1. Normalized(settings.builtin) \in Bundled
  BY NormalizedIsBundled
<1>2. CASE settings.custom /\ customExists
  BY <1>2 DEF StartRingtone, Quiet, AlertInvariant
<1>3. CASE ~(settings.custom /\ customExists)
  <2>1. CASE EnsureBuiltin(settings.builtin)
    <3>1. cache'[Normalized(settings.builtin)] = "whole" /\ DOMAIN cache' = Bundled
      BY <1>1, <2>1 DEF EnsureBuiltin, AlertInvariant
    <3>2. ringing' \in {[call |-> sid, content |-> cache'[Normalized(settings.builtin)]], Quiet}
      BY <1>3, <2>1 DEF StartRingtone
    <3> QED BY <3>1, <3>2 DEF Quiet
  <2>2. CASE BuiltinFails(settings.builtin) /\ ringing' = Quiet
    BY <2>2 DEF BuiltinFails, Quiet, AlertInvariant
  <2> QED BY <1>3, <2>1, <2>2 DEF StartRingtone
<1> QED BY <1>2, <1>3

\* A new announcement replaces the last one whole.
LEMMA AnnounceLeavesNoTrace ==
    ASSUME AlertInvariant, NEW sid, Announce(sid)
    PROVE  AlertInvariant'
<1>1. CASE announced = sid
  BY <1>1 DEF Announce, AlertInvariant, AlertLeavesNoTrace
<1>2. CASE announced # sid
  <2>1. announced' = sid /\ notified' \in {NoAlert, sid}
    BY <1>2 DEF Announce
  <2>2. /\ ringing'.call \in {NoAlert, sid}
        /\ ringing'.content \in {"none", "custom", "whole"}
        /\ DOMAIN cache' = Bundled
    BY <1>2, StartRingtoneIsWhole DEF Announce, Quiet, AlertInvariant
  <2> QED BY <2>1, <2>2 DEF AlertInvariant, AlertLeavesNoTrace
<1> QED BY <1>1, <1>2

\* Silence leaves nothing.
LEMMA SilenceLeavesNoTrace ==
    ASSUME AlertInvariant, Silence
    PROVE  AlertInvariant'
BY DEF Silence, Quiet, AlertInvariant, AlertLeavesNoTrace

\* Sound and notification are those of the announced call only, and what is played
\* is whole, whatever was saved as settings and whatever is left in the cache.
THEOREM AlertsLeaveNoTrace == AlertSpec => []AlertLeavesNoTrace
<1>1. AlertInit => AlertInvariant
  BY DEF AlertInit, Quiet, AlertInvariant, AlertLeavesNoTrace
<1>2. AlertInvariant /\ [AlertNext]_alertVars => AlertInvariant'
  <2> SUFFICES ASSUME AlertInvariant, [AlertNext]_alertVars PROVE AlertInvariant'
    OBVIOUS
  <2>1. ASSUME NEW sid \in Calls, Announce(sid) PROVE AlertInvariant'
    BY <2>1, AnnounceLeavesNoTrace
  <2>2. ASSUME NEW sid \in Calls, StopAnnouncing(sid) PROVE AlertInvariant'
    BY <2>2, SilenceLeavesNoTrace
       DEF StopAnnouncing, alertVars, AlertInvariant, AlertLeavesNoTrace
  <2>3. CASE SaveSettings \/ UNCHANGED alertVars
    BY <2>3 DEF SaveSettings, alertVars, AlertInvariant, AlertLeavesNoTrace
  <2>4. CASE FilesChange
    BY <2>4 DEF FilesChange, AlertInvariant, AlertLeavesNoTrace
  <2> QED BY <2>1, <2>2, <2>3, <2>4, SilenceLeavesNoTrace DEF AlertNext
<1>3. AlertInvariant => AlertLeavesNoTrace
  BY DEF AlertInvariant
<1> QED BY <1>1, <1>2, <1>3, PTL DEF AlertSpec
=============================================================================
