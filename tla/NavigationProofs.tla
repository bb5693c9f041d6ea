-------------------------- MODULE NavigationProofs --------------------------
(***************************************************************************)
(* Proofs about Navigation, for any pages, any history and any number of   *)
(* navigations under way.                                                  *)
(***************************************************************************)
EXTENDS Navigation, SequenceTheorems, TLAPS

Entry == [path : Targets, own : BOOLEAN]

-----------------------------------------------------------------------------
(* What a push leaves: entries that were there, and its own at the end.    *)
LEMMA PushedProperties ==
    ASSUME NEW past \in Seq(Entry), Len(past) <= MaxHistory, NEW p \in Targets
    PROVE  /\ pushed(past, p) \in Seq(Entry)
           /\ Len(pushed(past, p)) \in 1 .. MaxHistory
           /\ pushed(past, p)[Len(pushed(past, p))] = [path |-> p, own |-> TRUE]
           /\ \A k \in DOMAIN pushed(past, p) :
                 \/ pushed(past, p)[k] = [path |-> p, own |-> TRUE]
                 \/ \E i \in DOMAIN past : pushed(past, p)[k] = past[i]
<1> DEFINE new == [path |-> p, own |-> TRUE]
           longer == Append(past, new)
<1>1. new \in Entry
  BY DEF Entry
<1>2. /\ longer \in Seq(Entry) /\ Len(longer) = Len(past) + 1
      /\ longer[Len(longer)] = new
      /\ \A k \in 1 .. Len(longer) :
            longer[k] = new \/ \E i \in DOMAIN past : longer[k] = past[i]
  <2>1. longer \in Seq(Entry) /\ Len(longer) = Len(past) + 1 /\ longer[Len(longer)] = new
    BY <1>1
  <2>2. ASSUME NEW k \in 1 .. Len(past) PROVE longer[k] = past[k] /\ k \in DOMAIN past
    BY <1>1
  <2> QED BY <2>1, <2>2
<1> HIDE DEF new, longer
<1>3. pushed(past, p) = IF Len(longer) > MaxHistory THEN Tail(longer) ELSE longer
  BY DEF pushed, longer, new
<1>4. CASE Len(longer) > MaxHistory
  <2>1. /\ Tail(longer) \in Seq(Entry) /\ Len(Tail(longer)) = Len(past)
        /\ \A k \in 1 .. Len(Tail(longer)) : Tail(longer)[k] = longer[k + 1]
    BY <1>2
  <2>2. Len(past) = MaxHistory /\ MaxHistory \in Nat \ {0}
    BY <1>2, <1>4, NavigationAssumption
  <2> DEFINE kept == Tail(longer)
  <2>3. pushed(past, p) = kept
    BY <1>3, <1>4
  <2>4. Len(past) \in Nat /\ Len(kept) + 1 = Len(longer)
    BY <1>2, <2>1
  <2>5. kept[Len(kept)] = new
    BY <1>2, <2>1, <2>2, <2>4
  <2>6. ASSUME NEW k \in 1 .. Len(kept)
        PROVE  kept[k] = new \/ \E i \in DOMAIN past : kept[k] = past[i]
    <3>1. k + 1 \in 1 .. Len(longer) /\ kept[k] = longer[k + 1]
      BY <2>1, <2>4
    <3> QED BY <1>2, <3>1
  <2>7. DOMAIN kept = 1 .. Len(kept) /\ kept \in Seq(Entry) /\ Len(kept) \in 1 .. MaxHistory
    BY <1>2, <2>1, <2>2
  <2> QED BY <2>3, <2>5, <2>6, <2>7 DEF new
<1>5. CASE ~ (Len(longer) > MaxHistory)
  BY <1>2, <1>3, <1>5, NavigationAssumption DEF new
<1> QED BY <1>4, <1>5

(* writeHistory goes to the entry it wrote; the others are kept, or gone.  *)
LEMMA WriteProperties ==
    ASSUME history \in Seq(Entry), Len(history) \in 1 .. MaxHistory, at \in DOMAIN history,
           history[at].own, NEW kind, NEW p \in Targets, writeHistory(kind, p)
    PROVE  /\ history' \in Seq(Entry) /\ Len(history') \in 1 .. MaxHistory
           /\ at' \in DOMAIN history' /\ history'[at'].path = p /\ history'[at'].own
           /\ \A k \in DOMAIN history' :
                 history'[k].path = p \/ \E i \in DOMAIN history : history'[k] = history[i]
<1>1. CASE kind = "push"
  <2> DEFINE past == SubSeq(history, 1, at)
  <2>1. /\ past \in Seq(Entry) /\ Len(past) = at /\ at <= MaxHistory /\ DOMAIN past = 1 .. at
        /\ \A i \in 1 .. at : past[i] = history[i] /\ i \in DOMAIN history
    BY NavigationAssumption
  <2>2. history' = pushed(past, p) /\ at' = Len(history')
    BY <1>1 DEF writeHistory
  <2> HIDE DEF past
  <2>3. /\ history' \in Seq(Entry) /\ Len(history') \in 1 .. MaxHistory
        /\ history'[Len(history')] = [path |-> p, own |-> TRUE]
        /\ \A k \in DOMAIN history' :
              \/ history'[k] = [path |-> p, own |-> TRUE]
              \/ \E i \in DOMAIN past : history'[k] = past[i]
    <3> DEFINE left == pushed(past, p)
    <3>1. Len(past) <= MaxHistory /\ past \in Seq(Entry)
      BY <2>1
    <3>2. /\ left \in Seq(Entry) /\ Len(left) \in 1 .. MaxHistory
          /\ left[Len(left)] = [path |-> p, own |-> TRUE]
          /\ \A k \in DOMAIN left :
                \/ left[k] = [path |-> p, own |-> TRUE]
                \/ \E i \in DOMAIN past : left[k] = past[i]
      BY <3>1, PushedProperties
    <3>3. history' = left
      BY <2>2
    <3> QED BY <3>2, <3>3
  <2>4. DOMAIN history' = 1 .. Len(history') /\ at' \in DOMAIN history'
    BY <2>2, <2>3
  <2>5. history'[at'] = [path |-> p, own |-> TRUE]
    BY <2>2, <2>3
  <2>6. history'[at'].path = p /\ history'[at'].own
    BY <2>5
  <2>7. \A k \in DOMAIN history' :
           history'[k].path = p \/ \E i \in DOMAIN history : history'[k] = history[i]
    <3> SUFFICES ASSUME NEW k \in DOMAIN history', history'[k].path # p
                 PROVE  \E i \in DOMAIN history : history'[k] = history[i]
      OBVIOUS
    <3>1. history'[k] # [path |-> p, own |-> TRUE]
      OBVIOUS
    <3>2. PICK i \in DOMAIN past : history'[k] = past[i]
      BY <2>3, <3>1
    <3> QED BY <2>1, <3>2
  <2> QED BY <2>3, <2>4, <2>6, <2>7
<1>2. CASE kind # "push"
  <2>1. history' = [history EXCEPT ![at] = [@ EXCEPT !.path = p]] /\ at' = at
    BY <1>2 DEF writeHistory
  <2>2. history[at] \in Entry
    OBVIOUS
  <2>3. /\ [history[at] EXCEPT !.path = p] \in Entry
        /\ [history[at] EXCEPT !.path = p].path = p /\ [history[at] EXCEPT !.path = p].own
    BY <2>2 DEF Entry
  <2>4. /\ history' \in Seq(Entry) /\ Len(history') = Len(history)
        /\ DOMAIN history' = DOMAIN history
    BY <2>1, <2>3
  <2> QED BY <2>1, <2>3, <2>4
<1> QED BY <1>1, <1>2

-----------------------------------------------------------------------------
(* The document: its entry is its own, its page.url a page's, what is      *)
(* under way is for it, and a popstate's target is one of its pages.       *)
CurrentOwn == history[at].own

InDocument ==
    /\ InPage => url \in Pages
    /\ \A f \in Flights : flights[f] # NoFlight => InPage
    /\ \A f \in Flights : flights[f].kind = "pop" => flights[f].target \in Pages
    /\ \A l \in Loads : errorLoads[l] # NoPath => InPage

IInv == /\ TypeOK /\ CurrentOwn /\ InDocument
        /\ ViewMatchesUrl /\ NoStuckSpinner /\ ErrorViewKnown /\ OwnEntriesArePages

LEMMA FlightTypes ==
    ASSUME TypeOK, NEW f \in Flights
    PROVE  /\ flights[f] = NoFlight \/ flights[f].target \in Targets
           /\ flights[f].target \in Targets => flights[f] # NoFlight
           /\ NoFlight.kind # "pop" /\ NoFlight.target \notin Targets
<1>1. flights[f] \in [kind : {"push", "replace", "pop"}, target : Targets] \cup {NoFlight}
  BY DEF TypeOK
<1>2. NoFlight.kind = "none" /\ NoFlight.target = NoPath
  BY DEF NoFlight
<1> QED BY <1>1, <1>2, NavigationAssumption DEF Targets

(* A document that starts shows what its entry names.                      *)
LEMMA StartKeeps ==
    ASSUME NEW p \in Targets, starts(p),
           history' \in Seq(Entry), Len(history') \in 1 .. MaxHistory, at' \in DOMAIN history',
           history'[at'].path = p, history'[at'].own,
           \A k \in DOMAIN history' : history'[k].own => history'[k].path = p
    PROVE  IInv'
<1>1. /\ leaving' = NoPath /\ url' = p /\ view' = [path |-> p, error |-> FALSE]
      /\ errorViewActive' = FALSE /\ navigating' = FALSE
      /\ flights' = [f \in Flights |-> NoFlight] /\ errorLoads' = [l \in Loads |-> NoPath]
      /\ late' = FALSE /\ overruled' = FALSE
  BY DEF starts
<1>2. TypeOK'
  BY <1>1 DEF TypeOK, Entry
<1>3. CurrentOwn' /\ OwnEntriesArePages'
  BY <1>1 DEF CurrentOwn, OwnEntriesArePages, InPage
<1>4. InDocument'
  BY <1>1, Zenon DEF InDocument, InPage, NoFlight
<1>5. ViewMatchesUrl' /\ NoStuckSpinner' /\ ErrorViewKnown'
  BY <1>1 DEF ViewMatchesUrl, NoStuckSpinner, ErrorViewKnown, location
<1> QED BY <1>2, <1>3, <1>4, <1>5 DEF IInv

LEMMA Initially == Init => IInv
<1> SUFFICES ASSUME NEW p \in Pages,
                    history = <<[path |-> p, own |-> TRUE]>> /\ at = 1,
                    leaving = NoPath, url = p, view = [path |-> p, error |-> FALSE],
                    errorViewActive = FALSE, navigating = FALSE,
                    flights = [f \in Flights |-> NoFlight],
                    errorLoads = [l \in Loads |-> NoPath],
                    late = FALSE, overruled = FALSE
             PROVE  IInv
  BY DEF Init
<1>1. p \in Targets /\ [path |-> p, own |-> TRUE] \in Entry
  BY DEF Targets, Entry
<1>2. /\ history \in Seq(Entry) /\ Len(history) = 1 /\ DOMAIN history = 1 .. 1
      /\ history[1] = [path |-> p, own |-> TRUE] /\ 1 \in 1 .. MaxHistory
  BY <1>1, NavigationAssumption
<1>3. TypeOK
  <2>1. /\ history \in Seq([path : Targets, own : BOOLEAN])
        /\ Len(history) \in 1 .. MaxHistory /\ at \in DOMAIN history
    BY <1>2 DEF Entry
  <2>2. /\ view \in [path : Targets, error : BOOLEAN]
        /\ leaving \in Targets \cup {NoPath} /\ url \in Targets
    BY <1>1
  <2>3. /\ flights \in [Flights -> [kind : {"push", "replace", "pop"}, target : Targets]
                                  \cup {NoFlight}]
        /\ errorLoads \in [Loads -> Pages \cup {NoPath}]
    OBVIOUS
  <2> QED BY <2>1, <2>2, <2>3 DEF TypeOK
<1>4. CurrentOwn /\ OwnEntriesArePages
  BY <1>2 DEF CurrentOwn, OwnEntriesArePages
<1>5. InDocument
  BY Zenon DEF InDocument, InPage, NoFlight
<1>6. ViewMatchesUrl /\ NoStuckSpinner /\ ErrorViewKnown
  BY <1>2 DEF ViewMatchesUrl, NoStuckSpinner, ErrorViewKnown, location
<1> QED BY <1>3, <1>4, <1>5, <1>6 DEF IInv

(* A navigation takes a free flight; the others go on.                     *)
LEMMA BeginsProperties ==
    ASSUME TypeOK, NEW kind \in {"push", "replace", "pop"}, NEW p \in Targets, begins(kind, p)
    PROVE  /\ flights' \in [Flights -> [kind : {"push", "replace", "pop"}, target : Targets]
                                      \cup {NoFlight}]
           /\ navigating' = TRUE
           /\ \E f \in Flights : flights'[f] # NoFlight
           /\ \A f \in Flights : flights[f].kind = "pop" => flights'[f].kind = "pop"
           /\ \A f \in Flights : \/ flights'[f] = flights[f]
                                 \/ flights'[f].kind = kind /\ flights'[f].target = p
           /\ kind = "pop" => \E f \in Flights : flights'[f].kind = "pop"
<1>1. PICK f \in Flights : /\ flights[f] = NoFlight
                          /\ flights' = [flights EXCEPT ![f] = [kind |-> kind, target |-> p]]
                          /\ navigating' = TRUE
  BY DEF begins
<1>2. [kind |-> kind, target |-> p] # NoFlight /\ NoFlight.kind # "pop"
  BY FlightTypes DEF NoFlight
<1>3. flights \in [Flights -> [kind : {"push", "replace", "pop"}, target : Targets] \cup {NoFlight}]
  BY DEF TypeOK
<1> QED BY <1>1, <1>2, <1>3

-----------------------------------------------------------------------------
LEMMA NavigateKeeps ==
    ASSUME IInv, NEW kind \in {"push", "replace"}, NEW p \in Targets, Navigate(kind, p)
    PROVE  IInv'
<1>0. /\ TypeOK /\ CurrentOwn /\ InDocument /\ InPage
      /\ ViewMatchesUrl /\ NoStuckSpinner /\ ErrorViewKnown /\ OwnEntriesArePages
  BY DEF IInv, Navigate
<1>1. UNCHANGED <<leaving, view, errorViewActive, errorLoads, late, overruled>>
  BY DEF Navigate
<1>2. CASE isCurrentView(p)
  <2>1. p = url /\ writeHistory(kind, p) /\ url' = p /\ UNCHANGED <<navigating, flights>>
    BY <1>2 DEF Navigate, isCurrentView
  <2>2. /\ history' \in Seq(Entry) /\ Len(history') \in 1 .. MaxHistory
        /\ at' \in DOMAIN history' /\ history'[at'].path = p /\ history'[at'].own
        /\ \A k \in DOMAIN history' :
              history'[k].path = p \/ \E i \in DOMAIN history : history'[k] = history[i]
    BY <1>0, <2>1, WriteProperties DEF TypeOK, CurrentOwn, Entry
  <2>3. TypeOK' /\ CurrentOwn'
    BY <1>0, <1>1, <2>1, <2>2 DEF TypeOK, CurrentOwn, Entry
  <2>4. InDocument' /\ OwnEntriesArePages'
    BY <1>0, <1>1, <2>1, <2>2 DEF InDocument, InPage, OwnEntriesArePages
  <2>5. ViewMatchesUrl' /\ NoStuckSpinner' /\ ErrorViewKnown'
    BY <1>0, <1>1, <2>1, <2>2 DEF ViewMatchesUrl, NoStuckSpinner, ErrorViewKnown, location, Popping
  <2> QED BY <2>3, <2>4, <2>5 DEF IInv
<1>3. CASE ~ isCurrentView(p)
  <2>1. begins(kind, p) /\ UNCHANGED <<history, at, url>>
    BY <1>3 DEF Navigate
  <2>2. /\ flights' \in [Flights -> [kind : {"push", "replace", "pop"}, target : Targets]
                                  \cup {NoFlight}]
        /\ navigating' = TRUE /\ \E f \in Flights : flights'[f] # NoFlight
        /\ \A f \in Flights : flights[f].kind = "pop" => flights'[f].kind = "pop"
        /\ \A f \in Flights : flights'[f] = flights[f] \/ flights'[f].kind # "pop"
    BY <1>0, <2>1, BeginsProperties
  <2>3. TypeOK' /\ CurrentOwn'
    BY <1>0, <1>1, <2>1, <2>2 DEF TypeOK, CurrentOwn
  <2>4. InDocument' /\ OwnEntriesArePages'
    BY <1>0, <1>1, <2>1, <2>2 DEF InDocument, InPage, OwnEntriesArePages
  <2>5. ViewMatchesUrl' /\ NoStuckSpinner' /\ ErrorViewKnown'
    BY <1>0, <1>1, <2>1, <2>2 DEF ViewMatchesUrl, NoStuckSpinner, ErrorViewKnown, location, Popping
  <2> QED BY <2>3, <2>4, <2>5 DEF IInv
<1> QED BY <1>2, <1>3

LEMMA TraverseKeeps ==
    ASSUME IInv, NEW j \in DOMAIN history, Traverse(j)
    PROVE  IInv'
<1>0. /\ TypeOK /\ CurrentOwn /\ InDocument
      /\ ViewMatchesUrl /\ NoStuckSpinner /\ ErrorViewKnown /\ OwnEntriesArePages
  BY DEF IInv
<1>1. /\ at' = j /\ history[j].path \in Targets
      /\ \A k \in DOMAIN history : history[k] \in Entry
  <2>1. history \in Seq(Entry) /\ at' = j
    BY <1>0 DEF TypeOK, Entry, Traverse
  <2>2. \A k \in DOMAIN history : history[k] \in Entry
    BY <2>1
  <2> QED BY <2>1, <2>2 DEF Entry
<1>2. CASE history[j].own /\ InPage
  <2>1. UNCHANGED <<history, leaving, view, errorViewActive, errorLoads, late, overruled>>
    BY <1>2 DEF Traverse
  <2>2. history[j].path \in Pages
    BY <1>0, <1>2 DEF OwnEntriesArePages
  <2>3. CASE isCurrentView(history[j].path)
    <3>1. /\ url' = history[j].path /\ history[j].path = url
          /\ UNCHANGED <<navigating, flights>>
      BY <1>2, <2>3 DEF Traverse, isCurrentView
    <3>2. TypeOK' /\ CurrentOwn'
      BY <1>0, <1>1, <1>2, <2>1, <3>1 DEF TypeOK, CurrentOwn
    <3>3. InDocument' /\ OwnEntriesArePages'
      BY <1>0, <1>1, <2>1, <3>1 DEF InDocument, InPage, OwnEntriesArePages
    <3>4. ViewMatchesUrl' /\ NoStuckSpinner' /\ ErrorViewKnown'
      BY <1>0, <1>1, <2>1, <3>1
      DEF ViewMatchesUrl, NoStuckSpinner, ErrorViewKnown, location, Popping
    <3> QED BY <3>2, <3>3, <3>4 DEF IInv
  <2>4. CASE ~ isCurrentView(history[j].path)
    <3>1. begins("pop", history[j].path) /\ UNCHANGED url
      BY <1>2, <2>4 DEF Traverse
    <3>2. /\ flights' \in [Flights -> [kind : {"push", "replace", "pop"}, target : Targets]
                                    \cup {NoFlight}]
          /\ navigating' = TRUE /\ \E f \in Flights : flights'[f] # NoFlight
          /\ \E f \in Flights : flights'[f].kind = "pop"
          /\ \A f \in Flights : flights'[f] = flights[f] \/ flights'[f].target \in Pages
      <4>1. PICK p \in Pages : p \in Targets /\ begins("pop", p)
        BY <1>1, <2>2, <3>1
      <4> QED BY <1>0, <4>1, BeginsProperties
    <3>3. TypeOK' /\ CurrentOwn'
      BY <1>0, <1>1, <1>2, <2>1, <3>1, <3>2 DEF TypeOK, CurrentOwn
    <3>4. InDocument' /\ OwnEntriesArePages'
      BY <1>0, <1>1, <1>2, <2>1, <3>1, <3>2 DEF InDocument, InPage, OwnEntriesArePages
    <3>5. ViewMatchesUrl' /\ NoStuckSpinner' /\ ErrorViewKnown'
      BY <1>0, <1>1, <2>1, <3>1, <3>2
      DEF ViewMatchesUrl, NoStuckSpinner, ErrorViewKnown, location, Popping
    <3> QED BY <3>3, <3>4, <3>5 DEF IInv
  <2> QED BY <2>3, <2>4
<1>3. CASE ~ (history[j].own /\ InPage)
  <2>1. /\ history' = [k \in DOMAIN history |-> [history[k] EXCEPT !.own = k = j]]
        /\ starts(history[j].path)
    BY <1>3 DEF Traverse
  <2>2. ASSUME NEW k \in DOMAIN history
        PROVE  /\ [history[k] EXCEPT !.own = k = j] \in Entry
               /\ [history[k] EXCEPT !.own = k = j].path = history[k].path
               /\ [history[k] EXCEPT !.own = k = j].own <=> k = j
    <3>1. history[k] \in Entry /\ (k = j) \in BOOLEAN
      BY <1>1
    <3> QED BY <3>1 DEF Entry
  <2>3. /\ history \in Seq(Entry) /\ DOMAIN history = 1 .. Len(history)
        /\ Len(history) \in 1 .. MaxHistory /\ Len(history) \in Nat
    BY <1>0 DEF TypeOK, Entry
  <2>4. /\ history' \in Seq(Entry) /\ Len(history') = Len(history)
        /\ DOMAIN history' = DOMAIN history
    BY <2>1, <2>2, <2>3
  <2>5. \A k \in DOMAIN history' :
            history'[k].path = history[k].path /\ (history'[k].own <=> k = j)
    BY <2>1, <2>2, <2>4
  <2> QED BY <1>1, <2>1, <2>3, <2>4, <2>5, StartKeeps
<1> QED BY <1>2, <1>3

(* The view is applied under the location as it is: history is as it was,  *)
(* or has just been written for this target.                               *)
LEMMA AppliesKeeps ==
    ASSUME IInv, NEW f \in Flights, Applies(f)
    PROVE  IInv'
<1> DEFINE target == flights[f].target
<1>0. /\ TypeOK /\ CurrentOwn /\ InDocument
      /\ ViewMatchesUrl /\ NoStuckSpinner /\ ErrorViewKnown /\ OwnEntriesArePages
  BY DEF IInv
<1>1. /\ target \in Pages /\ target \in Targets /\ InPage
      /\ view' = [path |-> target, error |-> FALSE] /\ url' = location'
      /\ errorViewActive' = FALSE /\ late' = (location' # target) /\ overruled' = FALSE
      /\ flights' = [flights EXCEPT ![f] = NoFlight] /\ navigating' = FALSE
      /\ UNCHANGED <<leaving, errorLoads>>
  BY <1>0, FlightTypes DEF Applies, applyState, Targets, InDocument
<1>2. /\ history' \in Seq(Entry) /\ Len(history') \in 1 .. MaxHistory
      /\ at' \in DOMAIN history' /\ history'[at'].own /\ history'[at'].path \in Pages
      /\ \A k \in DOMAIN history' : history'[k].own => history'[k].path \in Pages
  <2>1. CASE UNCHANGED <<history, at>>
    BY <1>0, <1>1, <2>1 DEF TypeOK, CurrentOwn, OwnEntriesArePages, Entry
  <2>2. CASE writeHistory(flights[f].kind, target)
    <3>1. /\ history' \in Seq(Entry) /\ Len(history') \in 1 .. MaxHistory
          /\ at' \in DOMAIN history' /\ history'[at'].path = target /\ history'[at'].own
          /\ \A k \in DOMAIN history' :
                history'[k].path = target \/ \E i \in DOMAIN history : history'[k] = history[i]
      BY <1>0, <1>1, <2>2, WriteProperties DEF TypeOK, CurrentOwn, Entry
    <3> QED BY <1>0, <1>1, <3>1 DEF OwnEntriesArePages
  <2> QED BY <2>1, <2>2 DEF Applies
<1>3. /\ flights' \in [Flights -> [kind : {"push", "replace", "pop"}, target : Targets]
                                \cup {NoFlight}]
      /\ \A g \in Flights : flights'[g] = flights[g] \/ flights'[g] = NoFlight
  BY <1>0, <1>1 DEF TypeOK
<1>4. view'.path = target /\ view'.error = FALSE /\ url' = history'[at'].path
  BY <1>1 DEF location
<1>5. TypeOK'
  BY <1>0, <1>1, <1>2, <1>3, <1>4 DEF TypeOK, Entry, Targets
<1>6. CurrentOwn' /\ OwnEntriesArePages'
  BY <1>2 DEF CurrentOwn, OwnEntriesArePages
<1>7. InDocument'
  BY <1>0, <1>1, <1>2, <1>3, <1>4, FlightTypes DEF InDocument, InPage
<1>8. ViewMatchesUrl' /\ NoStuckSpinner' /\ ErrorViewKnown'
  BY <1>1, <1>4 DEF ViewMatchesUrl, NoStuckSpinner, ErrorViewKnown, location
<1> QED BY <1>5, <1>6, <1>7, <1>8 DEF IInv

(* A flight that lands nowhere: the document is going, or it was no        *)
(* popstate's, whose targets are pages.                                    *)
LEMMA LostFlightKeeps ==
    ASSUME IInv, NEW f \in Flights, GoesHard(f) \/ Rejects(f)
    PROVE  IInv'
<1>0. /\ TypeOK /\ CurrentOwn /\ InDocument
      /\ ViewMatchesUrl /\ NoStuckSpinner /\ ErrorViewKnown /\ OwnEntriesArePages
  BY DEF IInv
<1>1. /\ flights' = [flights EXCEPT ![f] = NoFlight] /\ navigating' = FALSE
      /\ UNCHANGED <<history, at, url, view, errorViewActive, late, overruled, errorLoads>>
      /\ leaving' \in Targets \/ (leaving' = leaving /\ flights[f].kind # "pop")
  <2>1. CASE GoesHard(f)
    BY <1>0, <2>1, FlightTypes DEF GoesHard, pageState
  <2>2. CASE Rejects(f)
    <3>1. flights[f].target \in Files /\ flights[f].kind # "pop"
      BY <1>0, <2>2, NavigationAssumption DEF Rejects, InDocument
    <3> QED BY <2>2, <3>1 DEF Rejects, document, pageState
  <2> QED BY <2>1, <2>2
<1>2. /\ flights' \in [Flights -> [kind : {"push", "replace", "pop"}, target : Targets]
                                \cup {NoFlight}]
      /\ \A g \in Flights : g # f => flights'[g] = flights[g]
      /\ flights'[f] = NoFlight
  BY <1>0, <1>1 DEF TypeOK
<1>3. TypeOK'
  BY <1>0, <1>1, <1>2 DEF TypeOK
<1>4. CurrentOwn' /\ OwnEntriesArePages'
  BY <1>0, <1>1 DEF CurrentOwn, OwnEntriesArePages, InPage
<1>5. InDocument'
  BY <1>0, <1>1, <1>2, FlightTypes DEF InDocument, InPage
<1>6. ViewMatchesUrl'
  <2>1. leaving' \in Targets => leaving' # NoPath
    BY NavigationAssumption DEF Targets
  <2>2. Popping /\ leaving' = leaving /\ flights[f].kind # "pop" => Popping'
    BY <1>2 DEF Popping
  <2> QED BY <1>0, <1>1, <2>1, <2>2 DEF ViewMatchesUrl, location
<1>7. NoStuckSpinner' /\ ErrorViewKnown'
  BY <1>0, <1>1 DEF NoStuckSpinner, ErrorViewKnown
<1> QED BY <1>3, <1>4, <1>5, <1>6, <1>7 DEF IInv

LEMMA UnloadKeeps == ASSUME IInv, Unloads PROVE IInv'
<1>0. TypeOK /\ CurrentOwn
  BY DEF IInv
<1> DEFINE foreign == [k \in 1 .. at |-> [history[k] EXCEPT !.own = FALSE]]
<1>1. /\ leaving # NoPath /\ leaving \in Targets /\ starts(leaving)
      /\ history' = IF leaving = location
                    THEN [foreign EXCEPT ![at].own = TRUE]
                    ELSE pushed(foreign, leaving)
      /\ at' = Len(history')
  BY <1>0 DEF Unloads, TypeOK
<1>2. /\ history \in Seq(Entry) /\ at \in 1 .. Len(history) /\ at \in Nat /\ at \in 1 .. MaxHistory
      /\ \A k \in 1 .. Len(history) : history[k] \in Entry
  <2>1. history \in Seq(Entry) /\ Len(history) \in 1 .. MaxHistory /\ at \in DOMAIN history
    BY <1>0 DEF TypeOK, Entry
  <2>2. DOMAIN history = 1 .. Len(history)
    BY <2>1
  <2> QED BY <2>1, <2>2, NavigationAssumption
<1>3. ASSUME NEW k \in 1 .. at
      PROVE  /\ foreign[k] \in Entry /\ foreign[k].path = history[k].path
             /\ foreign[k].own = FALSE
  <2>1. history[k] \in Entry
    BY <1>2
  <2> QED BY <2>1 DEF Entry
<1>4. foreign \in Seq(Entry) /\ Len(foreign) = at /\ DOMAIN foreign = 1 .. at
  <2>1. foreign \in [1 .. at -> Entry]
    BY <1>3
  <2> HIDE DEF foreign
  <2>2. foreign \in Seq(Entry)
    BY <1>2, <2>1, SeqDef
  <2>3. DOMAIN foreign = 1 .. at /\ DOMAIN foreign = 1 .. Len(foreign) /\ Len(foreign) \in Nat
    BY <2>1, <2>2, LenProperties
  <2> QED BY <1>2, <2>2, <2>3
<1> HIDE DEF foreign
<1>5. CASE leaving = location
  <2>1. history' = [foreign EXCEPT ![at] = [@ EXCEPT !.own = TRUE]]
    BY <1>1, <1>5
  <2>2. /\ [foreign[at] EXCEPT !.own = TRUE] \in Entry
        /\ [foreign[at] EXCEPT !.own = TRUE].path = leaving
        /\ [foreign[at] EXCEPT !.own = TRUE].own
    <3>1. at \in 1 .. at /\ history[at].path = leaving
      BY <1>2, <1>5 DEF location
    <3>2. foreign[at] \in Entry /\ foreign[at].path = leaving
      BY <1>3, <3>1
    <3> QED BY <3>2 DEF Entry
  <2>3. /\ history' \in Seq(Entry) /\ Len(history') = at /\ DOMAIN history' = 1 .. at
        /\ history'[at] = [foreign[at] EXCEPT !.own = TRUE]
        /\ \A k \in 1 .. at : k # at => history'[k] = foreign[k]
    <3> DEFINE mine == [foreign[at] EXCEPT !.own = TRUE]
    <3>1. mine \in Entry /\ history' = [foreign EXCEPT ![at] = mine] /\ at \in 1 .. at
      BY <1>2, <2>1, <2>2
    <3> HIDE DEF mine
    <3>2. /\ history' \in Seq(Entry) /\ Len(history') = at
          /\ \A k \in 1 .. at : history'[k] = IF k = at THEN mine ELSE foreign[k]
      BY <1>4, <3>1, ExceptSeq
    <3> QED BY <3>1, <3>2, LenProperties DEF mine
  <2>4. \A k \in DOMAIN history' : history'[k].own => history'[k].path = leaving
    BY <1>3, <2>2, <2>3
  <2>5. Len(history') \in 1 .. MaxHistory /\ at' \in DOMAIN history' /\ at' = at
    BY <1>1, <1>2, <2>3
  <2>6. history'[at'].path = leaving /\ history'[at'].own
    BY <2>2, <2>3, <2>5
  <2> QED BY <1>1, <2>3, <2>4, <2>5, <2>6, StartKeeps
<1>6. CASE leaving # location
  <2>1. history' = pushed(foreign, leaving)
    BY <1>1, <1>6
  <2>2. /\ history' \in Seq(Entry) /\ Len(history') \in 1 .. MaxHistory
        /\ history'[Len(history')] = [path |-> leaving, own |-> TRUE]
        /\ \A k \in DOMAIN history' :
              \/ history'[k] = [path |-> leaving, own |-> TRUE]
              \/ \E i \in DOMAIN foreign : history'[k] = foreign[i]
    <3>1. Len(foreign) <= MaxHistory
      BY <1>2, <1>4, NavigationAssumption
    <3>2. leaving \in Targets /\ foreign \in Seq(Entry)
      BY <1>1, <1>4
    <3>3. /\ pushed(foreign, leaving) \in Seq(Entry)
          /\ Len(pushed(foreign, leaving)) \in 1 .. MaxHistory
          /\ pushed(foreign, leaving)[Len(pushed(foreign, leaving))] = [path |-> leaving, own |-> TRUE]
          /\ \A k \in DOMAIN pushed(foreign, leaving) :
                \/ pushed(foreign, leaving)[k] = [path |-> leaving, own |-> TRUE]
                \/ \E i \in DOMAIN foreign : pushed(foreign, leaving)[k] = foreign[i]
      BY <3>1, <3>2, PushedProperties
    <3> QED BY <2>1, <3>3, Zenon
  <2>3. at' \in DOMAIN history' /\ history'[at'].path = leaving /\ history'[at'].own
    BY <1>1, <2>2
  <2>4. \A k \in DOMAIN history' : history'[k].own => history'[k].path = leaving
    <3>1. [path |-> leaving, own |-> TRUE].path = leaving
      OBVIOUS
    <3>2. \A i \in DOMAIN foreign : ~ foreign[i].own
      BY <1>3, <1>4
    <3> QED BY <2>2, <3>1, <3>2
  <2> QED BY <1>1, <2>2, <2>3, <2>4, StartKeeps
<1> QED BY <1>5, <1>6

(* The error boundary: only the view, its url and the flag change.         *)
LEMMA ErrorKeeps ==
    ASSUME IInv, NEW l \in Loads, PageThrows(l) \/ ErrorShown(l) \/ ErrorFails(l)
    PROVE  IInv'
<1>0. /\ TypeOK /\ CurrentOwn /\ InDocument
      /\ ViewMatchesUrl /\ NoStuckSpinner /\ ErrorViewKnown /\ OwnEntriesArePages
  BY DEF IInv
<1>1. UNCHANGED <<history, at, leaving, navigating, flights>>
  BY DEF PageThrows, ErrorShown, ErrorFails, loaded, document
<1>2. /\ errorLoads' \in [Loads -> Pages \cup {NoPath}]
      /\ \A k \in Loads : errorLoads'[k] # NoPath => InPage
  <2>1. CASE PageThrows(l)
    BY <1>0, <2>1, NavigationAssumption DEF PageThrows, TypeOK, InDocument
  <2>2. CASE errorLoads' = [errorLoads EXCEPT ![l] = NoPath]
    BY <1>0, <2>2 DEF TypeOK, InDocument
  <2> QED BY <2>1, <2>2 DEF ErrorShown, ErrorFails, loaded
<1>3. /\ view' \in [path : Targets, error : BOOLEAN] /\ url' \in Targets
      /\ errorViewActive' \in BOOLEAN /\ late' \in BOOLEAN /\ overruled' \in BOOLEAN
      /\ InPage => view'.path \in Pages /\ url' \in Pages
      /\ InPage' => InPage
      /\ ViewMatchesUrl' /\ ErrorViewKnown'
  <2> USE DEF ViewMatchesUrl, ErrorViewKnown, location, Popping, InPage
  <2>1. CASE PageThrows(l)
    BY <1>0, <1>1, <2>1 DEF PageThrows, TypeOK, InDocument
  <2>2. CASE ErrorShown(l)
    <3>1. /\ errorLoads[l] # NoPath /\ view' = [path |-> errorLoads[l], error |-> TRUE]
          /\ url' = location /\ errorViewActive' = TRUE
          /\ late' = (location # errorLoads[l]) /\ overruled' = FALSE
      BY <2>2 DEF ErrorShown, loaded, applyState
    <3>2. errorLoads[l] \in Pages /\ errorLoads[l] \in Targets /\ InPage
      BY <1>0, <3>1 DEF TypeOK, Targets, InDocument
    <3>3. url' \in Pages /\ url' \in Targets
      BY <1>0, <3>1, <3>2 DEF TypeOK, CurrentOwn, OwnEntriesArePages, Targets
    <3> QED BY <1>1, <3>1, <3>2, <3>3
  <2>3. CASE ErrorFails(l)
    BY <1>0, <1>1, <2>3 DEF ErrorFails, TypeOK, InDocument
  <2> QED BY <2>1, <2>2, <2>3
<1>4. TypeOK'
  BY <1>0, <1>1, <1>2, <1>3 DEF TypeOK
<1>5. CurrentOwn' /\ OwnEntriesArePages'
  BY <1>0, <1>1, <1>3 DEF CurrentOwn, OwnEntriesArePages
<1>6. InDocument'
  BY <1>0, <1>1, <1>2, <1>3 DEF InDocument, InPage
<1>7. NoStuckSpinner'
  BY <1>0, <1>1 DEF NoStuckSpinner
<1> QED BY <1>3, <1>4, <1>5, <1>6, <1>7 DEF IInv

LEMMA Step == IInv /\ [Next]_vars => IInv'
<1> SUFFICES ASSUME IInv, [Next]_vars PROVE IInv'
  OBVIOUS
<1>0. /\ TypeOK /\ CurrentOwn /\ InDocument
      /\ ViewMatchesUrl /\ NoStuckSpinner /\ ErrorViewKnown /\ OwnEntriesArePages
  BY DEF IInv
<1>1. ASSUME NEW p \in Targets, ClickElsewhere(p) PROVE IInv'
  <2>1. /\ leaving' = p /\ p # NoPath
        /\ UNCHANGED <<history, at, url, view, errorViewActive, late, overruled, navigating,
                        flights, errorLoads>>
    BY <1>1, NavigationAssumption DEF ClickElsewhere, pageState, Targets
  <2>2. TypeOK' /\ CurrentOwn' /\ InDocument' /\ OwnEntriesArePages'
    BY <1>0, <2>1 DEF TypeOK, CurrentOwn, InDocument, OwnEntriesArePages, InPage
  <2>3. ViewMatchesUrl' /\ NoStuckSpinner' /\ ErrorViewKnown'
    BY <1>0, <2>1 DEF ViewMatchesUrl, NoStuckSpinner, ErrorViewKnown
  <2> QED BY <2>2, <2>3 DEF IInv
<1>2. CASE UNCHANGED vars
  BY <1>0, <1>2
  DEF vars, IInv, TypeOK, CurrentOwn, InDocument, OwnEntriesArePages, InPage, ViewMatchesUrl,
      NoStuckSpinner, ErrorViewKnown, location, Popping
<1> QED
  BY <1>1, <1>2, NavigateKeeps, TraverseKeeps, AppliesKeeps, LostFlightKeeps, UnloadKeeps,
     ErrorKeeps DEF Next, Click

-----------------------------------------------------------------------------
(* The strengthening holds of every behaviour of the tab, whatever         *)
(* navigations and error loads overlap (page.svelte.ts).                   *)
THEOREM Invariance == Spec => []IInv
BY Initially, Step, PTL DEF Spec

(* Every variable keeps its type; `at` names an entry of the history,      *)
(* whatever is pushed, replaced or cut off at the bound (navigate.ts).     *)
THEOREM TypeCorrect == Spec => []TypeOK
<1>1. IInv => TypeOK
  BY DEF IInv
<1> QED BY <1>1, Invariance, PTL

(* The view, page.url and the location name one path, however many         *)
(* navigations overlap: all but for what came when the location had moved. *)
THEOREM TheViewMatches == Spec => []ViewMatchesUrl
<1>1. IInv => ViewMatchesUrl
  BY DEF IInv
<1> QED BY <1>1, Invariance, PTL

(* `navigating` never outlives the last navigation under way.              *)
THEOREM TheSpinnerEnds == Spec => []NoStuckSpinner
<1>1. IInv => NoStuckSpinner
  BY DEF IInv
<1> QED BY <1>1, Invariance, PTL

(* An error view that is shown is known to isCurrentView, unless an older  *)
(* error load failed under it.                                             *)
THEOREM ErrorViewsAreKnown == Spec => []ErrorViewKnown
<1>1. IInv => ErrorViewKnown
  BY DEF IInv
<1> QED BY <1>1, Invariance, PTL

(* Back and forward within the document reach the app's own pages only.    *)
THEOREM HistoryHoldsPages == Spec => []OwnEntriesArePages
<1>1. IInv => OwnEntriesArePages
  BY DEF IInv
<1> QED BY <1>1, Invariance, PTL

(* So the next link and the next popstate can rely on both.                *)
THEOREM WhereItIs == Spec => []PagesKnown
<1>1. IInv => PagesKnown
  BY DEF IInv, PagesKnown
<1> QED BY <1>1, Invariance, PTL

=============================================================================
