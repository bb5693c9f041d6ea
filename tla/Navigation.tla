----------------------------- MODULE Navigation ----------------------------
(***************************************************************************)
(* Client-side navigation: links and navigate(), back and forward, and the *)
(* error boundary, over one browser history. A navigation fetches and      *)
(* imports its view and only then writes history; nothing orders two that  *)
(* overlap. Search and hash are left out: a same-path target is one whose  *)
(* search differs.                                                         *)
(***************************************************************************)
EXTENDS Naturals, Sequences, FiniteSets

CONSTANTS
    Pages,       \* paths of the app's routes
    Raw,         \* paths that answer, but with no route: JSON endpoints
    Files,       \* paths that answer 200 with a body that is not JSON
    Covered,     \* pages that an error.svelte covers
    NoPath,
    Flights,     \* bound: navigations under way at once
    Loads,       \* bound: error views under way at once
    MaxHistory   \* the browser's cap on entries

ASSUME NavigationAssumption ==
    /\ Covered \subseteq Pages /\ Pages # {}
    /\ Pages \cap Raw = {} /\ Pages \cap Files = {}
    /\ NoPath \notin Pages \cup Raw \cup Files
    /\ MaxHistory \in Nat \ {0}

Targets == Pages \cup Raw \cup Files

VARIABLES
    history,      \* entries; own: of this document, so that reaching it is a popstate
    at,           \* the current entry
    leaving,      \* location.href was assigned; the document is going
    url,          \* clientPageState.url
    view,         \* renderState and route: a page or an error view of a path
    errorViewActive,
    navigating,
    flights,      \* applyResolvedView calls awaiting their view
    errorLoads,   \* showErrorView calls awaiting their module: the path that failed
    late,         \* history variable: the view came when the location had moved
    overruled     \* history variable: an older error load failed under an error view

vars == <<history, at, leaving, url, view, errorViewActive, navigating,
          flights, errorLoads, late, overruled>>

document == <<history, at, leaving>>
pageState == <<url, view, errorViewActive, late, overruled>>

location == history[at].path
InPage == view.path \in Pages
NoFlight == [kind |-> "none", target |-> NoPath]

TypeOK ==
    /\ history \in Seq([path : Targets, own : BOOLEAN])
    /\ Len(history) \in 1 .. MaxHistory /\ at \in DOMAIN history
    /\ leaving \in Targets \cup {NoPath}
    /\ url \in Targets
    /\ view \in [path : Targets, error : BOOLEAN]
    /\ errorViewActive \in BOOLEAN /\ navigating \in BOOLEAN
    /\ flights \in [Flights -> [kind : {"push", "replace", "pop"}, target : Targets] \cup {NoFlight}]
    /\ errorLoads \in [Loads -> Pages \cup {NoPath}]
    /\ late \in BOOLEAN /\ overruled \in BOOLEAN

(* startClient over the server's document.                                 *)
starts(p) ==
    /\ leaving' = NoPath
    /\ url' = p
    /\ view' = [path |-> p, error |-> FALSE]
    /\ errorViewActive' = FALSE /\ navigating' = FALSE
    /\ flights' = [f \in Flights |-> NoFlight]
    /\ errorLoads' = [l \in Loads |-> NoPath]
    /\ late' = FALSE /\ overruled' = FALSE

Init == \E p \in Pages :
    /\ history = <<[path |-> p, own |-> TRUE]>> /\ at = 1
    /\ leaving = NoPath
    /\ url = p
    /\ view = [path |-> p, error |-> FALSE]
    /\ errorViewActive = FALSE /\ navigating = FALSE
    /\ flights = [f \in Flights |-> NoFlight]
    /\ errorLoads = [l \in Loads |-> NoPath]
    /\ late = FALSE /\ overruled = FALSE

-----------------------------------------------------------------------------
(* pushState drops what lies ahead; a full history drops its oldest entry. *)
pushed(past, p) ==
    LET longer == Append(past, [path |-> p, own |-> TRUE])
    IN IF Len(longer) > MaxHistory THEN Tail(longer) ELSE longer

(* Fault: the cap is forgotten.                                            *)
writeHistoryPast(kind, p) ==
    IF kind = "push"
    THEN /\ history' = pushed(SubSeq(history, 1, at), p)
         /\ at' = at + 1
    ELSE /\ history' = [history EXCEPT ![at].path = p]
         /\ UNCHANGED at

writeHistory(kind, p) ==
    IF kind = "push"
    THEN /\ history' = pushed(SubSeq(history, 1, at), p)
         /\ at' = Len(history')
    ELSE /\ history' = [history EXCEPT ![at].path = p]
         /\ UNCHANGED at

isCurrentView(p) == p = url /\ ~errorViewActive

begins(kind, p) == \E f \in Flights :
    /\ flights[f] = NoFlight
    /\ flights' = [flights EXCEPT ![f] = [kind |-> kind, target |-> p]]
    /\ navigating' = TRUE

(* navigate(), from a link or the app. Fault: history is written before    *)
(* the view is resolved, and not again.                                    *)
NavigateWritesFirst(kind, p) ==
    /\ InPage
    /\ writeHistory(kind, p)
    /\ IF isCurrentView(p) THEN url' = p /\ UNCHANGED <<navigating, flights>>
       ELSE begins("pop", p) /\ UNCHANGED url
    /\ UNCHANGED <<leaving, view, errorViewActive, errorLoads, late, overruled>>

Navigate(kind, p) ==
    /\ InPage
    /\ IF isCurrentView(p)
       THEN /\ writeHistory(kind, p)
            /\ url' = p
            /\ UNCHANGED <<navigating, flights>>
       ELSE begins(kind, p) /\ UNCHANGED <<history, at, url>>
    /\ UNCHANGED <<leaving, view, errorViewActive, errorLoads, late, overruled>>

(* A click on an internal link; a same-path one that only differs in its   *)
(* hash is left to the browser and changes nothing here.                   *)
Click(p) == Navigate("push", p)

(* A link that is not internal (modified click, download, external): the   *)
(* browser loads its target.                                               *)
ClickElsewhere(p) ==
    /\ InPage
    /\ leaving' = p
    /\ UNCHANGED <<history, at, pageState, navigating, flights, errorLoads>>

(* Back and forward: popstate within the document, a load otherwise.       *)
Traverse(j) ==
    /\ j # at
    /\ at' = j
    /\ IF history[j].own /\ InPage
       THEN /\ IF isCurrentView(history[j].path)
               THEN url' = history[j].path /\ UNCHANGED <<navigating, flights>>
               ELSE begins("pop", history[j].path) /\ UNCHANGED url
            /\ UNCHANGED <<history, leaving, view, errorViewActive, errorLoads, late,
                            overruled>>
       ELSE /\ history' = [k \in DOMAIN history |->
                             [history[k] EXCEPT !.own = k = j]]
            /\ starts(history[j].path)

-----------------------------------------------------------------------------
(* applyState(): the view, then page.url from the location as it is now.   *)
applyState(target, isError, where) ==
    /\ view' = [path |-> target, error |-> isError]
    /\ url' = where
    /\ errorViewActive' = isError
    /\ late' = (where # target) /\ overruled' = FALSE

(* The view resolved: history is written first, by a navigate(). Fault:    *)
(* last.                                                                   *)
AppliesFirst(f) ==
    /\ flights[f].target \in Pages
    /\ IF flights[f].kind = "pop" THEN UNCHANGED <<history, at>>
       ELSE writeHistory(flights[f].kind, flights[f].target)
    /\ view' = [path |-> flights[f].target, error |-> FALSE]
    /\ url' = location
    /\ errorViewActive' = FALSE
    /\ late' = (flights[f].kind = "pop" /\ location # flights[f].target)
    /\ overruled' = FALSE
    /\ flights' = [flights EXCEPT ![f] = NoFlight]
    /\ navigating' = FALSE
    /\ UNCHANGED <<leaving, errorLoads>>

Applies(f) ==
    /\ flights[f].target \in Pages
    /\ IF flights[f].kind = "pop" THEN UNCHANGED <<history, at>>
       ELSE writeHistory(flights[f].kind, flights[f].target)
    /\ applyState(flights[f].target, FALSE, location')
    /\ flights' = [flights EXCEPT ![f] = NoFlight]
    /\ navigating' = FALSE
    /\ UNCHANGED <<leaving, errorLoads>>

(* The fetch failed, the answer names no route, or the import threw: the   *)
(* target is loaded as a document. Fault: the flag is cleared by a view.   *)
GoesHardBare(f) ==
    /\ flights[f] # NoFlight /\ flights[f].target \notin Files
    /\ leaving' = flights[f].target
    /\ flights' = [flights EXCEPT ![f] = NoFlight]
    /\ UNCHANGED <<history, at, pageState, navigating, errorLoads>>

GoesHard(f) ==
    /\ flights[f] # NoFlight /\ flights[f].target \notin Files
    /\ leaving' = flights[f].target
    /\ flights' = [flights EXCEPT ![f] = NoFlight]
    /\ navigating' = FALSE
    /\ UNCHANGED <<history, at, pageState, errorLoads>>

(* response.json() rejects, outside every try: only the finally runs.      *)
Rejects(f) ==
    /\ flights[f].target \in Files
    /\ flights' = [flights EXCEPT ![f] = NoFlight]
    /\ navigating' = FALSE
    /\ UNCHANGED <<document, pageState, errorLoads>>

(* The document goes, and with it everything that was under way.           *)
Unloads ==
    /\ leaving # NoPath
    /\ LET foreign == [k \in 1 .. at |-> [history[k] EXCEPT !.own = FALSE]]
       IN history' = IF leaving = location
                     THEN [foreign EXCEPT ![at].own = TRUE]
                     ELSE pushed(foreign, leaving)
    /\ at' = Len(history')
    /\ starts(leaving)

-----------------------------------------------------------------------------
(* A page throws while it renders, or from an effect: handleRenderError.   *)
(* A throw it rethrows changes nothing here.                               *)
PageThrows(l) ==
    /\ InPage /\ ~errorViewActive /\ url \in Covered
    /\ errorLoads[l] = NoPath
    /\ errorViewActive' = TRUE
    /\ errorLoads' = [errorLoads EXCEPT ![l] = url]
    /\ UNCHANGED <<document, url, view, navigating, flights, late, overruled>>

loaded(l) ==
    /\ errorLoads[l] # NoPath
    /\ errorLoads' = [errorLoads EXCEPT ![l] = NoPath]
    /\ UNCHANGED <<document, navigating, flights>>

(* Fault: the flag is left as applyState cleared it.                       *)
ErrorShownUnflagged(l) ==
    /\ loaded(l)
    /\ view' = [path |-> errorLoads[l], error |-> TRUE]
    /\ url' = location
    /\ errorViewActive' = FALSE
    /\ late' = (location # errorLoads[l]) /\ overruled' = FALSE

ErrorShown(l) ==
    /\ loaded(l)
    /\ applyState(errorLoads[l], TRUE, location)

(* The error view's import failed: the flag goes, whoever raised it since. *)
ErrorFails(l) ==
    /\ loaded(l)
    /\ errorViewActive' = FALSE
    /\ overruled' = (overruled \/ view.error)
    /\ UNCHANGED <<url, view, late>>

Next ==
    \/ \E p \in Targets :
         \/ Click(p) \/ ClickElsewhere(p)
         \/ \E kind \in {"push", "replace"} : Navigate(kind, p)
    \/ \E j \in DOMAIN history : Traverse(j)
    \/ \E f \in Flights : Applies(f) \/ GoesHard(f) \/ Rejects(f)
    \/ \E l \in Loads : PageThrows(l) \/ ErrorShown(l) \/ ErrorFails(l)
    \/ Unloads

Spec == Init /\ [][Next]_vars

-----------------------------------------------------------------------------
Popping == \E f \in Flights : flights[f].kind = "pop"

(* However navigations overlap, page.url, the shown view and, unless a     *)
(* popstate is resolving or the document going, the location are of one    *)
(* path: all but for a popstate's or an error's view that came when the    *)
(* location had moved, which nothing recalls (applyResolvedView).          *)
ViewMatchesUrl ==
    ~late => /\ view.path = url
             /\ url = location \/ Popping \/ leaving # NoPath

(* `navigating` is never left on with nothing under way.                   *)
NoStuckSpinner == navigating => \E f \in Flights : flights[f] # NoFlight

(* An error view that is up is known to be, so that a link to its own path *)
(* resolves again instead of leaving it there (isCurrentView): all but for *)
(* the failure of an older error load, which clears the flag it no longer  *)
(* owns.                                                                   *)
ErrorViewKnown == view.error /\ ~overruled => errorViewActive

(* Only the app's own pages become entries a popstate may return to: a     *)
(* target that was no page left history as it was (navigate.ts).           *)
OwnEntriesArePages ==
    InPage => \A k \in DOMAIN history : history[k].own => history[k].path \in Pages

(* What the tab holds of where it is can be relied on by the next link and *)
(* the next popstate (page.svelte.ts, navigate.ts).                        *)
PagesKnown == ErrorViewKnown /\ OwnEntriesArePages

(* navigate.ts: "a non-SPA target (raw JSON endpoint, unknown route,       *)
(* failed import) hard-navigates cleanly via `location.href`".             *)
EndsInTheTarget ==
    [][\A f \in Flights : flights[f] # NoFlight /\ flights'[f] = NoFlight =>
           \/ view'.path = flights[f].target
           \/ leaving' = flights[f].target
           \/ leaving # NoPath /\ leaving' = NoPath
           \/ at' # at]_vars

=============================================================================
