-------------------------------- MODULE Posts --------------------------------
(***************************************************************************)
(* How a page talks to the server: eamsOperPost and its variants,          *)
(* checkLoginOverTime, openWin and closeWin of control.js, with the        *)
(* messages of jquery.messager.js and the buttons of jquery.linkbutton.js. *)
(* A post may disable a button until it is done, ends with a message or    *)
(* without, and calls the page back; a window is opened when the server    *)
(* has said that the session lives, and else a window to log in.           *)
(***************************************************************************)
EXTENDS Integers, Sequences, FiniteSets, SequencesExt

CONSTANTS
    Kinds,      \* functions of control.js that post
    Targets,    \* what windows are opened for
    None,
    MaxAsked    \* bound: the number of requests

PostsAssumption ==
    /\ MaxAsked \in Nat
    /\ Kinds \subseteq {"post", "always", "either", "close", "return"}
    /\ None \notin {"ok", "told", "error", "expired"}

VARIABLES
    data,       \* the window _iframeWin, what its frame is for, the messages
                \* on top of each other, and whether the button is enabled
    page        \* the session, requests, and history: for which posts the page
                \* was called back and how often, and what explains a surprise

vars == <<data, page>>

Init ==
    /\ data = [open |-> FALSE, frame |-> None, boxes |-> <<>>, enabled |-> TRUE]
    /\ page = [alive |-> TRUE, nr |-> 0, net |-> {}, last |-> None,
               done |-> {}, lost |-> {}, after |-> [n \in 1 .. MaxAsked |-> 0], mixed |-> {}]

\* A modal window or message keeps the user from the page.
Free == ~data.open /\ data.boxes = <<>>
Asked(kind, what) ==
    [page EXCEPT !.nr = @ + 1,
                 !.net = @ \cup {[nr |-> page.nr + 1, kind |-> kind, what |-> what, out |-> None]}]

-----------------------------------------------------------------------------
\* openWin asks for the session first; popFrame then makes a frame in the one
\* window there is, open or not, and posts the parameters to it.
\* Faulty: content that is loaded already is not loaded again.
PopFrameLoaded(d, what) == [d EXCEPT !.open = TRUE, !.frame = IF @ = None THEN what ELSE @]
PopFrame(d, what) == [d EXCEPT !.open = TRUE, !.frame = what]

OpenWin(t) ==
    /\ Free /\ page.nr < MaxAsked
    /\ page' = [Asked("check", t) EXCEPT !.last = t,
                    !.mixed = @ \cup (IF \E r \in page.net : r.kind = "check" THEN {"overlap"} ELSE {})]
    /\ UNCHANGED data

\* A form in the frame that was saved, its button to cancel, or the tool.
CloseWin == data.open /\ data' = [data EXCEPT !.open = FALSE] /\ UNCHANGED page

\* relogin in the frame, whose page then calls closeWin.
Relogin ==
    /\ data.open /\ data.frame = "login"
    /\ data' = [data EXCEPT !.open = FALSE] /\ page' = [page EXCEPT !.alive = TRUE]

\* The button disabled for a post that is given it; others are posted without.
WithButton(kind) == kind \in {"post", "always"}
Disabled(d, kind) == IF WithButton(kind) THEN [d EXCEPT !.enabled = FALSE] ELSE d
Post(kind) ==
    /\ Free /\ page.nr < MaxAsked
    /\ WithButton(kind) => data.enabled
    /\ data' = Disabled(data, kind)
    /\ page' = Asked(kind, None)

-----------------------------------------------------------------------------
\* The server: the session may have ended; what an operation does is done.
Expire == page.alive /\ page' = [page EXCEPT !.alive = FALSE] /\ UNCHANGED data
Serve(r, out) ==
    /\ r.out = None
    /\ r.kind = "check" => out \in {"ok", "expired"}
    /\ page.alive <=> out # "expired"
    /\ page' = [page EXCEPT !.net = (@ \ {r}) \cup {[r EXCEPT !.out = out]},
                            !.done = IF out \in {"ok", "told"} /\ r.kind \notin {"check", "return"}
                                     THEN @ \cup {r.nr} ELSE @]
    /\ UNCHANGED data

\* What a message calls when its button is clicked.
Box(nr, enable, after, close) == [nr |-> nr, enable |-> enable, after |-> after, close |-> close]
NoCall(nr) == Box(nr, FALSE, FALSE, FALSE)

\* afterOper, which enables the button (roleindex.jsp) and closes what it must.
Called(d, b) ==
    [d EXCEPT !.enabled = @ \/ b.enable, !.open = @ /\ ~b.close]
Counted(p, b) == IF b.after THEN [p EXCEPT !.after[b.nr] = @ + 1] ELSE p
Did(r) == Box(r.nr, WithButton(r.kind), r.kind # "return", r.kind = "close")

\* openLoginWin takes the window from a form that may be in it.
Login(d, p) == [d |-> PopFrame(d, "login"), p |-> p]

\* Faulty: when the session is over the button stays as it is.
ExpiredOnly(d, kind) == d
Expired(d, kind) == IF WithButton(kind) THEN [d EXCEPT !.enabled = TRUE] ELSE d

Say(d, b) == [d EXCEPT !.boxes = Append(@, b)]
Done(r, d, p) ==
    IF r.out = "told" THEN [d |-> Say(d, Did(r)), p |-> p]
    ELSE [d |-> Called(d, Did(r)), p |-> Counted(p, Did(r))]

\* What each function does with an answer.
CheckLoginOverTime(r, d, p) ==
    IF r.out = "ok" THEN [d |-> PopFrame(d, r.what), p |-> p] ELSE Login(d, p)
EamsOperPost(r, d, p) ==
    CASE r.out = "error"   -> [d |-> Say([d EXCEPT !.enabled = TRUE], NoCall(r.nr)), p |-> p]
      [] r.out = "expired" -> Login(Expired(d, r.kind), p)
      [] OTHER             -> Done(r, d, p)
EamsOperPostAlwayExeCBP(r, d, p) ==
    CASE r.out = "error"   -> [d |-> Say(d, Box(r.nr, TRUE, TRUE, FALSE)), p |-> p]
      [] r.out = "expired" -> Login(Expired(d, r.kind), p)
      [] OTHER             -> Done(r, d, p)
EamsOperPostExeFailOrExeSucc(r, d, p) ==
    CASE r.out = "error"   -> [d |-> Say(d, Box(r.nr, FALSE, TRUE, FALSE)), p |-> p]
      [] r.out = "expired" -> Login(d, p)
      [] OTHER             -> Done(r, d, p)
\* WithWindowClose, WithReturn and WithJSON: where the session is over they call
\* a function that is not theirs, and nothing more happens.
OtherVariants(r, d, p) ==
    CASE r.out = "error"   -> [d |-> Say(d, NoCall(r.nr)), p |-> p]
      [] r.out = "expired" -> [d |-> d, p |-> p]
      [] OTHER             -> Done(r, d, p)

Handle(r, d, p) ==
    CASE r.kind = "check"  -> CheckLoginOverTime(r, d, p)
      [] r.kind = "post"   -> EamsOperPost(r, d, p)
      [] r.kind = "always" -> EamsOperPostAlwayExeCBP(r, d, p)
      [] r.kind = "either" -> EamsOperPostExeFailOrExeSucc(r, d, p)
      [] OTHER             -> OtherVariants(r, d, p)

Answer(r) ==
    /\ r.out # None
    /\ LET h == Handle(r, data, [page EXCEPT !.net = @ \ {r}])
       IN  data' = h.d /\ page' = h.p

\* Nobody handles a request that fails.
Lost(r) ==
    /\ page' = [page EXCEPT !.net = @ \ {r}, !.lost = @ \cup {r.nr},
                            !.mixed = @ \cup (IF WithButton(r.kind) THEN {"lost"} ELSE {})]
    /\ UNCHANGED data

\* The button of the message on top, or the tool in its corner.
ClickOk ==
    /\ data.boxes # <<>>
    /\ data' = [Called(data, Last(data.boxes)) EXCEPT !.boxes = Front(@)]
    /\ page' = Counted(page, Last(data.boxes))
ClickTool ==
    /\ data.boxes # <<>>
    /\ data' = [data EXCEPT !.boxes = Front(@)]
    /\ page' = [page EXCEPT !.lost = @ \cup {Last(data.boxes).nr},
                            !.mixed = @ \cup (IF Last(data.boxes).enable THEN {"dismissed"} ELSE {})]

Next ==
    \/ \E t \in Targets : OpenWin(t)
    \/ \E k \in Kinds : Post(k)
    \/ CloseWin \/ Relogin \/ Expire \/ ClickOk \/ ClickTool
    \/ \E r \in page.net : Answer(r) \/ Lost(r)
    \/ \E r \in page.net, out \in {"ok", "told", "error", "expired"} : Serve(r, out)

Spec == Init /\ [][Next]_vars

-----------------------------------------------------------------------------
TypeOK ==
    /\ data.frame \in Targets \cup {"login", None} /\ data.open \in BOOLEAN /\ data.enabled \in BOOLEAN
    /\ ToSet(data.boxes) \subseteq [nr : 1 .. MaxAsked, enable : BOOLEAN, after : BOOLEAN, close : BOOLEAN]
    /\ page.nr \in 0 .. MaxAsked /\ page.after \in [1 .. MaxAsked -> 0 .. 1]
    /\ page.done \subseteq 1 .. page.nr

\* The window shows what it was opened for last, or asks for the password;
\* unless it was opened twice before the session was known to live.
WindowOfLastAsked ==
    data.open /\ "overlap" \notin page.mixed => data.frame \in {page.last, "login"}

\* A button's post is under way once at most.  When nothing is under way and no
\* message is open, the page was called back for what the server has done, and
\* the button can be clicked again; unless the answer did not come or its message
\* was closed with the tool, after which neither will be.
PostsComeBack ==
    /\ Cardinality({r \in page.net : WithButton(r.kind)}
            \cup {b \in ToSet(data.boxes) : b.enable}) <= 1
    /\ page.net = {} /\ data.boxes = <<>>
            => /\ \A n \in page.done \ page.lost : page.after[n] = 1
               /\ page.mixed \cap {"lost", "dismissed"} = {} => data.enabled

=============================================================================
