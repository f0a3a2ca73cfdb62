-------------------------------- MODULE Csrf --------------------------------
(***************************************************************************)
(* The CSRF cookie and the forms of one browser: csrfProtection on the     *)
(* server, and the script that copies the cookie into the forms, in        *)
(* several tabs that share the cookie jar.  The browser attaches the       *)
(* cookie when a request leaves, which is after the form was read; answers *)
(* come back in any order, or not at all; the user may clear the jar.      *)
(*                                                                         *)
(* htmx is a library: it serialises a boosted form before the script's own *)
(* submit listener has refilled it, and may or may not offer the headers   *)
(* that the script's htmx:beforeRequest listener writes to.                *)
(*                                                                         *)
(* Simplifications: the server answers at once when a request reaches it;  *)
(* a tab does one thing at a time; the paths under /api/, which are let    *)
(* through, are left out; rand.Read does not fail.                         *)
(***************************************************************************)
EXTENDS Naturals

CONSTANTS
  Tab,
  Token,     \* values newCSRFToken may draw; one that nobody holds is new
  NULL,      \* no cookie, no value
  MaxFaults  \* bound: how often the jar is cleared or a message is lost

ASSUME NullAssumption   == NULL \notin Token
ASSUME NumberAssumption == MaxFaults \in Nat

VARIABLES
  jar,             \* the csrf_token cookie of the browser
  field,           \* of a tab: the hidden field of its form
  pc, method,      \* what it is at, and with which method
  header, form,    \* what its request says beside the cookie
  cookie,          \* the cookie its request was sent with
  set, ok,         \* its answer: the cookie to set, and the verdict
  moved,           \* history: was the jar changed since the token that the
                   \* tab offers was read from it, by the user or by the
                   \* answer to a request that had no cookie?
  faults           \* how many there were

request == <<pc, method, header, form, cookie>>
answer  == <<set, ok>>
vars    == <<jar, field, request, answer, moved, faults>>

None == [i \in Tab |-> NULL]

Init ==
  /\ jar = NULL
  /\ field = None
  /\ pc = [i \in Tab |-> "blank"]
  /\ method = [i \in Tab |-> "get"]
  /\ header = None /\ form = None /\ cookie = None
  /\ set = None
  /\ ok = [i \in Tab |-> TRUE]
  /\ moved = [i \in Tab |-> FALSE]
  /\ faults = 0

Goto(i, where) == pc' = [pc EXCEPT ![i] = where]

-----------------------------------------------------------------------------
(* The tabs *)

\* ensureCSRFField: a field keeps its value when there is no cookie.
Filled(i) == IF jar # NULL THEN jar ELSE field[i]

\* A page is opened, or a link of the shown page is followed.
Load(i) ==
  /\ pc[i] \in {"blank", "page", "done"}
  /\ method' = [method EXCEPT ![i] = "get"]
  /\ Goto(i, "leaving")
  /\ UNCHANGED <<jar, field, header, form, cookie, answer, moved, faults>>

\* The form is submitted with h and f; the listener refills it as well.
Post(i, h, f, stale) ==
  /\ pc[i] = "page"
  /\ method' = [method EXCEPT ![i] = "post"]
  /\ header' = [header EXCEPT ![i] = h]
  /\ form'   = [form EXCEPT ![i] = f]
  /\ field'  = [field EXCEPT ![i] = Filled(i)]
  /\ moved'  = [moved EXCEPT ![i] = @ /\ stale]
  /\ Goto(i, "leaving")
  /\ UNCHANGED <<jar, cookie, answer, faults>>

\* The browser sends the form: the submit listener is first.
Submit(i) == Post(i, NULL, Filled(i), jar = NULL)

\* htmx sends it: the field as it was, with or without the header.
SubmitBoosted(i) == \/ Post(i, NULL, field[i], TRUE)
                    \/ Post(i, jar, field[i], jar = NULL)

Send(i) ==
  /\ pc[i] = "leaving"
  /\ cookie' = [cookie EXCEPT ![i] = jar]
  /\ Goto(i, "sent")
  /\ UNCHANGED <<jar, field, method, header, form, answer, moved, faults>>

-----------------------------------------------------------------------------
(* The server *)

Held == {jar} \cup UNION {{field[i], header[i], form[i], cookie[i], set[i]} : i \in Tab}

\* newCSRFToken: a value that nobody has, and which one does not matter.
Fresh == CHOOSE t \in Token : t \notin Held

\* Mutants of Missing: every request gets a new cookie; only safe ones do.
Missing_Always(i) == TRUE
Missing_Safe(i)   == cookie[i] = NULL /\ method[i] = "get"

\* ensureCSRFCookie gives the request a new cookie.
Missing(i) == cookie[i] = NULL

\* csrfTokensEqual with the cookie the request came with, not the new one.
\* The header is preferred.
Valid(i) == LET candidate == IF header[i] # NULL THEN header[i] ELSE form[i]
            IN cookie[i] # NULL /\ candidate = cookie[i]

\* Bound: a cookie is made only while there is a value left to draw for it.
Protect(i) ==
  /\ pc[i] = "sent"
  /\ Missing(i) => Token \ Held # {}
  /\ IF Missing(i) THEN set' = [set EXCEPT ![i] = Fresh]
                   ELSE UNCHANGED set
  /\ ok' = [ok EXCEPT ![i] = method[i] = "get" \/ Valid(i)]
  /\ Goto(i, "answered")
  /\ UNCHANGED <<jar, field, method, header, form, cookie, moved, faults>>

-----------------------------------------------------------------------------
(* What the browser does with an answer *)

\* The request of i is over, and the tab shows what, with f in its form.
Over(i, what, f) ==
  /\ Goto(i, what)
  /\ header' = [header EXCEPT ![i] = NULL]
  /\ form'   = [form EXCEPT ![i] = NULL]
  /\ cookie' = [cookie EXCEPT ![i] = NULL]
  /\ set'    = [set EXCEPT ![i] = NULL]
  /\ ok'     = [ok EXCEPT ![i] = TRUE]
  /\ method' = [method EXCEPT ![i] = "get"]
  /\ field'  = [field EXCEPT ![i] = f]

\* The cookie is stored before the page is shown and its forms are filled.
Arrive(i) ==
  /\ pc[i] = "answered"
  /\ jar' = IF set[i] # NULL THEN set[i] ELSE jar
  /\ LET kept == method[i] = "post" /\ ~ok[i]  \* back to the form as it was
         f == IF kept THEN field[i] ELSE jar'
     IN /\ Over(i, IF method[i] = "post" /\ ok[i] THEN "done" ELSE "page", f)
        /\ moved' = [j \in Tab |-> IF j = i /\ ~kept THEN f = NULL
                                   ELSE moved[j] \/ cookie[i] = NULL]
  /\ UNCHANGED faults

Fault == faults < MaxFaults /\ faults' = faults + 1

\* The request or its answer is lost, or the user stops waiting for it.
Lose(i) ==
  /\ pc[i] \in {"leaving", "sent", "answered"}
  /\ IF method[i] = "post" THEN Over(i, "page", field[i]) ELSE Over(i, "blank", NULL)
  /\ Fault
  /\ UNCHANGED <<jar, moved>>

Clear ==
  /\ jar # NULL
  /\ jar' = NULL
  /\ Fault
  /\ moved' = [i \in Tab |-> TRUE]
  /\ UNCHANGED <<field, request, answer>>

-----------------------------------------------------------------------------
Next ==
  \/ Clear
  \/ \E i \in Tab : \/ Load(i) \/ Submit(i) \/ SubmitBoosted(i) \/ Send(i)
                    \/ Protect(i) \/ Arrive(i) \/ Lose(i)

\* The user tries again, to open the page and to submit the form.
Fairness ==
  \A i \in Tab : /\ WF_vars(pc[i] = "blank" /\ Load(i))
                 /\ SF_vars(Submit(i) \/ SubmitBoosted(i))
                 /\ WF_vars(Send(i) \/ Protect(i) \/ Arrive(i))

Spec == Init /\ [][Next]_vars /\ Fairness

-----------------------------------------------------------------------------
(* Properties *)

\* Types, and: a form is refused only for want of a cookie, or because since
\* its token was read the jar was cleared, or took the cookie that answered
\* another request without one.  With a cookie in the jar tabs never disturb
\* one another.
RefusedForACause ==
  /\ jar \in Token \cup {NULL}
  /\ field \in [Tab -> Token \cup {NULL}]
  /\ \A i \in Tab : ~ok[i] => cookie[i] = NULL \/ moved[i]

\* Who keeps trying gets a form through, again and again, whatever other tabs
\* load and submit and whichever cookie was lost and replaced meanwhile.
FormGetsThrough == \A i \in Tab : []<>(pc[i] = "done")
=============================================================================
