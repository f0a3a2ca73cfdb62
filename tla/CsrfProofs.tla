----------------------------- MODULE CsrfProofs -----------------------------
(***************************************************************************)
(* Why a form is refused, for any number of tabs and any number of lost    *)
(* messages and cleared jars.                                              *)
(***************************************************************************)
EXTENDS Csrf, TLAPS

Away == {"leaving", "sent", "answered"}  \* a request is under way

\* What csrfTokensEqual will compare with the cookie.
Candidate(i) == IF header[i] # NULL THEN header[i] ELSE form[i]

Types ==
  /\ jar \in Token \cup {NULL}
  /\ field \in [Tab -> Token \cup {NULL}]
  /\ header \in [Tab -> Token \cup {NULL}]
  /\ form \in [Tab -> Token \cup {NULL}]
  /\ cookie \in [Tab -> Token \cup {NULL}]
  /\ set \in [Tab -> Token \cup {NULL}]
  /\ pc \in [Tab -> {"blank", "page", "done"} \cup Away]
  /\ method \in [Tab -> {"get", "post"}]
  /\ ok \in [Tab -> BOOLEAN]
  /\ moved \in [Tab -> BOOLEAN]

\* What a form offers is what is in the jar, unless the jar was moved.
FormInv ==
  \A i \in Tab : ~moved[i] =>
    /\ pc[i] = "page" \/ (pc[i] \in Away /\ method[i] = "post") => jar # NULL /\ field[i] = jar
    /\ pc[i] \in Away /\ method[i] = "post" => Candidate(i) = jar
    /\ pc[i] \in {"sent", "answered"} /\ method[i] = "post" => cookie[i] = jar

\* An answer sets the cookie of a request that had none.
AnswerInv ==
  \A i \in Tab :
    /\ set[i] # NULL => pc[i] = "answered" /\ cookie[i] = NULL
    /\ ~ok[i] => pc[i] = "answered" /\ (cookie[i] = NULL \/ moved[i])

Inductive == Types /\ FormInv /\ AnswerInv

-----------------------------------------------------------------------------
(* The steps *)

\* The browser starts with no cookie and no page.
LEMMA InductiveInit == Init => Inductive
BY DEF Init, None, Inductive, Types, FormInv, AnswerInv, Away

\* A link is followed, or a form leaves with what it holds.
LEMMA LeaveStep ==
  ASSUME Inductive, NEW i \in Tab, Load(i) \/ Submit(i) \/ SubmitBoosted(i)
  PROVE  Inductive'
<1> USE NullAssumption DEF Inductive, Types, Away
<1>1. CASE Load(i)
      BY <1>1 DEF Load, Goto, FormInv, AnswerInv, Candidate, answer
<1>2. ASSUME NEW h \in Token \cup {NULL}, NEW f \in Token \cup {NULL}, NEW stale \in BOOLEAN,
             Post(i, h, f, stale),
             (moved[i] /\ stale) \/ (jar # NULL /\ (IF h # NULL THEN h ELSE f) = jar)
      PROVE  Inductive'
  <2>1. Filled(i) \in Token \cup {NULL} /\ (jar # NULL => Filled(i) = jar)
        BY DEF Filled
  <2>2. Types'
        BY <1>2, <2>1 DEF Post, Goto, answer
  <2>3. AnswerInv'
        BY <1>2 DEF Post, Goto, AnswerInv, answer
  <2>4. FormInv'
        BY <1>2, <2>1 DEF Post, Goto, FormInv, Candidate
  <2> QED
      BY <2>2, <2>3, <2>4
<1>3. pc[i] = "page" /\ ~moved[i] => jar # NULL /\ field[i] = jar
      BY DEF FormInv
<1>4. CASE Submit(i)
  <2>1. Filled(i) \in Token \cup {NULL} /\ (jar # NULL => Filled(i) = jar)
        BY DEF Filled
  <2>2. pc[i] = "page"
        BY <1>4 DEF Submit, Post
  <2> QED
      BY <1>2, <1>3, <1>4, <2>1, <2>2 DEF Submit
<1>5. CASE SubmitBoosted(i)
  <2>1. pc[i] = "page"
        BY <1>5 DEF SubmitBoosted, Post
  <2> QED
      BY <1>2, <1>3, <1>5, <2>1 DEF SubmitBoosted
<1> QED
    BY <1>1, <1>4, <1>5

\* The jar's cookie goes with the request.
LEMMA SendStep == ASSUME Inductive, NEW i \in Tab, Send(i) PROVE Inductive'
BY DEF Inductive, Types, FormInv, AnswerInv, Send, Goto, Candidate, Away, answer

\* The server refuses a form only if its token is not the cookie it came with.
LEMMA ProtectStep == ASSUME Inductive, NEW i \in Tab, Protect(i) PROVE Inductive'
<1> USE DEF Inductive, Types, Away
<1>1. Missing(i) => Fresh \in Token
      BY DEF Protect, Fresh
<1>2. Types'
      BY <1>1 DEF Protect, Goto, Valid
<1>3. FormInv'
      BY DEF Protect, Goto, FormInv, Candidate
<1>4. AnswerInv'
  <2> SUFFICES ASSUME NEW j \in Tab
               PROVE  /\ set'[j] # NULL => pc'[j] = "answered" /\ cookie'[j] = NULL
                      /\ ~ok'[j] => /\ pc'[j] = "answered"
                                    /\ cookie'[j] = NULL \/ moved'[j]
      BY DEF AnswerInv
  <2>1. CASE j = i
    <3>1. set'[i] # NULL => cookie[i] = NULL
          BY DEF Protect, Missing, AnswerInv
    <3>2. ~ok'[i] => cookie[i] = NULL \/ moved[i]
          BY DEF Protect, Valid, FormInv, Candidate
    <3> QED
        BY <2>1, <3>1, <3>2 DEF Protect, Goto
  <2>2. CASE j # i
        BY <2>2 DEF Protect, Goto, AnswerInv
  <2> QED
      BY <2>1, <2>2
<1> QED
    BY <1>2, <1>3, <1>4

\* A tab is done with its request.
LEMMA OverTypes ==
  ASSUME Inductive, NEW i \in Tab, NEW what \in {"blank", "page", "done"},
         NEW f \in Token \cup {NULL}, Over(i, what, f),
         jar' \in Token \cup {NULL}, moved' \in [Tab -> BOOLEAN]
  PROVE  Types'
BY DEF Inductive, Types, Over, Goto, Away

\* An answer that sets a cookie moves the jar under everybody else.
LEMMA ArriveStep == ASSUME Inductive, NEW i \in Tab, Arrive(i) PROVE Inductive'
<1> USE DEF Inductive, Types, Away
<1> DEFINE kept == method[i] = "post" /\ ~ok[i]
           f == IF kept THEN field[i] ELSE jar'
           what == IF method[i] = "post" /\ ok[i] THEN "done" ELSE "page"
<1>1. /\ pc[i] = "answered" /\ jar' = (IF set[i] # NULL THEN set[i] ELSE jar)
      /\ Over(i, what, f)
      /\ moved' = [j \in Tab |-> IF j = i /\ ~kept THEN f = NULL
                                 ELSE moved[j] \/ cookie[i] = NULL]
      BY DEF Arrive
<1>2. jar' = jar \/ cookie[i] = NULL
      BY <1>1 DEF AnswerInv
<1>3. jar' \in Token \cup {NULL} /\ moved' \in [Tab -> BOOLEAN]
      BY <1>1
<1>4. Types'
      BY <1>1, <1>3, OverTypes
<1>5. AnswerInv'
      BY <1>1 DEF AnswerInv, Over, Goto
<1>6. ASSUME NEW j \in Tab, ~moved'[j]
      PROVE  /\ pc'[j] = "page" \/ (pc'[j] \in Away /\ method'[j] = "post") =>
                  jar' # NULL /\ field'[j] = jar'
             /\ pc'[j] \in Away /\ method'[j] = "post" => Candidate(j)' = jar'
             /\ pc'[j] \in {"sent", "answered"} /\ method'[j] = "post" =>
                  cookie'[j] = jar'
  <2>1. CASE j # i
    <3>1. ~moved[j] /\ jar' = jar
          BY <1>1, <1>2, <1>6, <2>1
    <3>2. /\ pc'[j] = pc[j] /\ method'[j] = method[j] /\ field'[j] = field[j]
          /\ header'[j] = header[j] /\ form'[j] = form[j] /\ cookie'[j] = cookie[j]
          BY <1>1, <2>1 DEF Over, Goto
    <3> QED
        BY <3>1, <3>2 DEF FormInv, Candidate
  <2>2. CASE j = i /\ kept
    <3>1. ~moved[i] /\ jar' = jar
          BY <1>1, <1>2, <1>6, <2>2
    <3>2. pc'[i] = "page" /\ field'[i] = field[i]
          BY <1>1, <2>2 DEF Over, Goto
    <3> QED
        BY <1>1, <2>2, <3>1, <3>2 DEF FormInv
  <2>3. CASE j = i /\ ~kept
    <3>1. jar' # NULL /\ pc'[i] \in {"page", "done"} /\ field'[i] = jar'
          BY <1>1, <1>6, <2>3 DEF Over, Goto
    <3> QED
        BY <2>3, <3>1
  <2> QED
      BY <2>1, <2>2, <2>3
<1>7. FormInv'
      BY <1>6 DEF FormInv
<1> QED
    BY <1>4, <1>5, <1>7

\* A lost request leaves the form, and the jar, as they were.
LEMMA LoseStep == ASSUME Inductive, NEW i \in Tab, Lose(i) PROVE Inductive'
<1> USE DEF Inductive, Types, Away
<1>1. CASE method[i] = "post"
  <2>1. Over(i, "page", field[i]) /\ UNCHANGED <<jar, moved>> /\ pc[i] \in Away
        BY <1>1 DEF Lose
  <2>2. Types'
        BY <2>1, OverTypes
  <2>3. AnswerInv'
        BY <2>1 DEF Over, Goto, AnswerInv
  <2>4. FormInv'
        BY <1>1, <2>1 DEF Over, Goto, FormInv, Candidate
  <2> QED
      BY <2>2, <2>3, <2>4
<1>2. CASE method[i] # "post"
  <2>1. Over(i, "blank", NULL) /\ UNCHANGED <<jar, moved>>
        BY <1>2 DEF Lose
  <2>2. Types'
        BY <2>1, OverTypes
  <2>3. AnswerInv'
        BY <2>1 DEF Over, Goto, AnswerInv
  <2>4. FormInv'
        BY <2>1 DEF Over, Goto, FormInv, Candidate
  <2> QED
      BY <2>2, <2>3, <2>4
<1> QED
    BY <1>1, <1>2

\* Every step keeps the invariant.
LEMMA InductiveStep == Inductive /\ [Next]_vars => Inductive'
<1> SUFFICES ASSUME Inductive, [Next]_vars PROVE Inductive'
    OBVIOUS
<1>1. CASE UNCHANGED vars
      BY <1>1 DEF vars, request, answer, Inductive, Types, FormInv, AnswerInv, Candidate
<1>2. CASE Clear
      BY <1>2 DEF Clear, Fault, request, answer, Inductive, Types, FormInv, AnswerInv
<1> QED
    BY <1>1, <1>2, LeaveStep, SendStep, ProtectStep, ArriveStep, LoseStep DEF Next

-----------------------------------------------------------------------------
(* The results *)

\* What holds at every point of the browser's life.
THEOREM InductiveInvariant == Spec => []Inductive
BY InductiveInit, InductiveStep, PTL DEF Spec

\* A form is refused only for want of a cookie or because the jar was moved: see
\* RefusedForACause.
THEOREM RefusalsHaveACause == Spec => []RefusedForACause
<1>1. Inductive => RefusedForACause
      BY DEF Inductive, Types, AnswerInv, RefusedForACause
<1> QED
    BY InductiveInvariant, <1>1, PTL
=============================================================================
