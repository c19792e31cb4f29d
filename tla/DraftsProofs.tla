----------------------------- MODULE DraftsProofs -----------------------------
(***************************************************************************)
(* Proofs about Agent and Drafts, for any number of requests, drafts and   *)
(* turns, and whatever the model answers.                                  *)
(*                                                                         *)
(* The agreement of drafts and plans rests on who may still write: of the  *)
(* drafts that no failure hit, one that is ready and has its plan has a    *)
(* request about to mark it adopted, and one that is neither ready nor     *)
(* adopted has no plan and nobody past the check, unless it was superseded *)
(* under a request's hands.  What failures do to one draft leaves the      *)
(* others sound.                                                           *)
(*                                                                         *)
(* How few the drafts are rests on the tool, which a turn runs once at a   *)
(* time on the newest draft: it creates a draft only when each older one   *)
(* that is open was left so by a failure of its own, and it attends to the *)
(* draft it created until a failure hits that.  That the tool is called    *)
(* for an input rests on the types of the run, and these on what is made   *)
(* of a stream.                                                            *)
(*                                                                         *)
(* What the client and the model are told rests on the numbers of calls    *)
(* and results: the results that are in are those of the first calls.      *)
(*                                                                         *)
(* That the calls executed are those meant rests on what is gathered of a  *)
(* stream fragment by fragment, and on the server's keeping to its         *)
(* protocol (WholeAssumption).                                             *)
(***************************************************************************)
EXTENDS Agent, SequenceTheorems, FiniteSetTheorems, WellFoundedInduction, TLAPS

-----------------------------------------------------------------------------
(* Invariant *)

Statuses == {"generating", "ready", "failed", "adopted", "superseded"}
Results  == {None, "refused", "generating", "reused", "ready", "failed"}

RowOf(I)  == [status : Statuses, input : I, late : BOOLEAN]
ToolOf(I) == [pc : {"idle", "conversation", "list", "supersede", "create",
                    "recommend", "ready", "failed", "done"},
              input : I, draft : Nat, result : Results]
Request   == [pc : {"idle", "read", "insert", "restore", "lookup", "mark", "archive"},
              draft : Nat, cut : BOOLEAN]

\* The rows and the tool are of their types, whatever the inputs are.
Recorded == \E I : drafts \in Seq(RowOf(I)) /\ tool \in ToolOf(I)

\* The types, and no reference to a draft that was not created.
Typed ==
    /\ Recorded
    /\ Len(drafts) <= MaxDrafts
    /\ plans \in [Ids -> {"none", "live", "deleted"}]
    /\ \A d \in Ids : d > Len(drafts) => plans[d] = "none"
    /\ req \in [Procs -> Request]
    /\ \A p \in Procs : req[p].pc # "idle" => req[p].draft \in 1..Len(drafts)
    /\ faults \in 0..MaxFaults
    /\ buried \subseteq 1..Len(drafts)
    /\ hurt \subseteq 1..Len(drafts)

\* What the tool holds is its own draft, or one with the input it was asked for.
Announced ==
    /\ tool.pc = "supersede" => tool.draft \in 1..Len(drafts)
    /\ tool.pc \in {"recommend", "ready", "failed"} \/ tool.result \in {"reused", "ready"} =>
          tool.draft \in 1..Len(drafts) /\ drafts[tool.draft].input = tool.input
    /\ tool.pc # "done" => tool.result \notin {"reused", "ready"}

\* The request has found the draft ready.
Past(p, d) == req[p].draft = d /\ req[p].pc \notin {"idle", "read"}

\* A buried plan is out of every request's reach.
Buried ==
    \A d \in buried : /\ plans[d] = "deleted"
                      /\ drafts[d].status = "adopted"
                      /\ \A p \in Procs : ~Past(p, d)

\* A draft is marked adopted after its plan was stored.
Backed ==
    /\ \A d \in 1..Len(drafts) : drafts[d].status = "adopted" => plans[d] # "none"
    /\ \A p \in Procs : req[p].pc = "mark" => plans[req[p].draft] # "none"

\* Nobody will make a plan of this draft, and nobody has.
Unused(d) == plans[d] = "none" /\ \A p \in Procs : ~Past(p, d)

\* A request will still mark the draft, or has done it and will archive.
InHand(d, pcs) == \E p \in Procs : req[p].draft = d /\ req[p].pc \in pcs

\* A draft that no failure hit: its plan has an adopted draft and a closed
\* conversation, or is about to; the tool's own draft is still generating.
Sound(d) ==
    /\ drafts[d].status \in {"generating", "failed"} => Unused(d)
    /\ drafts[d].status = "superseded" => d \in crossed \/ Unused(d)
    /\ drafts[d].status = "ready" /\ plans[d] # "none" => InHand(d, {"mark"})
    /\ plans[d] # "none" /\ conversation = "active" => InHand(d, {"mark", "archive"})
    /\ GeneratedBy(d) => drafts[d].status = "generating"

Faultless == \A d \in 1..Len(drafts) : d \notin hurt => Sound(d)

DraftsInv == Typed /\ Announced /\ Buried /\ Backed /\ Faultless

-----------------------------------------------------------------------------
(* Rows *)

\* Every draft has its place among the plans.
LEMMA RowsAreIds ==
    ASSUME Typed
    PROVE  Len(drafts) \in Nat /\ \A d \in 1..Len(drafts) : d \in Ids
<1>1. Len(drafts) \in Nat
  BY LenProperties DEF Typed, Recorded
<1>2. QED
  BY <1>1, DraftsAssumption DEF Typed, DraftsAssumption, Ids

\* A guarded UPDATE of a status.
LEMMA MarkedRows ==
    ASSUME NEW I, drafts \in Seq(RowOf(I)), NEW d \in 1..Len(drafts), NEW from,
           NEW to \in Statuses, drafts' = Marked(d, from, to)
    PROVE  /\ drafts' \in Seq(RowOf(I)) /\ Len(drafts') = Len(drafts)
           /\ \A x \in 1..Len(drafts) :
                 /\ drafts'[x].input = drafts[x].input /\ drafts'[x].late = drafts[x].late
                 /\ drafts'[x].status = IF x = d /\ drafts[d].status \in from
                                        THEN to ELSE drafts[x].status
<1> DEFINE e == [drafts[d] EXCEPT !.status = to]
<1>1. drafts[d] \in RowOf(I)
  BY LenProperties
<1>2. e \in RowOf(I) /\ e.input = drafts[d].input /\ e.late = drafts[d].late /\ e.status = to
  BY <1>1 DEF RowOf
<1>3. drafts' = IF drafts[d].status \in from THEN [drafts EXCEPT ![d] = e] ELSE drafts
  BY DEF Marked, InState
<1> HIDE DEF e
<1>4. /\ [drafts EXCEPT ![d] = e] \in Seq(RowOf(I))
      /\ Len([drafts EXCEPT ![d] = e]) = Len(drafts)
      /\ \A x \in 1..Len(drafts) :
            [drafts EXCEPT ![d] = e][x] = IF x = d THEN e ELSE drafts[x]
  BY <1>2, ExceptSeq
<1>5. QED
  BY <1>2, <1>3, <1>4

\* Rows of some inputs are rows of more inputs.
LEMMA WiderRows ==
    ASSUME NEW I, drafts \in Seq(RowOf(I)), NEW x
    PROVE  drafts \in Seq(RowOf(I \cup {x}))
<1> DEFINE S == RowOf(I \cup {x})
<1>1. Len(drafts) \in Nat /\ drafts \in [1..Len(drafts) -> RowOf(I)]
  BY LenProperties
<1>2. drafts \in [1..Len(drafts) -> S]
  BY <1>1 DEF RowOf
<1> HIDE DEF S
<1>3. drafts \in Seq(S)
  BY <1>1, <1>2, SeqDef
<1>4. QED
  BY <1>3 DEF S

\* INSERT of a draft.
LEMMA AddedRow ==
    ASSUME NEW I, drafts \in Seq(RowOf(I)), NEW x, NEW l \in BOOLEAN,
           drafts' = Append(drafts, [status |-> "generating", input |-> x, late |-> l])
    PROVE  /\ drafts' \in Seq(RowOf(I \cup {x})) /\ Len(drafts') = Len(drafts) + 1
           /\ \A d \in 1..Len(drafts) : drafts'[d] = drafts[d]
           /\ drafts'[Len(drafts) + 1].status = "generating"
           /\ drafts'[Len(drafts) + 1].input = x
           /\ drafts'[Len(drafts) + 1].late = l
<1> DEFINE e == [status |-> "generating", input |-> x, late |-> l]
           S == RowOf(I \cup {x})
<1>1. e \in S
  BY SMT DEF RowOf, Statuses
<1>2. e.status = "generating" /\ e.input = x /\ e.late = l
  OBVIOUS
<1>3. drafts \in Seq(S)
  BY WiderRows
<1> HIDE DEF e, S
<1>4. drafts' = Append(drafts, e)
  BY DEF e
<1>5. drafts' \in Seq(S) /\ Len(drafts') = Len(drafts) + 1
      /\ \A d \in 1..Len(drafts) : drafts'[d] = drafts[d]
      /\ drafts'[Len(drafts) + 1] = e
  BY <1>1, <1>3, <1>4, AppendProperties
<1>6. QED
  BY <1>2, <1>5 DEF S

-----------------------------------------------------------------------------
(* Requests *)

\* A request goes on to its next call.
GoesOn(p, pc) ==
    /\ req' \in [Procs -> Request]
    /\ \A q \in Procs : /\ req'[q].draft = req[q].draft /\ req'[q].cut = req[q].cut
                        /\ req'[q].pc = IF q = p THEN pc ELSE req[q].pc

\* A request is over.
IsOver(p) ==
    /\ req' \in [Procs -> Request]
    /\ \A q \in Procs : req'[q] = IF q = p THEN NoRequest ELSE req[q]

LEMMA GoesAreGoesOn ==
    ASSUME req \in [Procs -> Request], NEW p \in Procs,
           NEW pc \in {"insert", "restore", "lookup", "mark", "archive"}, Goes(p, pc)
    PROVE  GoesOn(p, pc)
<1> DEFINE r == [req[p] EXCEPT !.pc = pc]
<1>1. r \in Request /\ r.pc = pc /\ r.draft = req[p].draft /\ r.cut = req[p].cut
  BY DEF Request
<1>2. req' = [req EXCEPT ![p] = r]
  BY DEF Goes
<1> HIDE DEF r
<1>3. QED
  BY <1>1, <1>2 DEF GoesOn

LEMMA EndsAreOver ==
    ASSUME req \in [Procs -> Request], NEW p \in Procs, Ends(p)
    PROVE  IsOver(p)
<1>1. NoRequest \in Request
  BY DEF NoRequest, Request
<1>2. QED
  BY <1>1 DEF Ends, IsOver

\* What a call to a store costs.
LEMMA CallCosts ==
    ASSUME DraftsAssumption, faults \in 0..MaxFaults, NEW over, NEW how \in Outcomes(over),
           Pay(how, over)
    PROVE  faults' \in 0..MaxFaults
BY DEF DraftsAssumption, Outcomes, Pay

\* What was hurt stays hurt, and is a draft.
Hurting == hurt \subseteq hurt' /\ hurt' \subseteq 1..Len(drafts)

LEMMA HurtsHurting ==
    ASSUME hurt \subseteq 1..Len(drafts), NEW d \in 1..Len(drafts), NEW undone, Hurts(d, undone)
    PROVE  Hurting /\ (undone => d \in hurt') /\ hurt' \subseteq hurt \cup {d}
BY DEF Hurts, Hurting

\* Rows and tool are left alone, no failure is forgotten, and the conversation
\* is not opened again.
Beside ==
    /\ UNCHANGED <<drafts, tool, crossed, buried>>
    /\ faults' \in 0..MaxFaults /\ Hurting
    /\ conversation' = "active" => conversation = "active"

\* A draft is sound if it was and who has it in hand still has.
LEMMA StaysSound ==
    ASSUME NEW d, Sound(d), UNCHANGED <<drafts, plans, crossed>>,
           GeneratedBy(d)' => GeneratedBy(d),
           \A q \in Procs : Past(q, d)' => Past(q, d),
           conversation' = "active" => conversation = "active",
           InHand(d, {"mark"}) => InHand(d, {"mark"})',
           InHand(d, {"mark", "archive"}) =>
              InHand(d, {"mark", "archive"})' \/ conversation' # "active"
    PROVE  Sound(d)'
BY DEF Sound, Unused

\* A request ends, with the draft marked and the conversation closed if it came
\* so far, or with a failure.
LEMMA EndKeeps ==
    ASSUME DraftsInv, NEW p \in Procs, Beside, IsOver(p), UNCHANGED plans,
           req[p].pc = "mark" => req[p].draft \in hurt',
           req[p].pc = "archive" => req[p].draft \in hurt' \/ conversation' # "active"
    PROVE  DraftsInv'
<1>1. \A q \in Procs : \/ req'[q] = req[q] /\ q # p
                       \/ req'[q].pc = "idle" /\ ~req'[q].cut /\ q = p
  BY DEF IsOver, NoRequest
<1>2. Typed'
  BY <1>1 DEF DraftsInv, Typed, Recorded, Beside, Hurting, IsOver
<1>3. Announced' /\ Backed'
  BY <1>1 DEF DraftsInv, Announced, Backed, Beside
<1>4. \A d : \A q \in Procs : Past(q, d)' => Past(q, d)
  BY <1>1 DEF Past
<1>5. Buried'
  BY <1>4 DEF DraftsInv, Buried, Beside
<1>6. Faultless'
  <2>1. ASSUME NEW d \in 1..Len(drafts), d \notin hurt' PROVE Sound(d)'
    <3>1. Sound(d) /\ (GeneratedBy(d)' => GeneratedBy(d))
      BY <2>1 DEF DraftsInv, Faultless, Beside, Hurting, GeneratedBy
    <3>2. InHand(d, {"mark"}) => InHand(d, {"mark"})'
      BY <1>1, <2>1 DEF InHand
    <3>3. InHand(d, {"mark", "archive"}) =>
             InHand(d, {"mark", "archive"})' \/ conversation' # "active"
      BY <1>1, <2>1 DEF InHand
    <3>4. QED
      BY <1>4, <3>1, <3>2, <3>3, StaysSound DEF Beside
  <2>2. QED
    BY <2>1 DEF Faultless, Beside
<1>7. QED
  BY <1>2, <1>3, <1>5, <1>6 DEF DraftsInv

\* A request goes on, past the check only if the draft is ready, and to its mark
\* only if the plan is there.
LEMMA GoOnKeeps ==
    ASSUME DraftsInv, NEW p \in Procs, Beside, UNCHANGED plans,
           NEW pc \in {"insert", "restore", "lookup", "mark", "archive"}, GoesOn(p, pc),
           req[p].pc # "idle",
           req[p].pc \notin {"mark", "archive"} \/ req[p].draft \in hurt',
           Past(p, req[p].draft) \/ drafts[req[p].draft].status = "ready",
           pc = "mark" => plans[req[p].draft] # "none"
    PROVE  DraftsInv'
<1>1. \A q \in Procs : /\ req'[q].draft = req[q].draft /\ req'[q].cut = req[q].cut
                       /\ req'[q].pc = IF q = p THEN pc ELSE req[q].pc
  BY DEF GoesOn
<1>2. Typed'
  BY <1>1 DEF DraftsInv, Typed, Recorded, Beside, Hurting, GoesOn
<1>3. Announced' /\ Backed'
  BY <1>1 DEF DraftsInv, Announced, Backed, Beside
<1>4. \A d : \A q \in Procs : Past(q, d)' => Past(q, d) \/ drafts[d].status = "ready"
  BY <1>1 DEF Past
<1>5. Buried'
  BY <1>4 DEF DraftsInv, Buried, Beside
<1>6. Faultless'
  <2>1. ASSUME NEW d \in 1..Len(drafts), d \notin hurt' PROVE Sound(d)'
    <3>1. Sound(d) /\ (GeneratedBy(d)' => GeneratedBy(d))
      BY <2>1 DEF DraftsInv, Faultless, Beside, Hurting, GeneratedBy
    <3>2. InHand(d, {"mark"}) => InHand(d, {"mark"})'
      BY <1>1, <2>1 DEF InHand
    <3>3. InHand(d, {"mark", "archive"}) => InHand(d, {"mark", "archive"})'
      BY <1>1, <2>1 DEF InHand
    <3>4. drafts[d].status # "ready" => (Unused(d) => Unused(d)')
      BY <1>4 DEF Unused
    <3>5. QED
      BY <3>1, <3>2, <3>3, <3>4 DEF Sound, Beside
  <2>2. QED
    BY <2>1 DEF Faultless, Beside
<1>7. QED
  BY <1>2, <1>3, <1>5, <1>6 DEF DraftsInv

\* A plan is stored, or brought back, by a request that found its draft ready.
LEMMA StoreKeeps ==
    ASSUME DraftsInv, NEW p \in Procs, Beside, NEW d, d = req[p].draft, Past(p, d),
           plans' = [plans EXCEPT ![d] = "live"],
           GoesOn(p, "mark") \/ (IsOver(p) /\ (d \in hurt' \/ plans[d] # "none")),
           req[p].pc \notin {"mark", "archive"}
    PROVE  DraftsInv'
<1>1. d \in 1..Len(drafts) /\ d \in Ids
  BY RowsAreIds DEF DraftsInv, Typed, Past
<1>2. \A x \in Ids : plans'[x] = IF x = d THEN "live" ELSE plans[x]
  BY <1>1 DEF DraftsInv, Typed
<1>3. \A q \in Procs : \/ /\ req'[q].draft = req[q].draft
                          /\ req'[q].pc = req[q].pc \/ (q = p /\ req'[q].pc = "mark")
                       \/ q = p /\ req'[q].pc = "idle"
  BY DEF GoesOn, IsOver, NoRequest
<1>4. \A x : \A q \in Procs : Past(q, x)' => Past(q, x)
  BY <1>3 DEF Past
<1>5. Typed'
  BY <1>1, <1>2, <1>3 DEF DraftsInv, Typed, Recorded, Beside, Hurting, GoesOn, IsOver, Ids
<1>6. Announced'
  BY DEF DraftsInv, Announced, Beside
<1>7. Backed'
  BY <1>1, <1>2, <1>3 DEF DraftsInv, Typed, Backed, Beside, Ids
<1>8. Buried'
  BY <1>2, <1>4 DEF DraftsInv, Typed, Buried, Beside, Ids
<1>9. Faultless'
  <2>1. ASSUME NEW x \in 1..Len(drafts), x \notin hurt' PROVE Sound(x)'
    <3>1. Sound(x) /\ (GeneratedBy(x)' => GeneratedBy(x)) /\ x \in Ids
      BY <2>1, RowsAreIds DEF DraftsInv, Faultless, Beside, Hurting, GeneratedBy
    <3>2. ASSUME NEW pcs \in {{"mark"}, {"mark", "archive"}}
          PROVE  InHand(x, pcs) => InHand(x, pcs)'
      <4>1. \A q \in Procs : req[q].pc \in pcs => q # p
        OBVIOUS
      <4>2. QED
        BY <1>3, <4>1 DEF InHand
    <3>3. Unused(x) => x # d
      BY DEF Unused
    <3>4. CASE x # d
      <4>1. plans'[x] = plans[x]
        BY <1>2, <3>1, <3>4
      <4>2. Unused(x) => Unused(x)'
        BY <1>4, <4>1 DEF Unused
      <4>3. QED
        BY <3>1, <3>2, <4>1, <4>2 DEF Sound, Beside
    <3>5. CASE x = d
      <4>1. CASE GoesOn(p, "mark")
        <5>1. InHand(x, {"mark"})' /\ InHand(x, {"mark", "archive"})'
          BY <3>5, <4>1 DEF GoesOn, InHand
        <5>2. QED
          BY <3>1, <3>3, <3>5, <5>1 DEF Sound, Beside
      <4>2. CASE plans[x] # "none"
        BY <3>1, <3>2, <3>3, <3>5, <4>2 DEF Sound, Beside
      <4>3. QED
        BY <2>1, <3>5, <4>1, <4>2
    <3>6. QED
      BY <3>4, <3>5
  <2>2. QED
    BY <2>1 DEF Faultless, Beside
<1>10. QED
  BY <1>5, <1>6, <1>7, <1>8, <1>9 DEF DraftsInv

\* A request marks its draft adopted, if it is still ready, and goes on.
LEMMA AdoptedKeeps ==
    ASSUME DraftsInv, NEW p \in Procs, NEW d, d = req[p].draft, req[p].pc = "mark",
           UNCHANGED <<conversation, plans, tool, crossed, buried>>,
           faults' \in 0..MaxFaults, Hurting,
           drafts' = Marked(d, {"ready"}, "adopted"), GoesOn(p, "archive")
    PROVE  DraftsInv'
<1>1. d \in 1..Len(drafts)
  BY DEF DraftsInv, Typed
<1>2. PICK I : drafts \in Seq(RowOf(I)) /\ tool \in ToolOf(I)
  BY DEF DraftsInv, Typed, Recorded
<1>3. /\ drafts' \in Seq(RowOf(I)) /\ Len(drafts') = Len(drafts)
      /\ \A x \in 1..Len(drafts) :
            /\ drafts'[x].input = drafts[x].input
            /\ drafts'[x].status = IF x = d /\ drafts[d].status \in {"ready"}
                                   THEN "adopted" ELSE drafts[x].status
  BY <1>1, <1>2, MarkedRows DEF Statuses
<1>4. \A q \in Procs : /\ req'[q].draft = req[q].draft /\ req'[q].cut = req[q].cut
                       /\ req'[q].pc = IF q = p THEN "archive" ELSE req[q].pc
  BY DEF GoesOn
<1>5. \A x : \A q \in Procs : Past(q, x)' => Past(q, x)
  BY <1>4 DEF Past
<1>6. Recorded'
  BY <1>2, <1>3 DEF Recorded
<1>7. Typed'
  BY <1>3, <1>4, <1>6 DEF DraftsInv, Typed, Hurting, GoesOn
<1>8. Announced'
  BY <1>3 DEF DraftsInv, Announced
<1>9. Backed'
  <2>1. plans[d] # "none"
    BY DEF DraftsInv, Backed
  <2>2. \A x \in 1..Len(drafts)' : drafts'[x].status = "adopted" => plans'[x] # "none"
    BY <1>3, <2>1 DEF DraftsInv, Backed
  <2>3. \A q \in Procs : req'[q].pc = "mark" => plans'[req'[q].draft] # "none"
    BY <1>4 DEF DraftsInv, Backed
  <2>4. QED
    BY <2>2, <2>3 DEF Backed
<1>10. Buried'
  BY <1>3, <1>5 DEF DraftsInv, Typed, Buried
<1>11. Faultless'
  <2>1. ASSUME NEW x \in 1..Len(drafts), x \notin hurt' PROVE Sound(x)'
    <3>1. Sound(x) /\ (GeneratedBy(x)' => GeneratedBy(x))
      BY <2>1 DEF DraftsInv, Faultless, Hurting, GeneratedBy
    <3>2. Unused(x) => Unused(x)'
      BY <1>5 DEF Unused
    <3>3. InHand(x, {"mark", "archive"}) => InHand(x, {"mark", "archive"})'
      BY <1>4 DEF InHand
    <3>4. InHand(x, {"mark"}) => InHand(x, {"mark"})' \/ drafts'[x].status # "ready"
      BY <1>1, <1>3, <1>4, <2>1 DEF InHand
    <3>5. drafts'[x].status = drafts[x].status
            \/ (drafts[x].status = "ready" /\ drafts'[x].status = "adopted")
      BY <1>3
    <3>6. QED
      BY <3>1, <3>2, <3>3, <3>4, <3>5 DEF Sound
  <2>2. QED
    BY <1>3, <2>1 DEF Faultless
<1>12. QED
  BY <1>7, <1>8, <1>9, <1>10, <1>11 DEF DraftsInv

\* The steps of an adoption.
LEMMA AdoptionKeeps ==
    ASSUME DraftsInv, NEW p \in Procs, AdoptStep(p)
    PROVE  DraftsInv'
<1> DEFINE d == req[p].draft
<1> USE DraftsAssumption
<1>0. /\ req \in [Procs -> Request] /\ faults \in 0..MaxFaults
      /\ hurt \subseteq 1..Len(drafts) /\ (req[p].pc # "idle" => d \in 1..Len(drafts))
  BY DEF DraftsInv, Typed
<1>1. CASE ReadDraft(p)
  <2>1. PICK how \in Outcomes(req[p].cut) \ {"lost"} :
          /\ Pay(how, req[p].cut)
          /\ IF how = "done" /\ Adoptable(d) THEN Goes(p, "insert") ELSE Ends(p)
    BY <1>1 DEF ReadDraft
  <2>2. Beside /\ UNCHANGED plans /\ req[p].pc = "read"
    BY <1>0, <1>1, <2>1, CallCosts DEF ReadDraft, Beside, Hurting, RequestFrame, rows, At
  <2>3. CASE Goes(p, "insert") /\ Adoptable(d)
    BY <1>0, <2>2, <2>3, GoesAreGoesOn, GoOnKeeps DEF Adoptable
  <2>4. CASE Ends(p)
    BY <1>0, <2>2, <2>4, EndsAreOver, EndKeeps
  <2>5. QED
    BY <2>1, <2>3, <2>4
<1>2. CASE InsertPlan(p)
  <2>1. PICK how \in Outcomes(req[p].cut) :
          /\ Pay(how, req[p].cut) /\ Hurts(d, how = "lost" /\ ~Linked(d))
          /\ \/ Ends(p) /\ UNCHANGED plans
             \/ Goes(p, "restore") /\ UNCHANGED plans
             \/ /\ plans' = [plans EXCEPT ![d] = "live"] /\ ~Linked(d)
                /\ IF how = "done" THEN Goes(p, "mark") ELSE how # "failed" /\ Ends(p)
    BY <1>2 DEF InsertPlan
  <2>2. Beside /\ req[p].pc = "insert" /\ Past(p, d)
        /\ (how = "lost" /\ ~Linked(d) => d \in hurt')
    <3>1. req[p].pc = "insert"
      BY <1>2 DEF InsertPlan, At
    <3>2. Hurting /\ (how = "lost" /\ ~Linked(d) => d \in hurt')
      BY <1>0, <2>1, <3>1, HurtsHurting
    <3>3. QED
      BY <1>0, <1>2, <2>1, <3>1, <3>2, CallCosts DEF InsertPlan, Beside, RequestFrame, Past
  <2>3. CASE Ends(p) /\ UNCHANGED plans
    BY <1>0, <2>2, <2>3, EndsAreOver, EndKeeps
  <2>4. CASE Goes(p, "restore") /\ UNCHANGED plans
    BY <1>0, <2>2, <2>4, GoesAreGoesOn, GoOnKeeps
  <2>5. CASE plans' = [plans EXCEPT ![d] = "live"] /\ how = "done" /\ Goes(p, "mark")
    BY <1>0, <2>2, <2>5, GoesAreGoesOn, StoreKeeps
  <2>6. CASE plans' = [plans EXCEPT ![d] = "live"] /\ how = "lost" /\ ~Linked(d) /\ Ends(p)
    BY <1>0, <2>2, <2>6, EndsAreOver, StoreKeeps
  <2>7. how \in {"done", "failed", "lost"}
    BY DEF Outcomes
  <2>8. QED
    BY <2>1, <2>3, <2>4, <2>5, <2>6, <2>7
<1>3. CASE RestorePlan(p)
  <2> DEFINE hit == plans[d] = "deleted"
  <2>1. PICK how \in Outcomes(req[p].cut) :
          /\ Pay(how, req[p].cut)
          /\ plans' = IF how # "failed" /\ hit THEN [plans EXCEPT ![d] = "live"] ELSE plans
          /\ IF how # "done" THEN Ends(p)
             ELSE IF hit THEN Goes(p, "mark") ELSE Goes(p, "lookup")
    BY <1>3 DEF RestorePlan
  <2>2. Beside /\ req[p].pc = "restore" /\ Past(p, d)
    BY <1>0, <1>3, <2>1, CallCosts DEF RestorePlan, Beside, Hurting, RequestFrame, At, Past
  <2>3. CASE UNCHANGED plans /\ Ends(p)
    BY <1>0, <2>2, <2>3, EndsAreOver, EndKeeps
  <2>4. CASE UNCHANGED plans /\ Goes(p, "lookup")
    BY <1>0, <2>2, <2>4, GoesAreGoesOn, GoOnKeeps
  <2>5. CASE plans' = [plans EXCEPT ![d] = "live"] /\ hit /\ Goes(p, "mark")
    BY <1>0, <2>2, <2>5, GoesAreGoesOn, StoreKeeps
  <2>6. CASE plans' = [plans EXCEPT ![d] = "live"] /\ hit /\ Ends(p)
    BY <1>0, <2>2, <2>6, EndsAreOver, StoreKeeps
  <2>7. how \in {"done", "failed", "lost"}
    BY DEF Outcomes
  <2>8. QED
    BY <2>1, <2>3, <2>4, <2>5, <2>6, <2>7
<1>4. CASE GetByDraftID(p)
  <2>1. PICK how \in Outcomes(req[p].cut) \ {"lost"} :
          /\ Pay(how, req[p].cut)
          /\ IF how = "done" /\ plans[d] = "live" THEN Goes(p, "mark") ELSE Ends(p)
    BY <1>4 DEF GetByDraftID
  <2>2. Beside /\ UNCHANGED plans /\ req[p].pc = "lookup" /\ Past(p, d)
    BY <1>0, <1>4, <2>1, CallCosts DEF GetByDraftID, Beside, Hurting, RequestFrame, rows, At, Past
  <2>3. CASE Goes(p, "mark") /\ plans[d] = "live"
    BY <1>0, <2>2, <2>3, GoesAreGoesOn, GoOnKeeps
  <2>4. CASE Ends(p)
    BY <1>0, <2>2, <2>4, EndsAreOver, EndKeeps
  <2>5. QED
    BY <2>1, <2>3, <2>4
<1>5. CASE MarkAdopted(p)
  <2>1. PICK how \in Outcomes(req[p].cut) :
          /\ Pay(how, req[p].cut) /\ Hurts(d, how = "failed")
          /\ drafts' = IF how = "failed" THEN drafts ELSE Marked(d, {"ready"}, "adopted")
    BY <1>5 DEF MarkAdopted, MarkAdoptedFrom
  <2>2. /\ UNCHANGED <<conversation, plans, tool, crossed, buried>> /\ req[p].pc = "mark"
        /\ faults' \in 0..MaxFaults
        /\ GoesOn(p, "archive")
    BY <1>0, <1>5, <2>1, CallCosts, GoesAreGoesOn DEF MarkAdopted, RequestFrame, At
  <2>3. Hurting /\ (how = "failed" => d \in hurt')
    BY <1>0, <2>1, <2>2, HurtsHurting
  <2>4. CASE how # "failed"
    BY <2>1, <2>2, <2>3, <2>4, AdoptedKeeps
  <2>5. CASE how = "failed"
    <3>1. Past(p, d) /\ req[p].pc # "idle" /\ Beside /\ UNCHANGED plans
      BY <2>1, <2>2, <2>3, <2>5 DEF Past, Beside
    <3>2. QED
      BY <2>2, <2>3, <2>5, <3>1, GoOnKeeps
  <2>6. QED
    BY <2>4, <2>5
<1>6. CASE ArchiveConversation(p)
  <2>1. PICK how \in Outcomes(req[p].cut) :
          /\ Pay(how, req[p].cut) /\ Hurts(d, how = "failed")
          /\ conversation' = IF how = "failed" THEN conversation ELSE "archived"
    BY <1>6 DEF ArchiveConversation
  <2>2. /\ UNCHANGED <<drafts, plans, tool, crossed, buried>> /\ req[p].pc = "archive"
        /\ faults' \in 0..MaxFaults /\ IsOver(p)
    BY <1>0, <1>6, <2>1, CallCosts, EndsAreOver DEF ArchiveConversation, RequestFrame, At
  <2>3. Hurting /\ (how = "failed" => d \in hurt')
    BY <1>0, <2>1, <2>2, HurtsHurting
  <2>4. Beside /\ (d \in hurt' \/ conversation' # "active")
    BY <2>1, <2>2, <2>3 DEF Beside
  <2>5. QED
    BY <2>2, <2>4, EndKeeps
<1>7. QED
  BY <1>1, <1>2, <1>3, <1>4, <1>5, <1>6 DEF AdoptStep

\* A request for an adoption, and a client that leaves.
LEMMA AdoptKeeps ==
    ASSUME DraftsInv, NEW p \in Procs, Adopt(p)
    PROVE  DraftsInv'
<1>1. PICK d \in 1..Len(drafts) :
        req' = [req EXCEPT ![p] = [pc |-> "read", draft |-> d, cut |-> FALSE]]
  BY DEF Adopt
<1>2. /\ UNCHANGED <<conversation, drafts, plans, tool, crossed, buried, hurt, faults>>
      /\ req[p].pc = "idle"
  BY DEF Adopt, rows, At
<1> DEFINE r == [pc |-> "read", draft |-> d, cut |-> FALSE]
<1>3. r.pc = "read" /\ r.draft = d /\ ~r.cut
  OBVIOUS
<1>4. r \in Request
  <2>1. d \in Nat
    BY RowsAreIds DEF DraftsInv
  <2>2. QED
    BY <2>1 DEF Request
<1> HIDE DEF r
<1>5. req' \in [Procs -> Request] /\ \A q \in Procs : req'[q] = IF q = p THEN r ELSE req[q]
  BY <1>1, <1>4 DEF DraftsInv, Typed, r
<1>6. Typed'
  BY <1>2, <1>3, <1>5 DEF DraftsInv, Typed, Recorded
<1>7. Announced' /\ Backed'
  BY <1>2, <1>3, <1>5 DEF DraftsInv, Announced, Backed
<1>8. \A x : \A q \in Procs : Past(q, x)' => Past(q, x)
  BY <1>3, <1>5 DEF Past
<1>9. Buried'
  BY <1>2, <1>8 DEF DraftsInv, Buried
<1>10. Faultless'
  <2>1. ASSUME NEW x \in 1..Len(drafts), x \notin hurt PROVE Sound(x)'
    <3>1. Sound(x) /\ (GeneratedBy(x)' => GeneratedBy(x))
      BY <1>2, <2>1 DEF DraftsInv, Faultless, GeneratedBy
    <3>2. \A q \in Procs : req[q].pc \in {"mark", "archive"} => req'[q] = req[q]
      BY <1>2, <1>5
    <3>3. InHand(x, {"mark"}) => InHand(x, {"mark"})'
      BY <3>2 DEF InHand
    <3>4. InHand(x, {"mark", "archive"}) => InHand(x, {"mark", "archive"})'
      BY <3>2 DEF InHand
    <3>5. QED
      BY <1>2, <1>8, <3>1, <3>3, <3>4, StaysSound
  <2>2. QED
    BY <1>2, <2>1 DEF Faultless
<1>11. QED
  BY <1>6, <1>7, <1>9, <1>10 DEF DraftsInv

\* What a failure leaves: the rows, and requests as they were or ended, their
\* drafts hurt.
LEMMA FaultKeeps ==
    ASSUME DraftsInv, UNCHANGED <<conversation, drafts, plans, crossed, buried>>,
           faults' \in 0..MaxFaults, Hurting, Recorded', Announced',
           req' \in [Procs -> Request],
           \A q \in Procs : \/ /\ req'[q].pc = "idle"
                               /\ req[q].pc \in {"mark", "archive"} => req[q].draft \in hurt'
                            \/ req'[q].pc = req[q].pc /\ req'[q].draft = req[q].draft,
           \A d \in 1..Len(drafts) : GeneratedBy(d)' => GeneratedBy(d)
    PROVE  DraftsInv'
<1>1. Typed'
  BY DEF DraftsInv, Typed, Hurting
<1>2. Backed'
  BY DEF DraftsInv, Backed
<1>3. \A x : \A q \in Procs : Past(q, x)' => Past(q, x)
  BY DEF Past
<1>4. Buried'
  BY <1>3 DEF DraftsInv, Buried
<1>5. Faultless'
  <2>1. ASSUME NEW x \in 1..Len(drafts), x \notin hurt' PROVE Sound(x)'
    <3>1. Sound(x)
      BY <2>1 DEF DraftsInv, Faultless, Hurting
    <3>2. InHand(x, {"mark"}) => InHand(x, {"mark"})'
      BY <2>1 DEF InHand
    <3>3. InHand(x, {"mark", "archive"}) => InHand(x, {"mark", "archive"})'
      BY <2>1 DEF InHand
    <3>4. QED
      BY <1>3, <3>1, <3>2, <3>3, StaysSound
  <2>2. QED
    BY <2>1 DEF Faultless
<1>6. QED
  BY <1>1, <1>2, <1>4, <1>5 DEF DraftsInv

LEMMA DisconnectKeeps ==
    ASSUME DraftsInv, NEW p \in Procs, Disconnect(p)
    PROVE  DraftsInv'
<1> DEFINE r == [req[p] EXCEPT !.cut = TRUE]
<1>1. req[p] \in Request
  BY DEF DraftsInv, Typed
<1>2. r \in Request /\ r.pc = req[p].pc /\ r.draft = req[p].draft
  BY <1>1 DEF Request
<1>3. req' = [req EXCEPT ![p] = r]
  BY DEF Disconnect
<1> HIDE DEF r
<1>4. /\ req' \in [Procs -> Request]
      /\ \A q \in Procs : req'[q].pc = req[q].pc /\ req'[q].draft = req[q].draft
  BY <1>2, <1>3 DEF DraftsInv, Typed
<1>5. /\ UNCHANGED <<conversation, drafts, plans, crossed, buried, hurt, tool>>
      /\ faults > 0 /\ faults' = faults - 1
  BY DEF Disconnect, RequestFrame, rows
<1>6. faults' \in 0..MaxFaults /\ Hurting
  BY <1>5, DraftsAssumption DEF DraftsAssumption, DraftsInv, Typed, Hurting
<1>7. Recorded' /\ Announced' /\ \A d \in 1..Len(drafts) : GeneratedBy(d)' => GeneratedBy(d)
  BY <1>5 DEF DraftsInv, Typed, Recorded, Announced, GeneratedBy
<1>8. QED
  BY <1>4, <1>5, <1>6, <1>7, FaultKeeps

LEMMA DeletePlanKeeps ==
    ASSUME DraftsInv, NEW d \in 1..Len(drafts), DeletePlan(d)
    PROVE  DraftsInv'
<1>1. d \in Ids /\ Len(drafts) \in Nat
  BY RowsAreIds DEF DraftsInv
<1>2. /\ UNCHANGED <<conversation, drafts, tool, req, faults, crossed, hurt>>
      /\ plans[d] = "live"
      /\ plans' = [plans EXCEPT ![d] = "deleted"]
      /\ \/ buried' = buried
         \/ /\ buried' = buried \cup {d} /\ drafts[d].status = "adopted"
            /\ \A p \in Procs : req[p].pc # "idle" => req[p].draft # d
  BY DEF DeletePlan, Adopting, InState
<1>3. \A x \in Ids : plans'[x] = IF x = d THEN "deleted" ELSE plans[x]
  BY <1>1, <1>2 DEF DraftsInv, Typed
<1>4. Typed'
  BY <1>1, <1>2, <1>3 DEF DraftsInv, Typed, Recorded
<1>5. Announced'
  BY <1>2 DEF DraftsInv, Announced
<1>6. \A x \in 1..Len(drafts) : x \in Ids
  BY RowsAreIds DEF DraftsInv
<1>7. Backed'
  BY <1>2, <1>3, <1>6 DEF DraftsInv, Typed, Backed
<1>8. Buried'
  <2>1. \A x \in buried : /\ x \in Ids /\ plans'[x] = "deleted"
                          /\ drafts'[x].status = "adopted"
                          /\ \A p \in Procs : ~(req'[p].draft = x
                                                /\ req'[p].pc \notin {"idle", "read"})
    BY <1>2, <1>3, <1>6 DEF DraftsInv, Typed, Buried, Past
  <2>2. plans'[d] = "deleted"
    BY <1>1, <1>3
  <2>3. buried' # buried => /\ buried' = buried \cup {d}
                            /\ drafts'[d].status = "adopted"
                            /\ \A p \in Procs : ~(req'[p].draft = d
                                                  /\ req'[p].pc \notin {"idle", "read"})
    BY <1>2
  <2>4. QED
    BY <2>1, <2>2, <2>3 DEF Buried, Past
<1>9. Faultless'
  <2>1. ASSUME NEW x \in 1..Len(drafts), x \notin hurt PROVE Sound(x)'
    <3>1. Sound(x) /\ (GeneratedBy(x)' => GeneratedBy(x))
      BY <1>2, <2>1 DEF DraftsInv, Faultless, GeneratedBy
    <3>2. (plans'[x] = "none") = (plans[x] = "none")
      BY <1>2, <1>3, <1>6
    <3>3. Unused(x) => Unused(x)'
      BY <1>2, <3>2 DEF Unused, Past
    <3>4. InHand(x, {"mark"}) => InHand(x, {"mark"})'
      BY <1>2 DEF InHand
    <3>5. InHand(x, {"mark", "archive"}) => InHand(x, {"mark", "archive"})'
      BY <1>2 DEF InHand
    <3>6. QED
      BY <1>2, <3>1, <3>2, <3>3, <3>4, <3>5 DEF Sound
  <2>2. QED
    BY <1>2, <2>1 DEF Faultless
<1>10. QED
  BY <1>4, <1>5, <1>7, <1>8, <1>9 DEF DraftsInv

\* The user archives the conversation or deletes it.
LEMMA SetStatusKeeps ==
    ASSUME DraftsInv, NEW s \in {"archived", "deleted"}, SetStatus(s)
    PROVE  DraftsInv'
<1>1. UNCHANGED <<drafts, plans, tool, req, faults, crossed, buried, hurt>> /\ conversation' = s
  BY DEF SetStatus
<1>2. Typed' /\ Announced' /\ Buried' /\ Backed'
  BY <1>1 DEF DraftsInv, Typed, Recorded, Announced, Buried, Backed, Past
<1>3. Faultless'
  <2>1. ASSUME NEW x \in 1..Len(drafts), x \notin hurt PROVE Sound(x)'
    <3>1. Sound(x)
      BY <2>1 DEF DraftsInv, Faultless
    <3>2. InHand(x, {"mark"}) => InHand(x, {"mark"})'
      BY <1>1 DEF InHand
    <3>3. QED
      BY <1>1, <3>1, <3>2, StaysSound DEF Past, GeneratedBy
  <2>2. QED
    BY <1>1, <2>1 DEF Faultless
<1>4. QED
  BY <1>2, <1>3 DEF DraftsInv

\* Whatever a request does.
LEMMA RequestKeeps ==
    ASSUME DraftsInv, RequestStep
    PROVE  DraftsInv'
BY AdoptKeeps, AdoptionKeeps, DisconnectKeeps, DeletePlanKeeps, SetStatusKeeps
   DEF RequestStep, Archive, DeleteConversation

-----------------------------------------------------------------------------
(* The tool and the agent *)

\* The tool forgets everything, or is called.
LEMMA NewTool ==
    ASSUME Recorded, UNCHANGED drafts, NEW x,
           tool' = [NoTool EXCEPT !.pc = "conversation", !.input = x] \/ tool' = NoTool
    PROVE  /\ Recorded'
           /\ tool'.pc \in {"idle", "conversation"} /\ tool'.result = None
<1>1. PICK I : drafts \in Seq(RowOf(I))
  BY DEF Recorded
<1>2. CASE tool' = NoTool
  <2>1. drafts \in Seq(RowOf(I \cup {None}))
    BY <1>1, WiderRows
  <2>2. /\ NoTool \in ToolOf(I \cup {None})
        /\ NoTool.pc = "idle" /\ NoTool.result = None
    BY DEF NoTool, ToolOf, Results
  <2>3. QED
    BY <1>2, <2>1, <2>2 DEF Recorded
<1>3. CASE tool' = [NoTool EXCEPT !.pc = "conversation", !.input = x]
  <2>1. drafts \in Seq(RowOf(I \cup {x}))
    BY <1>1, WiderRows
  <2> DEFINE n == [NoTool EXCEPT !.pc = "conversation", !.input = x]
  <2>2. NoTool \in ToolOf({None}) /\ NoTool.result = None
    BY DEF NoTool, ToolOf, Results
  <2>3. n \in ToolOf(I \cup {x}) /\ n.pc = "conversation" /\ n.result = None
    BY <2>2 DEF ToolOf
  <2> HIDE DEF n
  <2>4. tool' = n
    BY <1>3 DEF n
  <2>5. QED
    BY <2>1, <2>3, <2>4 DEF Recorded
<1>4. QED
  BY <1>2, <1>3

\* A tool that is idle or starts promises nothing.
LEMMA NewToolAnnounces ==
    ASSUME tool'.pc \in {"idle", "conversation"}, tool'.result = None
    PROVE  Announced'
BY DraftsAssumption DEF Announced, DraftsAssumption

\* The tool goes on, or ends with a result.
ToolMoves(I, pc, d, result) ==
    /\ tool' \in ToolOf(I)
    /\ tool'.pc = pc /\ tool'.draft = d /\ tool'.result = result
    /\ tool'.input = tool.input

LEMMA ToolGoesMoves ==
    ASSUME NEW I, tool \in ToolOf(I),
           NEW pc \in {"list", "supersede", "create", "ready", "failed"}, ToolGoes(pc)
    PROVE  ToolMoves(I, pc, tool.draft, tool.result)
BY DEF ToolMoves, ToolGoes, ToolOf

LEMMA ToolEndsMoves ==
    ASSUME NEW I, tool \in ToolOf(I), NEW r \in Results, ToolEnds(r)
    PROVE  ToolMoves(I, "done", tool.draft, r)
BY DEF ToolMoves, ToolEnds, ToolOf

\* The tool is not brought back to a draft.
NoNewDraft == \A d \in 1..Len(drafts) : GeneratedBy(d)' => GeneratedBy(d)

\* The rows stay.
LEMMA QuietKeeps ==
    ASSUME DraftsInv, UNCHANGED <<conversation, drafts, plans, req, crossed, buried>>,
           faults' \in 0..MaxFaults, Hurting, NoNewDraft,
           Recorded', Announced'
    PROVE  DraftsInv'
<1>1. Typed'
  BY DEF DraftsInv, Typed, Hurting
<1>2. Buried' /\ Backed'
  BY DEF DraftsInv, Buried, Backed, Past
<1>3. Faultless'
  <2>1. ASSUME NEW x \in 1..Len(drafts), x \notin hurt' PROVE Sound(x)'
    <3>1. Sound(x) /\ (GeneratedBy(x)' => GeneratedBy(x))
      BY <2>1 DEF DraftsInv, Faultless, Hurting, NoNewDraft
    <3>2. \A pcs : InHand(x, pcs)' = InHand(x, pcs)
      BY DEF InHand
    <3>3. QED
      BY <3>1, <3>2, StaysSound DEF Past
  <2>2. QED
    BY <2>1 DEF Faultless
<1>4. QED
  BY <1>1, <1>2, <1>3 DEF DraftsInv

\* The steps of the tool that write no row.
LEMMA ReadingKeeps ==
    ASSUME DraftsInv, CheckConversation \/ ListDrafts \/ RecommendPlan
    PROVE  DraftsInv'
<1> USE DraftsAssumption
<1>1. PICK I : drafts \in Seq(RowOf(I)) /\ tool \in ToolOf(I)
  BY DEF DraftsInv, Typed, Recorded
<1>2. faults \in 0..MaxFaults /\ Len(drafts) \in Nat /\ hurt \subseteq 1..Len(drafts)
  BY RowsAreIds DEF DraftsInv, Typed
<1>3. CASE CheckConversation
  <2>1. PICK how \in Outcomes(expired) \ {"lost"} :
          Pay(how, expired) /\ (ToolGoes("list") \/ ToolEnds("refused"))
    BY <1>3 DEF CheckConversation
  <2>2. /\ UNCHANGED <<conversation, drafts, plans, req, crossed, buried, hurt>>
        /\ tool.pc = "conversation" /\ faults' \in 0..MaxFaults
    BY <1>2, <1>3, <2>1, CallCosts DEF CheckConversation, ToolFrame, ToolAt
  <2>3. \/ ToolMoves(I, "list", tool.draft, tool.result)
        \/ ToolMoves(I, "done", tool.draft, "refused")
    BY <1>1, <2>1, ToolGoesMoves, ToolEndsMoves DEF Results
  <2>4. Recorded' /\ Announced' /\ NoNewDraft
    BY <1>1, <2>2, <2>3 DEF DraftsInv, Announced, Recorded, ToolMoves, NoNewDraft, GeneratedBy
  <2>5. QED
    BY <1>2, <2>2, <2>4, QuietKeeps DEF Hurting
<1>4. CASE RecommendPlan
  <2>1. /\ UNCHANGED <<conversation, drafts, plans, req, crossed, buried, hurt, faults>>
        /\ tool.pc = "recommend" /\ (ToolGoes("ready") \/ ToolGoes("failed"))
    BY <1>4 DEF RecommendPlan, ToolFrame, ToolAt
  <2>2. \E pc \in {"ready", "failed"} : ToolMoves(I, pc, tool.draft, tool.result)
    BY <1>1, <2>1, ToolGoesMoves
  <2>3. Recorded' /\ Announced' /\ NoNewDraft
    BY <1>1, <2>1, <2>2 DEF DraftsInv, Announced, Recorded, ToolMoves, NoNewDraft, GeneratedBy
  <2>4. QED
    BY <1>2, <2>1, <2>3, QuietKeeps DEF Hurting
<1>5. CASE ListDrafts
  <2> DEFINE n == Len(drafts)
  <2>1. PICK how \in Outcomes(expired) \ {"lost"} :
          /\ Pay(how, expired)
          /\ LET found  == how = "done" /\ n > 0
                 status == IF found THEN drafts[n].status ELSE None
             IN \/ /\ status = "generating"
                   /\ ToolEnds("generating")
                \/ /\ status = "ready" /\ Reusable(n)
                   /\ tool' = [tool EXCEPT !.pc = "done", !.result = "reused", !.draft = n]
                \/ /\ status = "ready" /\ ~Reusable(n)
                   /\ tool' = [tool EXCEPT !.pc = "supersede", !.draft = n]
                \/ /\ status \notin {"generating", "ready"}
                   /\ ToolGoes("create")
    BY <1>5 DEF ListDrafts
  <2>2. /\ UNCHANGED <<conversation, drafts, plans, req, crossed, buried, hurt>>
        /\ tool.pc = "list" /\ faults' \in 0..MaxFaults
    BY <1>2, <1>5, <2>1, CallCosts DEF ListDrafts, ToolFrame, ToolAt
  <2>3. \/ ToolEnds("generating") \/ ToolGoes("create")
        \/ /\ n > 0 /\ drafts[n].input = tool.input
           /\ tool' = [tool EXCEPT !.pc = "done", !.result = "reused", !.draft = n]
        \/ n > 0 /\ tool' = [tool EXCEPT !.pc = "supersede", !.draft = n]
    BY <2>1 DEF Reusable, DraftsAssumption
  <2>4. \/ ToolMoves(I, "done", tool.draft, "generating")
        \/ ToolMoves(I, "create", tool.draft, tool.result)
        \/ n > 0 /\ drafts[n].input = tool.input /\ ToolMoves(I, "done", n, "reused")
        \/ n > 0 /\ ToolMoves(I, "supersede", n, tool.result)
    <3>1. ASSUME tool' = [tool EXCEPT !.pc = "done", !.result = "reused", !.draft = n]
          PROVE  ToolMoves(I, "done", n, "reused")
      BY <1>1, <1>2, <3>1 DEF ToolMoves, ToolOf, Results
    <3>2. ASSUME tool' = [tool EXCEPT !.pc = "supersede", !.draft = n]
          PROVE  ToolMoves(I, "supersede", n, tool.result)
      BY <1>1, <1>2, <3>2 DEF ToolMoves, ToolOf
    <3>3. QED
      BY <1>1, <2>3, <3>1, <3>2, ToolGoesMoves, ToolEndsMoves DEF Results
  <2>5. Recorded' /\ Announced' /\ NoNewDraft
    BY <1>1, <1>2, <2>2, <2>4
       DEF DraftsInv, Announced, Recorded, ToolMoves, NoNewDraft, GeneratedBy
  <2>6. QED
    BY <1>2, <2>2, <2>5, QuietKeeps DEF Hurting
<1>6. QED
  BY <1>3, <1>4, <1>5

\* The tool supersedes the draft it will not reuse.
LEMMA SupersedeKeeps ==
    ASSUME DraftsInv, Supersede
    PROVE  DraftsInv'
<1> DEFINE d == tool.draft
<1>1. PICK I : drafts \in Seq(RowOf(I)) /\ tool \in ToolOf(I)
  BY DEF DraftsInv, Typed, Recorded
<1>2. PICK how \in Outcomes(expired) :
        /\ Pay(how, expired)
        /\ IF how = "failed"
           THEN UNCHANGED <<drafts, crossed>>
           ELSE /\ drafts' = Marked(d, {"ready"}, "superseded")
                /\ crossed' = IF InState(d, {"ready"}) /\ Adopting(d) # {}
                              THEN crossed \cup {d} ELSE crossed
  BY DEF Supersede, MarkSupersededFrom
<1>3. /\ UNCHANGED <<conversation, plans, req, buried, hurt>> /\ ToolGoes("create")
      /\ tool.pc = "supersede" /\ d \in 1..Len(drafts)
  BY DEF Supersede, ToolFrame, ToolAt, DraftsInv, Announced
<1>4. faults' \in 0..MaxFaults /\ Hurting
  BY <1>2, <1>3, CallCosts, DraftsAssumption DEF DraftsInv, Typed, Hurting
<1>5. ToolMoves(I, "create", d, tool.result)
  BY <1>1, <1>3, ToolGoesMoves
<1>6. CASE how = "failed"
  <2>1. UNCHANGED <<drafts, crossed>>
    BY <1>2, <1>6
  <2>2. Recorded' /\ Announced' /\ NoNewDraft
    BY <1>1, <1>3, <1>5, <2>1
       DEF DraftsInv, Announced, Recorded, ToolMoves, NoNewDraft, GeneratedBy
  <2>3. QED
    BY <1>3, <1>4, <2>1, <2>2, QuietKeeps
<1>7. CASE how # "failed"
  <2>1. /\ drafts' \in Seq(RowOf(I)) /\ Len(drafts') = Len(drafts)
        /\ \A x \in 1..Len(drafts) :
              /\ drafts'[x].input = drafts[x].input
              /\ drafts'[x].status = IF x = d /\ drafts[d].status \in {"ready"}
                                     THEN "superseded" ELSE drafts[x].status
    BY <1>1, <1>2, <1>3, <1>7, MarkedRows DEF Statuses
  <2>2. /\ crossed \subseteq crossed'
        /\ drafts[d].status = "ready" =>
              d \in crossed' \/ \A p \in Procs : req[p].pc # "idle" => req[p].draft # d
    BY <1>2, <1>7 DEF InState, Adopting
  <2>3. Recorded'
    BY <1>1, <1>5, <2>1 DEF Recorded, ToolMoves
  <2>4. Typed'
    BY <1>3, <1>4, <2>1, <2>3 DEF DraftsInv, Typed, Hurting
  <2>5. Announced'
    BY <1>3, <1>5, <2>1 DEF DraftsInv, Announced, ToolMoves
  <2>6. Backed'
    BY <1>3, <2>1 DEF DraftsInv, Backed
  <2>7. Buried'
    BY <1>3, <2>1 DEF DraftsInv, Typed, Buried, Past
  <2>8. Faultless'
    <3>1. ASSUME NEW x \in 1..Len(drafts), x \notin hurt PROVE Sound(x)'
      <4>1. Sound(x) /\ ~GeneratedBy(x)'
        BY <1>5, <3>1 DEF DraftsInv, Faultless, ToolMoves, GeneratedBy
      <4>2. Unused(x)' = Unused(x) /\ \A pcs : InHand(x, pcs)' = InHand(x, pcs)
        BY <1>3 DEF Unused, Past, InHand
      <4>3. CASE x = d /\ drafts[d].status = "ready"
        <5>1. drafts'[x].status = "superseded"
          BY <2>1, <4>3
        <5>2. x \in crossed' \/ Unused(x)
          <6>1. ASSUME x \notin crossed' PROVE Unused(x)
            <7>1. \A p \in Procs : req[p].pc # "idle" => req[p].draft # x
              BY <2>2, <4>3, <6>1
            <7>2. ~InHand(x, {"mark"})
              BY <7>1 DEF InHand
            <7>3. QED
              BY <4>1, <4>3, <7>1, <7>2 DEF Sound, Unused, Past
          <6>2. QED
            BY <6>1
        <5>3. QED
          BY <1>3, <4>1, <4>2, <5>1, <5>2 DEF Sound
      <4>4. CASE ~(x = d /\ drafts[d].status = "ready")
        <5>1. drafts'[x].status = drafts[x].status
          BY <2>1, <4>4
        <5>2. QED
          BY <1>3, <2>2, <4>1, <4>2, <5>1 DEF Sound
      <4>5. QED
        BY <4>3, <4>4
    <3>2. QED
      BY <1>3, <2>1, <3>1 DEF Faultless
  <2>9. QED
    BY <2>4, <2>5, <2>6, <2>7, <2>8 DEF DraftsInv
<1>8. QED
  BY <1>6, <1>7

\* The tool creates its draft.
LEMMA CreateKeeps ==
    ASSUME DraftsInv, CreateDraft
    PROVE  DraftsInv'
<1> USE DraftsAssumption
<1> DEFINE n == Len(drafts) + 1
<1>1. PICK I : drafts \in Seq(RowOf(I)) /\ tool \in ToolOf(I)
  BY DEF DraftsInv, Typed, Recorded
<1>2. PICK how \in Outcomes(expired) :
        /\ Pay(how, expired) /\ Hurts(n, how = "lost")
        /\ \/ ToolEnds("failed") /\ UNCHANGED drafts /\ how = "failed"
           \/ /\ drafts' = Append(drafts, [status |-> "generating", input |-> tool.input,
                                           late |-> conversation # "active"])
              /\ IF how = "lost" THEN ToolEnds("failed")
                 ELSE tool' = [tool EXCEPT !.pc = "recommend", !.draft = n]
  BY DEF CreateDraft
<1>3. /\ UNCHANGED <<conversation, plans, req, buried, crossed>>
      /\ tool.pc = "create" /\ Len(drafts) < MaxDrafts
  BY DEF CreateDraft, ToolFrame, ToolAt
<1>4. faults' \in 0..MaxFaults
  BY <1>2, CallCosts DEF DraftsInv, Typed
<1>5. Len(drafts) \in Nat /\ n \in Ids
  BY <1>3, RowsAreIds DEF DraftsInv, Ids, DraftsAssumption
<1>6. CASE ToolEnds("failed") /\ UNCHANGED drafts /\ how = "failed"
  <2>1. ToolMoves(I, "done", tool.draft, "failed")
    BY <1>1, <1>6, ToolEndsMoves DEF Results
  <2>2. Recorded' /\ Announced' /\ NoNewDraft
    BY <1>1, <1>6, <2>1 DEF Announced, Recorded, ToolMoves, NoNewDraft, GeneratedBy
  <2>3. Hurting
    BY <1>2, <1>6 DEF DraftsInv, Typed, Hurts, Hurting
  <2>4. QED
    BY <1>3, <1>4, <1>6, <2>2, <2>3, QuietKeeps
<1>7. CASE drafts' = Append(drafts, [status |-> "generating", input |-> tool.input,
                                     late |-> conversation # "active"])
  <2>1. /\ drafts' \in Seq(RowOf(I \cup {tool.input})) /\ Len(drafts') = n
        /\ \A d \in 1..Len(drafts) : drafts'[d] = drafts[d]
        /\ drafts'[n].status = "generating" /\ drafts'[n].input = tool.input
    <3>1. (conversation # "active") \in BOOLEAN
      OBVIOUS
    <3>2. QED
      BY <1>1, <1>7, <3>1, AddedRow
  <2>2. tool' \in ToolOf(I \cup {tool.input}) /\ tool'.input = tool.input
        /\ \/ tool'.pc = "done" /\ tool'.result = "failed"
           \/ tool'.pc = "recommend" /\ tool'.draft = n /\ tool'.result = tool.result
    <3>1. ASSUME ToolEnds("failed")
          PROVE  /\ tool' \in ToolOf(I \cup {tool.input}) /\ tool'.input = tool.input
                 /\ tool'.pc = "done" /\ tool'.result = "failed"
      BY <1>1, <3>1 DEF ToolEnds, ToolOf, Results
    <3>2. ASSUME tool' = [tool EXCEPT !.pc = "recommend", !.draft = n]
          PROVE  /\ tool' \in ToolOf(I \cup {tool.input}) /\ tool'.input = tool.input
                 /\ tool'.pc = "recommend" /\ tool'.draft = n /\ tool'.result = tool.result
      <4> DEFINE m == [tool EXCEPT !.pc = "recommend"]
      <4>1. /\ m \in ToolOf(I \cup {tool.input}) /\ m.input = tool.input
            /\ m.pc = "recommend" /\ m.result = tool.result
        BY <1>1 DEF ToolOf
      <4>2. tool' = [m EXCEPT !.draft = n] /\ n \in Nat
        BY <1>5, <3>2
      <4> HIDE DEF m, n
      <4>3. QED
        BY <4>1, <4>2 DEF ToolOf
    <3>3. tool' = [tool EXCEPT !.pc = "recommend", !.draft = n] \/ ToolEnds("failed")
      BY <1>2, Zenon
    <3>4. QED
      BY <3>1, <3>2, <3>3
  <2>3. Recorded'
    BY <2>1, <2>2 DEF Recorded
  <2>4. Typed'
    <3>0. hurt \subseteq hurt' /\ hurt' \subseteq 1..n
      BY <1>2, <1>5 DEF DraftsInv, Typed, Hurts
    <3>1. n <= MaxDrafts /\ \A d \in 1..Len(drafts) : d \in 1..n
      BY <1>3, <1>5 DEF DraftsAssumption
    <3>2. \A d \in Ids : d > n => d > Len(drafts)
      BY <1>5 DEF Ids
    <3>3. QED
      BY <1>3, <1>4, <2>1, <2>3, <3>0, <3>1, <3>2 DEF DraftsInv, Typed
  <2>5. Announced'
    BY <1>3, <1>5, <2>1, <2>2 DEF DraftsInv, Announced
  <2>6. plans[n] = "none" /\ \A p \in Procs : req[p].pc # "idle" => req[p].draft # n
    BY <1>5 DEF DraftsInv, Typed
  <2>7. Backed'
    BY <1>3, <1>5, <2>1 DEF DraftsInv, Backed
  <2>8. Buried'
    BY <1>3, <1>5, <2>1 DEF DraftsInv, Typed, Buried, Past
  <2>9. Faultless'
    <3>1. ASSUME NEW x \in 1..Len(drafts), x \notin hurt PROVE Sound(x)'
      <4>1. Sound(x) /\ ~GeneratedBy(x)' /\ drafts'[x] = drafts[x]
        BY <1>5, <2>1, <2>2, <3>1 DEF DraftsInv, Faultless, GeneratedBy
      <4>2. Unused(x)' = Unused(x) /\ \A pcs : InHand(x, pcs)' = InHand(x, pcs)
        BY <1>3 DEF Unused, Past, InHand
      <4>3. QED
        BY <1>3, <4>1, <4>2 DEF Sound
    <3>2. ASSUME NEW x, x = n PROVE Sound(x)'
      <4>1. drafts'[x].status = "generating" /\ plans'[x] = "none"
        BY <1>3, <2>1, <2>6, <3>2
      <4>2. Unused(x)'
        BY <1>3, <2>6, <3>2, <4>1 DEF Unused, Past
      <4>3. QED
        BY <4>1, <4>2 DEF Sound
    <3>3. \A x \in 1..n : x = n \/ x \in 1..Len(drafts)
      BY <1>5
    <3>4. hurt \subseteq hurt'
      BY <1>2 DEF Hurts
    <3>5. QED
      BY <2>1, <3>1, <3>2, <3>3, <3>4 DEF Faultless
  <2>10. QED
    BY <2>4, <2>5, <2>7, <2>8, <2>9 DEF DraftsInv
<1>8. QED
  BY <1>2, <1>6, <1>7

\* The tool marks its own draft, that nobody has used unless a failure hit it.
LEMMA OwnDraftKeeps ==
    ASSUME DraftsInv, NEW from, NEW to \in {"ready", "failed"},
           NEW how \in Outcomes(expired), Pay(how, expired),
           tool.pc \in {"ready", "failed"},
           "adopted" \notin from, Hurting,
           drafts' = IF how = "failed" THEN drafts ELSE Marked(tool.draft, from, to),
           UNCHANGED <<conversation, plans, req, buried, crossed>>,
           \/ ToolEnds("failed")
           \/ ToolGoes("failed") /\ (drafts' = drafts \/ tool.draft \in hurt')
           \/ ToolEnds("ready") /\ to = "ready"
    PROVE  DraftsInv'
<1> DEFINE d == tool.draft
<1>1. PICK I : drafts \in Seq(RowOf(I)) /\ tool \in ToolOf(I)
  BY DEF DraftsInv, Typed, Recorded
<1>2. d \in 1..Len(drafts) /\ drafts[d].input = tool.input
  BY DEF DraftsInv, Announced
<1>3. /\ drafts' \in Seq(RowOf(I)) /\ Len(drafts') = Len(drafts)
      /\ \A x \in 1..Len(drafts) :
            /\ drafts'[x].input = drafts[x].input
            /\ drafts'[x].status = IF x = d /\ drafts[d].status \in from /\ how # "failed"
                                   THEN to ELSE drafts[x].status
  <2>1. CASE how = "failed"
    BY <1>1, <2>1
  <2>2. CASE how # "failed"
    BY <1>1, <1>2, <2>2, MarkedRows DEF Statuses
  <2>3. QED
    BY <2>1, <2>2
<1>4. faults' \in 0..MaxFaults
  BY CallCosts, DraftsAssumption DEF DraftsInv, Typed
<1>5. \/ ToolMoves(I, "done", d, "failed")
      \/ ToolMoves(I, "failed", d, tool.result) /\ (drafts' = drafts \/ d \in hurt')
      \/ ToolMoves(I, "done", d, "ready")
  BY <1>1, ToolGoesMoves, ToolEndsMoves DEF Results
<1>6. Recorded'
  BY <1>1, <1>3, <1>5 DEF Recorded, ToolMoves
<1>7. Typed'
  BY <1>3, <1>4, <1>6 DEF DraftsInv, Typed, Hurting
<1>8. Announced'
  BY <1>2, <1>3, <1>5 DEF DraftsInv, Announced, ToolMoves
<1>9. Backed'
  BY <1>3 DEF DraftsInv, Backed
<1>10. Buried'
  BY <1>3 DEF DraftsInv, Typed, Buried, Past
<1>11. Faultless'
  <2>1. ASSUME NEW x \in 1..Len(drafts), x \notin hurt' PROVE Sound(x)'
    <3>1. Sound(x)
      BY <2>1 DEF DraftsInv, Faultless, Hurting
    <3>2. Unused(x)' = Unused(x) /\ \A pcs : InHand(x, pcs)' = InHand(x, pcs)
      BY DEF Unused, Past, InHand
    <3>3. CASE x = d
      <4>1. drafts[x].status = "generating" /\ Unused(x)
        BY <3>1, <3>3 DEF Sound, GeneratedBy
      <4>2. drafts'[x].status \in {"generating", "ready", "failed"}
        BY <1>3, <3>3, <4>1
      <4>3. GeneratedBy(x)' => drafts'[x].status = "generating"
        BY <1>5, <2>1, <3>3, <4>1 DEF ToolMoves, GeneratedBy
      <4>4. QED
        BY <3>2, <4>1, <4>2, <4>3 DEF Sound, Unused
    <3>4. CASE x # d
      <4>1. drafts'[x].status = drafts[x].status /\ ~GeneratedBy(x)'
        BY <1>3, <1>5, <3>4 DEF ToolMoves, GeneratedBy
      <4>2. QED
        BY <3>1, <3>2, <4>1 DEF Sound
    <3>5. QED
      BY <3>3, <3>4
  <2>2. QED
    BY <1>3, <2>1 DEF Faultless
<1>12. QED
  BY <1>7, <1>8, <1>9, <1>10, <1>11 DEF DraftsInv

\* The steps of the tool.
LEMMA GenerationKeeps ==
    ASSUME DraftsInv, GenerateStep
    PROVE  DraftsInv'
<1> DEFINE d == tool.draft
<1>1. CASE MarkReady
  <2>1. PICK how \in Outcomes(expired) :
          /\ Pay(how, expired) /\ Hurts(d, how = "lost")
          /\ drafts' = IF how = "failed" THEN drafts ELSE Marked(d, {"generating"}, "ready")
          /\ IF how = "done" /\ InState(d, {"generating"})
             THEN ToolEnds("ready") ELSE ToolGoes("failed")
    BY <1>1 DEF MarkReady, MarkReadyFrom
  <2>2. /\ UNCHANGED <<conversation, plans, req, buried, crossed>>
        /\ tool.pc \in {"ready", "failed"} /\ "adopted" \notin {"generating"}
    BY <1>1 DEF MarkReady, ToolFrame, ToolAt
  <2>3. Hurting /\ (how = "lost" => d \in hurt')
    BY <2>1, <2>2, HurtsHurting DEF DraftsInv, Typed, Announced
  <2>4. how \in {"done", "failed", "lost"}
    BY DEF Outcomes
  <2>5. \/ ToolEnds("ready")
        \/ ToolGoes("failed") /\ (drafts' = drafts \/ d \in hurt')
    BY <2>1, <2>3, <2>4 DEF Marked
  <2>6. QED
    BY <2>1, <2>2, <2>3, <2>5, OwnDraftKeeps
<1>2. CASE MarkFailed
  <2>1. PICK how \in Outcomes(expired) :
          /\ Pay(how, expired) /\ Hurts(d, how = "failed")
          /\ drafts' = IF how = "failed" THEN drafts
                       ELSE Marked(d, {"generating", "ready"}, "failed")
    BY <1>2 DEF MarkFailed, MarkFailedFrom
  <2>2. /\ UNCHANGED <<conversation, plans, req, buried, crossed>>
        /\ tool.pc \in {"ready", "failed"} /\ ToolEnds("failed")
        /\ "adopted" \notin {"generating", "ready"}
    BY <1>2 DEF MarkFailed, ToolFrame, ToolAt
  <2>3. Hurting
    BY <2>1, <2>2, HurtsHurting DEF DraftsInv, Typed, Announced
  <2>4. QED
    BY <2>1, <2>2, <2>3, OwnDraftKeeps
<1>3. QED
  BY <1>1, <1>2, ReadingKeeps, SupersedeKeeps, CreateKeeps DEF GenerateStep

\* A step of the agent that leaves the drafts alone, starts the tool, or ends it.
LEMMA AgentKeeps ==
    ASSUME DraftsInv, UNCHANGED <<rows, req, faults, crossed, buried, hurt>>,
           \/ tool' = tool \/ tool' = NoTool
           \/ \E x : tool' = [NoTool EXCEPT !.pc = "conversation", !.input = x]
    PROVE  DraftsInv'
<1>1. UNCHANGED <<conversation, drafts, plans>> /\ Hurting /\ faults' \in 0..MaxFaults
  BY DEF rows, DraftsInv, Typed, Hurting
<1>2. CASE tool' = tool
  <2>1. Recorded' /\ Announced' /\ NoNewDraft
    BY <1>1, <1>2 DEF DraftsInv, Typed, Recorded, Announced, NoNewDraft, GeneratedBy
  <2>2. QED
    BY <1>1, <2>1, QuietKeeps
<1>3. CASE tool' # tool
  <2>1. Recorded' /\ tool'.pc \in {"idle", "conversation"} /\ tool'.result = None
    BY <1>1, <1>3, NewTool DEF DraftsInv, Typed
  <2>2. Announced' /\ NoNewDraft
    BY <2>1, NewToolAnnounces DEF NoNewDraft, GeneratedBy
  <2>3. QED
    BY <1>1, <2>1, <2>2, QuietKeeps
<1>4. QED
  BY <1>2, <1>3

\* A deadline, a panic, a restart.
LEMMA AccidentKeeps ==
    ASSUME DraftsInv, Deadline \/ Panic \/ Restart
    PROVE  DraftsInv'
<1>1. NoRequest \in Request /\ NoRequest.pc = "idle"
  BY DEF NoRequest, Request
<1>2. /\ UNCHANGED <<conversation, drafts, plans, crossed, buried>>
      /\ faults > 0 /\ faults' = faults - 1
      /\ tool' = tool \/ tool' = NoTool
      /\ \/ req' = req /\ hurt' \in {hurt, hurt \cup OwnDraft}
         \/ /\ req' = [p \in Procs |-> NoRequest]
            /\ hurt' = hurt \cup OwnDraft \cup HalfAdopted
  BY DEF Deadline, Panic, Restart, rows, agentVars
<1>3. Recorded' /\ Announced' /\ NoNewDraft
  <2>1. CASE tool' = tool
    BY <1>2, <2>1 DEF DraftsInv, Typed, Recorded, Announced, NoNewDraft, GeneratedBy
  <2>2. CASE tool' = NoTool
    <3>1. Recorded' /\ tool'.pc \in {"idle", "conversation"} /\ tool'.result = None
      BY <1>2, <2>2, NewTool DEF DraftsInv, Typed
    <3>2. QED
      BY <3>1, NewToolAnnounces DEF NoNewDraft, GeneratedBy
  <2>3. QED
    BY <1>2, <2>1, <2>2
<1>4. Hurting /\ faults' \in 0..MaxFaults
  <2>1. OwnDraft \subseteq 1..Len(drafts) /\ HalfAdopted \subseteq 1..Len(drafts)
    BY DEF OwnDraft, HalfAdopted
  <2>2. faults' \in 0..MaxFaults
    BY <1>2, DraftsAssumption DEF DraftsAssumption, DraftsInv, Typed
  <2>3. QED
    BY <1>2, <2>1, <2>2 DEF DraftsInv, Typed, Hurting
<1>5. /\ req' \in [Procs -> Request]
      /\ \A q \in Procs : \/ /\ req'[q].pc = "idle"
                             /\ req[q].pc \in {"mark", "archive"} => req[q].draft \in hurt'
                          \/ req'[q].pc = req[q].pc /\ req'[q].draft = req[q].draft
  BY <1>1, <1>2 DEF DraftsInv, Typed, HalfAdopted
<1>6. QED
  BY <1>2, <1>3, <1>4, <1>5, FaultKeeps DEF NoNewDraft

LEMMA DraftsStep == DraftsInv /\ [Next]_vars => DraftsInv'
<1> SUFFICES ASSUME DraftsInv, [Next]_vars PROVE DraftsInv'
  OBVIOUS
<1>1. CASE UNCHANGED vars
  BY <1>1, AgentKeeps DEF vars, draftVars, rows
<1>2. CASE BeginTurn
  BY <1>2, AgentKeeps DEF BeginTurn
<1>3. CASE StartCall
  <2>1. /\ UNCHANGED <<rows, req, faults, crossed, buried, hurt>>
        /\ \/ tool' = tool
           \/ \E x : tool' = [NoTool EXCEPT !.pc = "conversation", !.input = x]
    BY <1>3 DEF StartCall
  <2>2. QED
    BY <2>1, AgentKeeps
<1>4. CASE Iterate \/ Answer \/ AnswerFails \/ EndCall \/ EndTurn
  <2>1. UNCHANGED draftVars
    BY <1>4 DEF Iterate, Answer, AnswerFails, EndCall, EndTurn, AgentFrame
  <2>2. QED
    BY <2>1, AgentKeeps DEF draftVars
<1>5. CASE GenerateDraft
  <2>1. CASE GenerateStep
    BY <2>1, GenerationKeeps
  <2>2. CASE tool' = NoTool /\ UNCHANGED <<rows, req, faults, crossed, buried, hurt>>
    BY <2>2, AgentKeeps
  <2>3. QED
    BY <1>5, <2>1, <2>2 DEF GenerateDraft
<1>6. CASE \/ ApplyFilter \/ SearchUniversities \/ AggregateData \/ Preview
           \/ RenderChart \/ RenderForm \/ RenderCard
  <2>1. UNCHANGED draftVars
    BY <1>6 DEF ApplyFilter, SearchUniversities, AggregateData, Preview, RenderChart,
                RenderForm, RenderCard, AgentFrame
  <2>2. QED
    BY <2>1, AgentKeeps DEF draftVars
<1>7. QED
  BY <1>1, <1>2, <1>3, <1>4, <1>5, <1>6, RequestKeeps, AccidentKeeps DEF Next, Loop, Tools

LEMMA DraftsStart == Init => DraftsInv
<1> SUFFICES ASSUME Init PROVE DraftsInv
  OBVIOUS
<1> USE DraftsAssumption
<1>1. /\ drafts = <<>> /\ tool = NoTool /\ faults = MaxFaults /\ buried = {} /\ hurt = {}
      /\ plans = [d \in Ids |-> "none"] /\ req = [p \in Procs |-> NoRequest]
  BY DEF Init, DraftsInit
<1>2. drafts \in Seq(RowOf({None})) /\ Len(drafts) = 0
  BY <1>1
<1>3. tool \in ToolOf({None}) /\ tool.pc = "idle" /\ tool.result = None
  BY <1>1 DEF NoTool, ToolOf, Results
<1>4. NoRequest \in Request /\ NoRequest.pc = "idle" /\ ~NoRequest.cut
  BY DEF NoRequest, Request
<1> HIDE DEF NoRequest
<1>5. Recorded
  BY <1>2, <1>3 DEF Recorded
<1>6. Typed
  BY <1>1, <1>2, <1>4, <1>5 DEF Typed, DraftsAssumption
<1>7. Announced
  BY <1>3 DEF Announced, DraftsAssumption
<1>8. Buried /\ Backed /\ Faultless
  BY <1>1, <1>2, <1>3, <1>4 DEF Buried, Backed, Faultless
<1>9. QED
  BY <1>6, <1>7, <1>8 DEF DraftsInv

-----------------------------------------------------------------------------
(* Folds over sequences *)

\* A set of numbers has a smallest one.
LEMMA SmallestNumber ==
    ASSUME NEW T \in SUBSET Nat, T # {}
    PROVE  \E n \in T : \A m \in T : n <= m
<1> DEFINE R == {p \in Nat \X Nat : p[1] < p[2]}
<1>1. IsWellFoundedOn(R, Nat)
  BY NatLessThanWellFounded DEF OpToRel
<1> HIDE DEF R
<1>2. PICK n \in T : \A m \in T : ~(<<m, n>> \in R)
  BY <1>1, WFMin
<1>3. \A m \in T : ~(m < n)
  BY <1>2 DEF R
<1>4. QED
  BY <1>3

LEMMA MaxIs ==
    ASSUME NEW k \in Nat, NEW s \in SUBSET (1..k), k \in s
    PROVE  Max(s) = k
<1>1. \A x \in s : (\A y \in s : x >= y) <=> x = k
  OBVIOUS
<1>2. QED
  BY <1>1 DEF Max

LEMMA MaxIn ==
    ASSUME NEW n \in Nat, NEW s \in SUBSET (1..n), s # {}
    PROVE  Max(s) \in s
<1> DEFINE T == {m \in Nat : \A x \in s : x <= m}
<1>1. n \in T
  OBVIOUS
<1>2. T \in SUBSET Nat
  OBVIOUS
<1> HIDE DEF T
<1>3. PICK m \in T : \A k \in T : m <= k
  BY <1>1, <1>2, SmallestNumber
<1>4. m \in Nat /\ \A x \in s : x <= m
  BY <1>3 DEF T
<1>5. m \in s
  <2> SUFFICES ASSUME m \notin s PROVE FALSE
    OBVIOUS
  <2>1. \A x \in s : x <= m - 1 /\ x \in Nat /\ x >= 1
    BY <1>4
  <2>2. m - 1 \in Nat
    <3>1. PICK x \in s : TRUE
      OBVIOUS
    <3>2. QED
      BY <1>4, <2>1, <3>1
  <2>3. m - 1 \in T
    BY <2>1, <2>2 DEF T
  <2>4. QED
    BY <1>3, <1>4, <2>3
<1>6. QED
  BY <1>4, <1>5 DEF Max

\* A fold over n positions, whose steps are functions on S, is defined by one function,
\* on the sets of positions.
Folding(S, n, step, b, f) ==
    /\ f \in [SUBSET (1..n) -> S]
    /\ \A s \in SUBSET (1..n) : f[s] = IF s = {} THEN b ELSE step[Max(s)][f[s \ {Max(s)}]]

\* A function does so as far as its values are known to be in S.
Unfolding(S, n, step, b, h) ==
    /\ h[{}] = b
    /\ \A s \in SUBSET (1..n) :
          s # {} /\ h[s \ {Max(s)}] \in S => h[s] = step[Max(s)][h[s \ {Max(s)}]]

\* The results of the steps, one by one.
Chain(S, n, step, b, c) ==
    /\ c \in [0..n -> S] /\ c[0] = b
    /\ \A k \in 1..n : c[k] = step[k][c[k - 1]]

LEMMA FoldExists ==
    ASSUME NEW S, NEW n \in Nat, NEW step \in [1..n -> [S -> S]], NEW b \in S
    PROVE  \E f : Folding(S, n, step, b, f)
<1> DEFINE Builds(k, f) == Folding(S, k, step, b, f)
           T == {k \in 0..n : \A f : ~Builds(k, f)}
<1>3. Builds(0, [s \in SUBSET (1..0) |-> b])
  <2>1. SUBSET (1..0) = {{}}
    OBVIOUS
  <2>2. QED
    BY <2>1 DEF Folding
<1> SUFFICES ASSUME T # {} PROVE FALSE
  <2> HIDE DEF Builds
  <2>1. T = {} => \E f : Builds(n, f)
    OBVIOUS
  <2>2. QED
    BY <2>1 DEF Builds
<1>1. PICK k \in T : \A m \in T : k <= m
  <2>1. T \in SUBSET Nat
    OBVIOUS
  <2> HIDE DEF T
  <2>2. QED
    BY <2>1, SmallestNumber
<1>2. k # 0 /\ k \in 1..n
  <2> HIDE DEF Builds
  <2>1. QED
    BY <1>3
<1>4. k - 1 \in 0..n /\ k - 1 \notin T
  <2> HIDE DEF Builds
  <2>1. QED
    BY <1>1, <1>2
<1>5. PICK g : Builds(k - 1, g)
  <2> HIDE DEF Builds
  <2>1. QED
    BY <1>4
<1> DEFINE f == [s \in SUBSET (1..k) |-> IF k \in s THEN step[k][g[s \ {k}]] ELSE g[s]]
<1>7. ASSUME NEW s \in SUBSET (1..k)
      PROVE  /\ s \ {k} \in SUBSET (1..k - 1)
             /\ k \notin s => s \in SUBSET (1..k - 1)
  BY <1>2, <1>7
<1> HIDE DEF T
<1>8. f \in [SUBSET (1..k) -> S]
  BY <1>5, <1>2, <1>7 DEF Folding
<1>9. ASSUME NEW s \in SUBSET (1..k)
      PROVE  f[s] = IF s = {} THEN b ELSE step[Max(s)][f[s \ {Max(s)}]]
  <2>1. CASE k \in s
    <3>1. Max(s) = k
      BY <1>2, <2>1, MaxIs
    <3>2. f[s \ {k}] = g[s \ {k}]
      OBVIOUS
    <3>3. QED
      BY <2>1, <3>1, <3>2
  <2>2. CASE k \notin s
    <3>1. s \in SUBSET (1..k - 1) /\ k \notin s \ {Max(s)}
      BY <1>7, <2>2
    <3>2. f[s] = g[s] /\ f[s \ {Max(s)}] = g[s \ {Max(s)}]
      BY <2>2, <3>1
    <3>3. QED
      BY <1>5, <3>1, <3>2 DEF Folding
  <2>3. QED
    BY <2>1, <2>2
<1>10. Builds(k, f)
  BY <1>8, <1>9 DEF Folding
<1>11. QED
  <2> HIDE DEF Builds, f
  <2>1. QED
    BY <1>1, <1>10 DEF T

\* A fold goes through its sequence from left to right.
LEMMA FoldChain ==
    ASSUME NEW S, NEW n \in Nat, NEW step \in [1..n -> [S -> S]], NEW b \in S, NEW h,
           Unfolding(S, n, step, b, h)
    PROVE  \E c : Chain(S, n, step, b, c) /\ c[n] = h[1..n]
<1> DEFINE c == [k \in 0..n |-> h[1..k]]
           T == {k \in 0..n : c[k] \notin S}
<1>1. c[0] = b
  <2>1. 1..0 = {}
    OBVIOUS
  <2>2. QED
    BY <2>1 DEF Unfolding
<1>2. ASSUME NEW k \in 1..n, c[k - 1] \in S
      PROVE  c[k] = step[k][c[k - 1]] /\ c[k] \in S
  <2>1. /\ 1..k \in SUBSET (1..n) /\ k \in 1..k /\ 1..k # {}
        /\ (1..k) \ {k} = 1..k - 1 /\ k - 1 \in 0..n
    <3> HIDE DEF c
    <3>1. k \in 1..k /\ k - 1 \in 0..n
      OBVIOUS
    <3>2. 1..k \in SUBSET (1..n)
      OBVIOUS
    <3>3. (1..k) \ {k} = 1..k - 1
      OBVIOUS
    <3>4. QED
      BY <3>1, <3>2, <3>3
  <2>2. Max(1..k) = k
    BY <2>1, MaxIs
  <2>3. h[1..k] = step[k][h[1..k - 1]]
    BY <1>2, <2>1, <2>2 DEF Unfolding
  <2>4. QED
    BY <1>2, <2>1, <2>3
<1>3. T = {}
  <2> SUFFICES ASSUME T # {} PROVE FALSE
    OBVIOUS
  <2>1. PICK k \in T : \A m \in T : k <= m
    <3>1. T \in SUBSET Nat
      OBVIOUS
    <3> HIDE DEF T
    <3>2. QED
      BY <3>1, SmallestNumber
  <2> HIDE DEF c
  <2>2. k \in 1..n /\ k - 1 \in 0..n /\ k - 1 \notin T
    BY <1>1, <2>1
  <2>3. QED
    BY <1>2, <2>1, <2>2
<1>4. c \in [0..n -> S]
  <2>1. \A k \in 0..n : c[k] \in S
    <3> HIDE DEF c
    <3>1. QED
      BY <1>3
  <2>2. QED
    BY <2>1
<1>5. c[n] = h[1..n]
  OBVIOUS
<1> HIDE DEF c
<1>6. QED
  BY <1>1, <1>2, <1>4, <1>5 DEF Chain

-----------------------------------------------------------------------------
(* What is made of a stream *)

\* A fragment, joined to the others.
LEMMA GatherType ==
    ASSUME NEW pending \in Seq(Fragment), NEW f \in Fragment
    PROVE  Gather(pending, f) \in Seq(Fragment)
<1>1. Append(pending, f) \in Seq(Fragment)
  BY AppendProperties
<1> DEFINE j(i) == [pending[i] EXCEPT !.id = IF f.id = 0 THEN @ ELSE f.id, !.args = @ \o f.args]
<1>2. ASSUME NEW i \in 1..Len(pending) PROVE j(i) \in Fragment
  <2>1. pending[i] \in Fragment
    BY ElementOfSeq
  <2> DEFINE x == IF f.id = 0 THEN pending[i].id ELSE f.id
             a == pending[i].args \o f.args
  <2>2. x \in Nat /\ pending[i].index \in Nat
    BY <2>1 DEF Fragment
  <2>3. a \in Seq(Nat \X Nat)
    <3>1. pending[i].args \in Seq(Nat \X Nat) /\ f.args \in Seq(Nat \X Nat)
      BY <2>1 DEF Fragment
    <3>2. QED
      BY <3>1, ConcatProperties
  <2>4. j(i) = [[pending[i] EXCEPT !.id = x] EXCEPT !.args = a]
    OBVIOUS
  <2> HIDE DEF j, x, a
  <2>5. QED
    BY <2>1, <2>2, <2>3, <2>4 DEF Fragment
<1> DEFINE g == [i \in 1..Len(pending) |->
                    IF pending[i].index # f.index THEN pending[i] ELSE j(i)]
<1> HIDE DEF j
<1>3. Len(pending) \in Nat /\ \A i \in 1..Len(pending) : pending[i] \in Fragment
  BY LenProperties, ElementOfSeq
<1>4. g \in [1..Len(pending) -> Fragment]
  BY <1>2, <1>3
<1> HIDE DEF g
<1>5. g \in Seq(Fragment)
  BY <1>3, <1>4, SeqDef
<1>6. Gather(pending, f) \in {Append(pending, f), g}
  BY DEF Gather, g, j
<1>7. QED
  BY <1>1, <1>5, <1>6

\* Fragments join one after the other.
LEMMA GatherAllChain ==
    ASSUME NEW pending \in Seq(Fragment), NEW fs \in Seq(Fragment)
    PROVE  \E c \in [0..Len(fs) -> Seq(Fragment)] :
              /\ c[0] = pending
              /\ \A i \in 1..Len(fs) : c[i] = Gather(c[i - 1], fs[i])
              /\ GatherAll(pending, fs) = c[Len(fs)]
<1> DEFINE S == Seq(Fragment)
           n == Len(fs)
           step == [i \in 1..n |-> [a \in S |-> Gather(a, fs[i])]]
           P(h) == h = [s \in SUBSET (1..n) |-> IF s = {} THEN pending
                                               ELSE Gather(h[s \ {Max(s)}], fs[Max(s)])]
<1>1. n \in Nat /\ DOMAIN fs = 1..n /\ \A i \in 1..n : fs[i] \in Fragment
  BY LenProperties, ElementOfSeq
<1>2. step \in [1..n -> [S -> S]] /\ pending \in S
  BY <1>1, GatherType
<1>3. \A i \in 1..n : \A a \in S : step[i][a] = Gather(a, fs[i])
  OBVIOUS
<1> HIDE DEF S, step, n
<1>4. PICK f : Folding(S, n, step, pending, f)
  BY <1>1, <1>2, FoldExists
<1>5. \A s \in SUBSET (1..n) : s # {} => Max(s) \in 1..n
  BY <1>1, MaxIn
<1>6. P(f)
  <2>1. \A s \in SUBSET (1..n) :
              f[s] = IF s = {} THEN pending ELSE Gather(f[s \ {Max(s)}], fs[Max(s)])
    BY <1>3, <1>4, <1>5 DEF Folding
  <2>2. QED
    BY <1>4, <2>1 DEF Folding
<1> DEFINE h == CHOOSE h : P(h)
<1>7. P(h)
  <2> HIDE DEF P
  <2>1. QED
    BY <1>6
<1>8. GatherAll(pending, fs) = h[1..n]
  BY <1>1 DEF GatherAll, FoldLeft, MapThenFoldSet
<1> HIDE DEF h
<1>9. Unfolding(S, n, step, pending, h)
  <2>1. \A s \in SUBSET (1..n) :
           h[s] = IF s = {} THEN pending ELSE Gather(h[s \ {Max(s)}], fs[Max(s)])
    BY <1>7
  <2>2. QED
    BY <1>3, <1>5, <2>1 DEF Unfolding
<1>10. PICK c : Chain(S, n, step, pending, c) /\ c[n] = h[1..n]
  BY <1>1, <1>2, <1>9, FoldChain
<1>11. c \in [0..n -> S] /\ c[0] = pending /\ GatherAll(pending, fs) = c[n]
  BY <1>8, <1>10 DEF Chain
<1>12. ASSUME NEW i \in 1..n PROVE c[i] = Gather(c[i - 1], fs[i])
  <2>1. i - 1 \in 0..n
    BY <1>1
  <2>2. c[i - 1] \in S /\ c[i] = step[i][c[i - 1]]
    BY <1>10, <2>1 DEF Chain
  <2>3. QED
    BY <1>3, <2>2
<1>13. QED
  BY <1>11, <1>12 DEF S, n

LEMMA GatherAllType ==
    ASSUME NEW pending \in Seq(Fragment), NEW fs \in Seq(Fragment)
    PROVE  GatherAll(pending, fs) \in Seq(Fragment)
<1>1. Len(fs) \in 0..Len(fs)
  BY LenProperties
<1>2. QED
  BY <1>1, GatherAllChain

\* What has been read of a stream.
StreamState == [text : BOOLEAN, pending : Seq(Fragment), calls : Seq(Fragment), over : BOOLEAN]

LEMMA FlushType ==
    ASSUME NEW st \in StreamState
    PROVE  Flush(st) \in StreamState
<1>1. <<>> \in Seq(Fragment) /\ st.calls \o st.pending \in Seq(Fragment)
  BY ConcatProperties DEF StreamState
<1> DEFINE x == st.calls \o st.pending
<1>2. Flush(st) = [[st EXCEPT !.calls = x] EXCEPT !.pending = <<>>]
  BY DEF Flush
<1> HIDE DEF x
<1>3. QED
  BY <1>1, <1>2 DEF StreamState, x

LEMMA ReadType ==
    ASSUME NEW st \in StreamState, NEW f \in Frame
    PROVE  Read(st, f) \in StreamState
<1> DEFINE t == st.text \/ f.text
           g == GatherAll(st.pending, f.calls)
           got == [[st EXCEPT !.text = t] EXCEPT !.pending = g]
<1>1. t \in BOOLEAN
  OBVIOUS
<1>2. g \in Seq(Fragment)
  BY GatherAllType DEF StreamState, Frame
<1>3. Read(st, f) = CASE st.over \/ f.type = "bad" -> st
                      [] ~st.over /\ f.type = "done" -> [Flush(st) EXCEPT !.over = TRUE]
                      [] ~st.over /\ f.type = "delta" ->
                           IF f.finish = "tool_calls" THEN Flush(got) ELSE got
  BY DEF Read
<1> HIDE DEF t, g
<1>4. got \in StreamState
  BY <1>1, <1>2 DEF StreamState
<1>5. Flush(got) \in StreamState /\ Flush(st) \in StreamState
  BY <1>4, FlushType
<1>6. [Flush(st) EXCEPT !.over = TRUE] \in StreamState
  BY <1>5 DEF StreamState
<1>7. st.over \in BOOLEAN /\ f.type \in {"delta", "done", "bad"}
  BY DEF StreamState, Frame
<1> HIDE DEF got
<1>8. QED
  BY <1>3, <1>4, <1>5, <1>6, <1>7

\* Frames are read one after the other.
LEMMA StreamChain ==
    ASSUME NEW frames \in Seq(Frame)
    PROVE  \E c \in [0..Len(frames) -> StreamState] :
              /\ c[0] = Unread
              /\ \A i \in 1..Len(frames) : c[i] = Read(c[i - 1], frames[i])
              /\ streamOpenAIBody(frames) = Flush(c[Len(frames)])
<1> DEFINE S == StreamState
           n == Len(frames)
           step == [i \in 1..n |-> [a \in S |-> Read(a, frames[i])]]
           P(h) == h = [s \in SUBSET (1..n) |-> IF s = {} THEN Unread
                                               ELSE Read(h[s \ {Max(s)}], frames[Max(s)])]
<1>1. n \in Nat /\ DOMAIN frames = 1..n /\ \A i \in 1..n : frames[i] \in Frame
  BY LenProperties, ElementOfSeq
<1>2. step \in [1..n -> [S -> S]] /\ Unread \in S
  <2>1. Unread \in S
    BY DEF Unread, StreamState
  <2>2. QED
    BY <1>1, <2>1, ReadType
<1>3. \A i \in 1..n : \A a \in S : step[i][a] = Read(a, frames[i])
  OBVIOUS
<1> HIDE DEF S, step, n
<1>4. PICK f : Folding(S, n, step, Unread, f)
  BY <1>1, <1>2, FoldExists
<1>5. \A s \in SUBSET (1..n) : s # {} => Max(s) \in 1..n
  BY <1>1, MaxIn
<1>6. P(f)
  <2>1. \A s \in SUBSET (1..n) :
              f[s] = IF s = {} THEN Unread ELSE Read(f[s \ {Max(s)}], frames[Max(s)])
    BY <1>3, <1>4, <1>5 DEF Folding
  <2>2. QED
    BY <1>4, <2>1 DEF Folding
<1> DEFINE h == CHOOSE h : P(h)
<1>7. P(h)
  <2> HIDE DEF P
  <2>1. QED
    BY <1>6
<1>8. streamOpenAIBody(frames) = Flush(h[1..n])
  BY <1>1 DEF streamOpenAIBody, FoldLeft, MapThenFoldSet
<1> HIDE DEF h
<1>9. Unfolding(S, n, step, Unread, h)
  <2>1. \A s \in SUBSET (1..n) :
           h[s] = IF s = {} THEN Unread ELSE Read(h[s \ {Max(s)}], frames[Max(s)])
    BY <1>7
  <2>2. QED
    BY <1>3, <1>5, <2>1 DEF Unfolding
<1>10. PICK c : Chain(S, n, step, Unread, c) /\ c[n] = h[1..n]
  BY <1>1, <1>2, <1>9, FoldChain
<1>11. c \in [0..n -> S] /\ c[0] = Unread /\ streamOpenAIBody(frames) = Flush(c[n])
  BY <1>8, <1>10 DEF Chain
<1>12. ASSUME NEW i \in 1..n PROVE c[i] = Read(c[i - 1], frames[i])
  <2>1. i - 1 \in 0..n
    BY <1>1
  <2>2. c[i - 1] \in S /\ c[i] = step[i][c[i - 1]]
    BY <1>10, <2>1 DEF Chain
  <2>3. QED
    BY <1>3, <2>2
<1>13. QED
  BY <1>11, <1>12 DEF S, n

\* The calls of a stream are whole sequences, whatever the frames.
LEMMA StreamType ==
    ASSUME NEW frames \in Seq(Frame)
    PROVE  streamOpenAIBody(frames) \in StreamState
<1>1. Len(frames) \in 0..Len(frames)
  BY LenProperties
<1>2. QED
  BY <1>1, StreamChain, FlushType

-----------------------------------------------------------------------------
(* The run *)

RunStates == {"idle", "model", "call", "execute", "end", "returned"}
Contents  == {None, "rows", "words"}
Outcome   == {None, "answered", "exhausted", "cancelled", "failed"}
Result    == [id : Nat, rows : BOOLEAN]
Widget    == [id : Nat, src : Nat]
Message   == [role : {"assistant", "tool"}, ids : SUBSET Nat]
Event     == [type : {"text", "start", "widget", "end"}, id : Nat]

RunRecord ==
    [pc : RunStates, iteration : 0..MaxIterations, todo : Seq(Call),
     executed : Seq(Call), results : Seq(Result), widgets : Seq(Widget),
     texts : Seq(Nat), messages : Seq(Message), meant : Seq(Call), cut : BOOLEAN,
     content : Contents, outcome : Outcome]

\* A turn at work is in some iteration, and the call being executed is there.
RunInv ==
    /\ run \in RunRecord /\ sent \in Seq(Event) /\ turns \in 0..MaxTurns
    /\ run.pc # "idle" => run.iteration \in 1..MaxIterations
    /\ run.pc \in {"execute", "end"} => run.todo # <<>> /\ run.executed # <<>>

\* What the client makes of an answer is a sequence of calls.
LEMMA AnswerType ==
    ASSUME NEW i \in 1..MaxIterations, NEW r \in Answers[i]
    PROVE  r.text \in BOOLEAN /\ r.meant \in Seq(Call) /\ r.cut \in BOOLEAN /\ r.calls \in Seq(Call)
<1>1. PICK s \in Streams[i] : r = Heard(s)
  BY DEF Answers
<1>2. s \in Stream
  BY AgentAssumption DEF AgentAssumption
<1> DEFINE read == streamOpenAIBody(s.frames)
           made(j) == CallOf(s.meant, read.calls[j])
           calls == [j \in 1..Len(read.calls) |-> made(j)]
<1>3. read \in StreamState
  BY <1>2, StreamType DEF Stream
<1>4. r = [text |-> read.text, meant |-> s.meant, cut |-> s.cut, calls |-> calls]
  BY <1>1 DEF Heard
<1>5. Broken \in Call
  BY DEF Broken, Call, Kinds
<1>6. ASSUME NEW j \in 1..Len(read.calls) PROVE made(j) \in Call
  <2>1. s.meant \in Seq(Call)
    BY <1>2 DEF Stream
  <2>2. \A k \in 1..Len(s.meant) : s.meant[k] \in Call
    BY <2>1, ElementOfSeq
  <2>3. QED
    BY <1>5, <2>2 DEF CallOf
<1> HIDE DEF made
<1>7. Len(read.calls) \in Nat
  BY <1>3, LenProperties DEF StreamState
<1>8. calls \in [1..Len(read.calls) -> Call]
  BY <1>6
<1> HIDE DEF calls, read
<1>9. calls \in Seq(Call)
  BY <1>7, <1>8, SeqDef
<1>10. read.text \in BOOLEAN /\ s.meant \in Seq(Call) /\ s.cut \in BOOLEAN
  BY <1>2, <1>3 DEF StreamState, Stream
<1>11. QED
  BY <1>4, <1>9, <1>10

LEMMA EventAppended ==
    ASSUME NEW s \in Seq(Event), NEW type \in {"text", "start", "widget", "end"}, NEW id \in Nat
    PROVE  Append(s, [type |-> type, id |-> id]) \in Seq(Event)
<1> DEFINE e == [type |-> type, id |-> id]
<1>1. e \in Event
  BY DEF Event
<1> HIDE DEF e
<1>2. Append(s, e) \in Seq(Event)
  BY <1>1, AppendProperties
<1>3. QED
  BY <1>2 DEF e

\* Text streamed or not.
LEMMA StreamedType ==
    ASSUME RunInv, NEW text
    PROVE  Streamed(text) \in Seq(Event)
BY EventAppended DEF RunInv, RunRecord, Streamed

\* The run returns or says what a tool has said.
LEMMA ReturnsRun ==
    ASSUME RunInv, NEW o \in Outcome, Returns(o), run.pc # "idle",
           sent' \in Seq(Event), turns' = turns
    PROVE  RunInv'
BY DEF RunInv, RunRecord, RunStates, Returns

LEMMA SaysRun ==
    ASSUME RunInv, NEW c \in Contents, Says(c), run.pc = "execute",
           sent' = sent, turns' = turns
    PROVE  RunInv'
BY DEF RunInv, RunRecord, RunStates, Says

LEMMA EmitRun ==
    ASSUME RunInv, NEW src \in Nat, Emit(src), run.pc = "execute", turns' = turns
    PROVE  RunInv'
<1> DEFINE n == Current
           x == [id |-> n, src |-> src]
           w == IF Len(run.widgets) >= MaxWidgets THEN run.widgets ELSE Append(run.widgets, x)
<1>1. n \in Nat
  BY LenProperties DEF RunInv, RunRecord, Current
<1>2. x \in Widget
  BY <1>1 DEF Widget
<1> HIDE DEF x
<1>3. w \in Seq(Widget)
  BY <1>2, AppendProperties DEF RunInv, RunRecord
<1>4. sent' \in Seq(Event)
  BY <1>1, EventAppended DEF RunInv, Emit
<1>5. run' = [run EXCEPT !.pc = "end", !.content = "words", !.widgets = w]
  BY DEF Emit, x
<1> HIDE DEF w
<1>6. QED
  BY <1>3, <1>4, <1>5 DEF RunInv, RunRecord, RunStates, Contents

LEMMA NoRunType == NoRun \in RunRecord /\ NoRun.pc = "idle"
<1>1. \A S : <<>> \in Seq(S)
  BY EmptySeq
<1>2. 0 \in 0..MaxIterations
  BY AgentAssumption DEF AgentAssumption
<1>3. QED
  BY <1>1, <1>2 DEF NoRun, RunRecord, RunStates, Contents, Outcome

LEMMA NoRunInv ==
    ASSUME run' = NoRun, sent' = <<>>, turns' \in 0..MaxTurns
    PROVE  RunInv'
<1>1. <<>> \in Seq(Event)
  BY EmptySeq
<1>2. QED
  BY <1>1, NoRunType DEF RunInv

LEMMA AnswerRun ==
    ASSUME RunInv, Answer
    PROVE  RunInv'
<1>1. run.pc = "model" /\ run.iteration \in 1..MaxIterations /\ turns' = turns
  BY DEF RunInv, Answer, RunAt, AgentFrame
<1>2. PICK r \in Answers[run.iteration] :
        /\ sent' = Streamed(r.text)
        /\ LET heard == [run EXCEPT !.texts = KeepText(r.text),
                             !.meant = @ \o r.meant, !.cut = @ \/ r.cut] IN
           run' = IF r.calls = <<>>
                  THEN [heard EXCEPT !.pc = "returned", !.outcome = "answered"]
                  ELSE [heard EXCEPT !.pc = "call", !.todo = r.calls,
                           !.messages = Append(@, [role |-> "assistant",
                               ids |-> {Current + i : i \in 1..Len(r.calls)}])]
  BY DEF Answer
<1>3. r.text \in BOOLEAN /\ r.meant \in Seq(Call) /\ r.cut \in BOOLEAN /\ r.calls \in Seq(Call)
  BY <1>1, AnswerType
<1> DEFINE texts == KeepText(r.text)
           meant == run.meant \o r.meant
           cut == run.cut \/ r.cut
           m == [role |-> "assistant", ids |-> {Current + i : i \in 1..Len(r.calls)}]
           messages == Append(run.messages, m)
           heard == [run EXCEPT !.texts = texts, !.meant = meant, !.cut = cut]
<1>4. texts \in Seq(Nat)
  <2>1. run.texts \in Seq(Nat) /\ run.iteration \in Nat
    BY <1>1 DEF RunInv, RunRecord
  <2>2. Append(run.texts, run.iteration) \in Seq(Nat)
    BY <2>1, AppendProperties
  <2>3. QED
    BY <2>1, <2>2 DEF KeepText
<1>5. meant \in Seq(Call)
  BY <1>3, ConcatProperties DEF RunInv, RunRecord
<1>6. messages \in Seq(Message)
  <2>1. Current \in Nat /\ Len(r.calls) \in Nat
    BY <1>3, LenProperties DEF Current, RunInv, RunRecord
  <2>2. m \in Message
    BY <2>1 DEF Message
  <2> HIDE DEF m
  <2>3. QED
    BY <2>2, AppendProperties DEF RunInv, RunRecord
<1>7. run' = IF r.calls = <<>>
             THEN [heard EXCEPT !.pc = "returned", !.outcome = "answered"]
             ELSE [heard EXCEPT !.pc = "call", !.todo = r.calls, !.messages = messages]
  BY <1>2
<1> HIDE DEF texts, meant, messages, m
<1>8. heard \in RunRecord /\ heard.iteration = run.iteration
  BY <1>3, <1>4, <1>5 DEF RunInv, RunRecord
<1>9. sent' \in Seq(Event)
  BY <1>2, StreamedType
<1> HIDE DEF heard
<1>10. QED
  BY <1>1, <1>3, <1>6, <1>7, <1>8, <1>9 DEF RunInv, RunRecord, RunStates, Outcome

LEMMA StartRun ==
    ASSUME RunInv, StartCall
    PROVE  /\ RunInv'
           /\ \/ run'.pc = "returned"
              \/ /\ run'.pc = "execute" /\ run'.executed[Len(run'.executed)] = Head(run.todo)
                 /\ Head(run.todo) \in Call
<1>1. run.pc = "call" /\ run.todo # <<>> /\ turns' = turns
  BY DEF StartCall, RunAt
<1>2. CASE expired
  <2>1. Returns("cancelled") /\ sent' = sent
    BY <1>2 DEF StartCall
  <2>2. run'.pc = "returned"
    BY <2>1 DEF Returns, RunInv, RunRecord
  <2>3. QED
    BY <1>1, <2>1, <2>2, ReturnsRun DEF RunInv, Outcome
<1>3. CASE ~expired
  <2> DEFINE c == Head(run.todo)
             e == Append(run.executed, c)
  <2>1. c \in Call
    BY <1>1, HeadTailProperties DEF RunInv, RunRecord
  <2>2. /\ e \in Seq(Call) /\ e # <<>> /\ e[Len(e)] = c
    <3> HIDE DEF c
    <3>1. run.executed \in Seq(Call) /\ Len(run.executed) \in Nat
      BY LenProperties DEF RunInv, RunRecord
    <3>2. QED
      BY <2>1, <3>1, AppendProperties
  <2>3. run' = [run EXCEPT !.pc = "execute", !.executed = e]
    BY <1>3 DEF StartCall
  <2>4. sent' \in Seq(Event)
    <3>1. Current + 1 \in Nat
      BY LenProperties DEF Current, RunInv, RunRecord
    <3>2. QED
      BY <1>3, <3>1, EventAppended DEF RunInv, StartCall
  <2> HIDE DEF e, c
  <2>5. /\ run' \in RunRecord /\ run'.pc = "execute" /\ run'.executed = e
        /\ run'.todo = run.todo /\ run'.iteration = run.iteration
    BY <2>2, <2>3 DEF RunInv, RunRecord, RunStates
  <2>6. RunInv'
    BY <1>1, <2>2, <2>4, <2>5 DEF RunInv
  <2>7. QED
    BY <2>1, <2>2, <2>5, <2>6 DEF c
<1>4. QED
  BY <1>2, <1>3

LEMMA EndCallRun ==
    ASSUME RunInv, EndCall
    PROVE  RunInv'
<1>1. run.pc = "end" /\ turns' = turns /\ run.todo # <<>>
  BY DEF EndCall, RunAt, AgentFrame, RunInv
<1> DEFINE x == [id |-> Current, rows |-> run.content = "rows"]
           m == [role |-> "tool", ids |-> {Current}]
           todo == Tail(run.todo)
           results == Append(run.results, x)
           messages == Append(run.messages, m)
<1>2. Current \in Nat
  BY LenProperties DEF Current, RunInv, RunRecord
<1>3. todo \in Seq(Call)
  BY <1>1, HeadTailProperties DEF RunInv, RunRecord
<1>4. results \in Seq(Result)
  <2>1. x \in Result
    BY <1>2 DEF Result
  <2> HIDE DEF x
  <2>2. QED
    BY <2>1, AppendProperties DEF RunInv, RunRecord
<1>5. messages \in Seq(Message)
  <2>1. m \in Message
    BY <1>2 DEF Message
  <2> HIDE DEF m
  <2>2. QED
    BY <2>1, AppendProperties DEF RunInv, RunRecord
<1>6. sent' \in Seq(Event)
  BY <1>2, EventAppended DEF RunInv, EndCall
<1>7. run' = [run EXCEPT !.pc = "call", !.todo = todo, !.content = None,
                  !.results = results, !.messages = messages]
  BY DEF EndCall
<1> HIDE DEF todo, results, messages
<1>8. /\ run' \in RunRecord /\ run'.pc = "call" /\ run'.iteration = run.iteration
  BY <1>3, <1>4, <1>5, <1>7 DEF RunInv, RunRecord, RunStates, Contents
<1>9. QED
  BY <1>1, <1>6, <1>8 DEF RunInv

LEMMA BeginRun ==
    ASSUME RunInv, BeginTurn
    PROVE  RunInv'
<1>1. turns \in 0..MaxTurns /\ turns > 0 /\ turns' = turns - 1 /\ sent' = <<>>
      /\ run' = [NoRun EXCEPT !.pc = "model", !.iteration = 1]
  BY DEF BeginTurn, RunInv
<1>2. MaxTurns \in Nat /\ 1 \in 1..MaxIterations /\ 1 \in 0..MaxIterations
  BY AgentAssumption DEF AgentAssumption
<1>3. NoRun \in RunRecord
  BY NoRunType
<1> HIDE DEF NoRun
<1>4. run' \in RunRecord /\ run'.pc = "model" /\ run'.iteration = 1
  BY <1>1, <1>2, <1>3 DEF RunRecord, RunStates
<1>5. <<>> \in Seq(Event)
  BY EmptySeq
<1>6. turns' \in 0..MaxTurns
  BY <1>1, <1>2
<1>7. QED
  BY <1>1, <1>2, <1>4, <1>5, <1>6 DEF RunInv

LEMMA IterateRun ==
    ASSUME RunInv, Iterate
    PROVE  RunInv'
<1>1. run.pc = "call" /\ sent' = sent /\ turns' = turns /\ run.iteration \in 1..MaxIterations
  BY DEF Iterate, RunAt, AgentFrame, RunInv
<1>2. CASE Returns("exhausted") \/ Returns("cancelled")
  BY <1>1, <1>2, ReturnsRun DEF RunInv, Outcome
<1>3. CASE run.iteration # MaxIterations /\ run' = [run EXCEPT !.pc = "model", !.iteration = @ + 1]
  <2> DEFINE i == run.iteration + 1
  <2>1. i \in 1..MaxIterations
    BY <1>1, <1>3, AgentAssumption DEF AgentAssumption
  <2>2. run' = [run EXCEPT !.pc = "model", !.iteration = i]
    BY <1>3
  <2> HIDE DEF i
  <2>3. i \in 0..MaxIterations
    BY <2>1
  <2>4. run' \in RunRecord /\ run'.pc = "model" /\ run'.iteration = i
    BY <2>2, <2>3 DEF RunInv, RunRecord, RunStates
  <2>5. QED
    BY <1>1, <2>1, <2>4 DEF RunInv
<1>4. QED
  BY <1>2, <1>3 DEF Iterate

\* A tool that changes the run has said something, or drawn a widget.
LEMMA ToolSays ==
    ASSUME Tools, run' # run \/ sent' # sent
    PROVE  \/ \E c \in Contents : Says(c) /\ sent' = sent
           \/ Emit(0)
           \/ Emit(run.executed[Current].src)
              /\ (run.executed[Current].src = 0 \/ ResolveResult(run.executed[Current].src))
<1>1. CASE ApplyFilter \/ Preview
  BY <1>1 DEF ApplyFilter, Preview, Contents
<1>2. CASE SearchUniversities \/ AggregateData
  BY <1>2 DEF SearchUniversities, AggregateData, Contents
<1>3. CASE RenderForm \/ RenderCard
  BY <1>3 DEF RenderForm, RenderCard, Contents
<1>4. CASE RenderChart
  BY <1>4 DEF RenderChart, Contents
<1>5. CASE GenerateDraft
  BY <1>5 DEF GenerateDraft, agentVars, Contents
<1>6. QED
  BY <1>1, <1>2, <1>3, <1>4, <1>5 DEF Tools

LEMMA ToolRun ==
    ASSUME RunInv, Tools, run' # run \/ sent' # sent
    PROVE  RunInv' /\ turns' = turns /\ run.pc = "execute"
<1>1. run.pc = "execute"
  BY DEF Tools, ApplyFilter, SearchUniversities, AggregateData, Preview, RenderChart,
         RenderForm, RenderCard, GenerateDraft, Executing, RunAt, agentVars
<1>2. turns' = turns
  BY DEF Tools, ApplyFilter, SearchUniversities, AggregateData, Preview, RenderChart,
         RenderForm, RenderCard, GenerateDraft, AgentFrame, agentVars
<1>3. run.executed[Current].src \in Nat
  <2>1. Current \in 1..Len(run.executed) /\ run.executed \in Seq(Call)
    BY <1>1, LenProperties, EmptySeq DEF RunInv, RunRecord, Current
  <2>2. run.executed[Current] \in Call
    BY <2>1, ElementOfSeq
  <2>3. QED
    BY <2>2 DEF Call
<1>4. \/ \E c \in Contents : Says(c) /\ sent' = sent
      \/ \E src \in Nat : Emit(src)
  BY <1>3, ToolSays
<1>5. QED
  BY <1>1, <1>2, <1>4, SaysRun, EmitRun

LEMMA RunStep == RunInv /\ [Next]_vars => RunInv'
<1> SUFFICES ASSUME RunInv, [Next]_vars PROVE RunInv'
  OBVIOUS
<1>1. CASE UNCHANGED agentVars
  BY <1>1 DEF RunInv, agentVars
<1>2. CASE Loop
  <2>1. CASE AnswerFails
    <3>1. run.pc # "idle" /\ turns' = turns
          /\ (Returns("cancelled") \/ Returns("failed"))
      BY <2>1 DEF AnswerFails, RunAt, AgentFrame
    <3>2. sent' \in Seq(Event)
      BY <2>1, StreamedType DEF AnswerFails
    <3>3. QED
      BY <3>1, <3>2, ReturnsRun DEF Outcome
  <2>2. CASE EndTurn
    BY <2>2, NoRunInv DEF EndTurn, RunInv, AgentFrame
  <2>3. QED
    BY <1>2, <2>1, <2>2, BeginRun, IterateRun, AnswerRun, StartRun, EndCallRun DEF Loop
<1>3. CASE Tools
  <2>1. CASE run' # run \/ sent' # sent
    BY <1>3, <2>1, ToolRun
  <2>2. CASE run' = run /\ sent' = sent
    <3>1. turns' = turns
      BY <1>3 DEF Tools, ApplyFilter, SearchUniversities, AggregateData, Preview, RenderChart,
                  RenderForm, RenderCard, GenerateDraft, AgentFrame, agentVars
    <3>2. QED
      BY <2>2, <3>1 DEF RunInv
  <2>3. QED
    BY <2>1, <2>2
<1>4. CASE Panic \/ Restart
  BY <1>4, NoRunInv DEF Panic, Restart, RunInv
<1>5. QED
  BY <1>1, <1>2, <1>3, <1>4 DEF Next, Deadline, vars

LEMMA RunStart == Init => RunInv
<1> SUFFICES ASSUME Init PROVE RunInv
  OBVIOUS
<1>1. run = NoRun /\ sent = <<>> /\ turns = MaxTurns
  BY DEF Init
<1>2. <<>> \in Seq(Event) /\ MaxTurns \in 0..MaxTurns
  BY EmptySeq, AgentAssumption DEF AgentAssumption
<1>3. QED
  BY <1>1, <1>2, NoRunType DEF RunInv

-----------------------------------------------------------------------------
(* How many drafts there are *)

\* The tool runs while its call is executed.
Called ==
    tool.pc # "idle" =>
       RunAt("execute") /\ run.executed[Current].kind = "generate"

\* The tool works on the newest draft, and supersedes none that is generating.
Newest ==
    /\ tool.pc \in {"supersede", "recommend", "ready", "failed"} => tool.draft = Len(drafts)
    /\ tool.pc = "supersede" => drafts[tool.draft].status # "generating"

\* A late draft is the only one, and no call that has checked the conversation can
\* still create another.
LateOnce ==
    /\ \A d, e \in 1..Len(drafts) : drafts[d].late /\ drafts[e].late => d = e
    /\ \A d \in 1..Len(drafts) : drafts[d].late =>
          conversation # "active" /\ tool.pc \notin {"list", "supersede", "create"}

\* A draft that is being generated has its generation, or was hit by a failure.
Attended == \A d \in 1..Len(drafts) : Generating(d) => GeneratedBy(d) \/ d \in hurt

\* The tool refuses for a draft that was hit by a failure.
Refused ==
    /\ tool.pc # "done" => tool.result # "generating"
    /\ tool.result = "generating" => \E d \in hurt : Generating(d)

\* The open drafts among the first n rows of v.
OpenIn(v, n) == {d \in 1..n : v[d].status \in {"generating", "ready"}}

\* All open drafts but the newest were left by a failure each, and so were all when
\* the tool is about to create the next one, unless it will fail.
Paid ==
    /\ Cardinality(OpenIn(drafts, Len(drafts) - 1)) <= Spent
    /\ tool.pc = "create" =>
          expired \/ Cardinality(OpenIn(drafts, Len(drafts))) <= Spent

FewInv == Called /\ Newest /\ LateOnce /\ Attended /\ Refused /\ Paid

LEMMA OpenType ==
    ASSUME NEW v, NEW n \in Int
    PROVE  /\ IsFiniteSet(OpenIn(v, n)) /\ Cardinality(OpenIn(v, n)) \in Nat
<1>1. IsFiniteSet(1..n)
  BY FS_Interval
<1>2. OpenIn(v, n) \in SUBSET (1..n)
  BY DEF OpenIn
<1>3. IsFiniteSet(OpenIn(v, n))
  BY <1>1, <1>2, FS_Subset
<1>4. QED
  BY <1>3, FS_CardinalityType

\* No draft is opened.
NoneOpened(v, w, n) ==
    \A d \in 1..n : w[d].status \in {"generating", "ready"} => v[d].status \in {"generating", "ready"}

\* Fewer open drafts.
LEMMA OpenFalls ==
    ASSUME NEW v, NEW w, NEW n \in Int, NoneOpened(v, w, n)
    PROVE  Cardinality(OpenIn(w, n)) <= Cardinality(OpenIn(v, n))
<1>1. OpenIn(w, n) \in SUBSET OpenIn(v, n)
  BY DEF OpenIn, NoneOpened
<1>2. QED
  BY <1>1, OpenType, FS_Subset

\* One row more is one open draft more, at most.
LEMMA OpenGrows ==
    ASSUME NEW v, NEW n \in Nat
    PROVE  /\ Cardinality(OpenIn(v, n)) <= Cardinality(OpenIn(v, n - 1)) + 1
           /\ ~(n \in 1..n /\ v[n].status \in {"generating", "ready"}) =>
                 Cardinality(OpenIn(v, n)) <= Cardinality(OpenIn(v, n - 1))
<1>1. OpenIn(v, n) \in SUBSET (OpenIn(v, n - 1) \cup {n})
  BY DEF OpenIn
<1>2. /\ IsFiniteSet(OpenIn(v, n - 1) \cup {n})
      /\ Cardinality(OpenIn(v, n - 1) \cup {n}) <= Cardinality(OpenIn(v, n - 1)) + 1
  BY OpenType, FS_AddElement
<1>3. Cardinality(OpenIn(v, n)) <= Cardinality(OpenIn(v, n - 1) \cup {n})
  BY <1>1, <1>2, FS_Subset
<1>4. ASSUME ~(n \in 1..n /\ v[n].status \in {"generating", "ready"})
      PROVE  Cardinality(OpenIn(v, n)) <= Cardinality(OpenIn(v, n - 1))
  <2>1. OpenIn(v, n) \in SUBSET OpenIn(v, n - 1)
    BY <1>4 DEF OpenIn
  <2>2. n - 1 \in Int
    OBVIOUS
  <2>3. QED
    BY <2>1, <2>2, OpenType, FS_Subset
<1>5. QED
  BY <1>2, <1>3, <1>4, OpenType, FS_CardinalityType

\* Rows are left alone or marked, and none is opened, or generated again.
Settled ==
    /\ Len(drafts') = Len(drafts)
    /\ \A d \in 1..Len(drafts) :
          drafts'[d].late = drafts[d].late /\ (Generating(d)' => Generating(d))
    /\ NoneOpened(drafts, drafts', Len(drafts))

\* The tool attends to the draft it is generating, until a failure hits it.
Attends ==
    /\ hurt \subseteq hurt'
    /\ \A d \in 1..Len(drafts) :
          GeneratedBy(d) /\ Generating(d)' => GeneratedBy(d)' \/ d \in hurt'

LEMMA TakenIsSpent ==
    ASSUME NEW m \in Nat, NEW a \in 0..m, NEW b \in 0..a
    PROVE  m - a \in Nat /\ m - b \in Nat /\ m - a <= m - b /\ (b # a => m - a + 1 <= m - b)
OBVIOUS

\* Failures add up.
LEMMA SpentGrows ==
    ASSUME MaxFaults \in Nat, faults \in 0..MaxFaults, faults' \in 0..faults
    PROVE  /\ Spent \in Nat /\ Spent' \in Nat /\ Spent <= Spent'
           /\ faults' # faults => Spent + 1 <= Spent'
<1>1. Spent = MaxFaults - faults /\ Spent' = MaxFaults - faults'
  BY DEF Spent
<1>2. QED
  BY <1>1, TakenIsSpent

\* What was paid for stays so.
LEMMA StaysPaid ==
    ASSUME DraftsInv, faults' \in 0..faults, NEW n \in Int, NEW v, NEW w,
           Cardinality(OpenIn(v, n)) <= Spent, NoneOpened(v, w, n)
    PROVE  Cardinality(OpenIn(w, n)) <= Spent'
<1>1. Cardinality(OpenIn(w, n)) <= Cardinality(OpenIn(v, n))
  BY OpenFalls
<1>2. Spent \in Nat /\ Spent' \in Nat /\ Spent <= Spent'
  BY SpentGrows, DraftsAssumption DEF DraftsInv, Typed, DraftsAssumption
<1>3. Cardinality(OpenIn(v, n)) \in Nat /\ Cardinality(OpenIn(w, n)) \in Nat
  BY OpenType
<1>4. QED
  BY <1>1, <1>2, <1>3

LEMMA SettledFew ==
    ASSUME DraftsInv, FewInv, Settled, Attends, Called', Newest', Refused',
           faults' \in 0..faults,
           conversation # "active" => conversation' # "active",
           tool'.pc \in {"list", "supersede", "create"} =>
              tool.pc \in {"list", "supersede", "create"} \/ conversation = "active",
           tool'.pc = "create" =>
              expired' \/ Cardinality(OpenIn(drafts', Len(drafts))) <= Spent'
    PROVE  FewInv'
<1>1. Len(drafts) \in Nat
  BY RowsAreIds DEF DraftsInv
<1>2. LateOnce'
  BY DEF FewInv, LateOnce, Settled
<1>3. Attended'
  <2> SUFFICES ASSUME NEW d \in 1..Len(drafts), Generating(d)'
               PROVE  GeneratedBy(d)' \/ d \in hurt'
    BY DEF Attended, Settled
  <2>1. GeneratedBy(d) \/ d \in hurt
    BY DEF FewInv, Attended, Settled
  <2>2. QED
    BY <2>1 DEF Attends
<1>4. Cardinality(OpenIn(drafts', Len(drafts) - 1)) <= Spent'
  <2> DEFINE n == Len(drafts) - 1
  <2>1. n \in Int /\ NoneOpened(drafts, drafts', n)
    BY <1>1 DEF Settled, NoneOpened
  <2>2. Cardinality(OpenIn(drafts, n)) <= Spent
    BY DEF FewInv, Paid
  <2> HIDE DEF n
  <2>3. Cardinality(OpenIn(drafts', n)) <= Spent'
    BY <2>1, <2>2, StaysPaid
  <2>4. QED
    BY <2>3 DEF n
<1>5. Paid'
  BY <1>4 DEF Paid, Settled
<1>6. QED
  BY <1>2, <1>3, <1>5 DEF FewInv

\* What a call to a store costs: it fails for nothing only after the end of its context.
LEMMA CallPays ==
    ASSUME faults \in 0..MaxFaults, DraftsAssumption, NEW over, NEW how \in Outcomes(over),
           Pay(how, over)
    PROVE  /\ faults' \in 0..faults
           /\ over => how = "failed"
           /\ how # "done" /\ ~over => faults' # faults
<1>1. MaxFaults \in Nat
  BY DEF DraftsAssumption
<1>2. CASE over
  BY <1>1, <1>2 DEF Outcomes, Pay
<1>3. CASE ~over
  BY <1>1, <1>3 DEF Outcomes, Pay
<1>4. QED
  BY <1>2, <1>3

\* What a request may change, beside its own plan.
RequestEffect(I) ==
    /\ UNCHANGED <<tool, expired, crossed>>
    /\ faults' \in 0..faults
    /\ budget' \in {budget} \/ (budget > 0 /\ budget' = budget - 1)
    /\ conversation' = conversation \/ conversation' \in {"archived", "deleted"}
    /\ drafts' \in Seq(RowOf(I)) /\ Settled
    /\ hurt \subseteq hurt' /\ \A d \in 1..Len(drafts) : Generating(d) => Generating(d)'
    /\ \A p \in Procs : req'[p].draft = 0 \/ req'[p].draft = req[p].draft
                        \/ req'[p].draft \in 1..Len(drafts)

LEMMA SameRowsSettled ==
    ASSUME NEW I, drafts \in Seq(RowOf(I)), UNCHANGED drafts
    PROVE  drafts' \in Seq(RowOf(I)) /\ Settled
BY DEF Settled, NoneOpened, Generating

LEMMA MarkedSettled ==
    ASSUME NEW I, drafts \in Seq(RowOf(I)), NEW d \in 1..Len(drafts),
           NEW from, NEW to \in {"failed", "adopted", "superseded"},
           drafts' = Marked(d, from, to)
    PROVE  /\ drafts' \in Seq(RowOf(I)) /\ Settled
           /\ "generating" \notin from =>
                 \A x \in 1..Len(drafts) : Generating(x) => Generating(x)'
<1>1. to \in Statuses
  BY DEF Statuses
<1>2. QED
  BY <1>1, MarkedRows DEF Settled, NoneOpened, Generating

LEMMA AdoptionEffect ==
    ASSUME DraftsInv, NEW I, drafts \in Seq(RowOf(I)), NEW p \in Procs, AdoptStep(p)
    PROVE  RequestEffect(I)
<1>1. req \in [Procs -> Request] /\ faults \in 0..MaxFaults /\ req[p].pc # "idle"
  BY DEF DraftsInv, Typed, AdoptStep, ReadDraft, InsertPlan, RestorePlan, GetByDraftID,
         MarkAdopted, ArchiveConversation, At
<1>2. req[p].draft \in 1..Len(drafts)
  BY <1>1 DEF DraftsInv, Typed
<1>3. \E pc \in {"insert", "restore", "lookup", "mark", "archive"} : Goes(p, pc) \/ Ends(p)
  BY DEF AdoptStep, ReadDraft, InsertPlan, RestorePlan, GetByDraftID,
         MarkAdopted, ArchiveConversation
<1>4. \A q \in Procs : req'[q].draft = 0 \/ req'[q].draft = req[q].draft
  BY <1>1, <1>3, GoesAreGoesOn, EndsAreOver DEF GoesOn, IsOver, NoRequest
<1>5. faults' \in 0..faults
  <2>1. \E how \in Outcomes(req[p].cut) : Pay(how, req[p].cut)
    BY DEF AdoptStep, ReadDraft, InsertPlan, RestorePlan, GetByDraftID,
           MarkAdopted, ArchiveConversation
  <2>2. QED
    BY <1>1, <2>1, CallPays, DraftsAssumption
<1>6. UNCHANGED <<tool, expired, crossed, budget>>
  BY DEF AdoptStep, ReadDraft, InsertPlan, RestorePlan, GetByDraftID,
         MarkAdopted, ArchiveConversation, RequestFrame
<1>7. hurt \subseteq hurt'
  BY DEF AdoptStep, ReadDraft, InsertPlan, RestorePlan, GetByDraftID,
         MarkAdopted, ArchiveConversation, Hurts
<1>8. drafts' = drafts \/ drafts' = Marked(req[p].draft, {"ready"}, "adopted")
  BY DEF AdoptStep, ReadDraft, InsertPlan, RestorePlan, GetByDraftID,
         MarkAdopted, MarkAdoptedFrom, ArchiveConversation, rows
<1>9. /\ drafts' \in Seq(RowOf(I)) /\ Settled
      /\ \A d \in 1..Len(drafts) : Generating(d) => Generating(d)'
  <2>1. "generating" \notin {"ready"}
    OBVIOUS
  <2>2. QED
    BY <1>2, <1>8, <2>1, SameRowsSettled, MarkedSettled DEF Generating
<1>10. conversation' = conversation \/ conversation' = "archived"
  BY DEF AdoptStep, ReadDraft, InsertPlan, RestorePlan, GetByDraftID,
         MarkAdopted, ArchiveConversation, rows
<1>11. QED
  BY <1>4, <1>5, <1>6, <1>7, <1>9, <1>10 DEF RequestEffect

LEMMA RequestsEffect ==
    ASSUME DraftsInv, NEW I, drafts \in Seq(RowOf(I)), RequestStep
    PROVE  RequestEffect(I)
<1>0. req \in [Procs -> Request] /\ faults \in 0..MaxFaults /\ MaxFaults \in Nat
  BY DraftsAssumption DEF DraftsInv, Typed, DraftsAssumption
<1>1. ASSUME NEW p \in Procs, Adopt(p)
      PROVE  RequestEffect(I)
  <2>1. PICK d \in 1..Len(drafts) :
          req' = [req EXCEPT ![p] = [pc |-> "read", draft |-> d, cut |-> FALSE]]
    BY <1>1 DEF Adopt
  <2>2. \A q \in Procs : req'[q].draft = req[q].draft \/ req'[q].draft \in 1..Len(drafts)
    BY <1>0, <2>1
  <2>3. /\ UNCHANGED <<tool, expired, crossed, hurt, faults, conversation, drafts>>
        /\ budget > 0 /\ budget' = budget - 1
    BY <1>1 DEF Adopt, Arrives, rows
  <2>4. faults' \in 0..faults
    BY <1>0, <2>3
  <2>5. QED
    BY <2>2, <2>3, <2>4, SameRowsSettled DEF RequestEffect, Generating
<1>2. ASSUME NEW p \in Procs, Disconnect(p)
      PROVE  RequestEffect(I)
  <2>1. req' = [req EXCEPT ![p].cut = TRUE]
    BY <1>2 DEF Disconnect
  <2>2. \A q \in Procs : req'[q].draft = req[q].draft
    BY <1>0, <2>1 DEF Request
  <2>3. /\ UNCHANGED <<tool, expired, crossed, hurt, budget, conversation, drafts>>
        /\ faults > 0 /\ faults' = faults - 1
    BY <1>2 DEF Disconnect, RequestFrame, rows
  <2>4. faults' \in 0..faults
    BY <1>0, <2>3
  <2>5. QED
    BY <2>2, <2>3, <2>4, SameRowsSettled DEF RequestEffect, Generating
<1>3. ASSUME NEW d \in 1..Len(drafts), DeletePlan(d)
      PROVE  RequestEffect(I)
  <2>1. /\ UNCHANGED <<tool, expired, crossed, hurt, faults, conversation, drafts, req>>
        /\ budget > 0 /\ budget' = budget - 1
    BY <1>3 DEF DeletePlan, Arrives
  <2>2. faults' \in 0..faults
    BY <1>0, <2>1
  <2>3. QED
    BY <2>1, <2>2, SameRowsSettled DEF RequestEffect, Generating
<1>4. ASSUME NEW s \in {"archived", "deleted"}, SetStatus(s)
      PROVE  RequestEffect(I)
  <2>1. /\ UNCHANGED <<tool, expired, crossed, hurt, faults, drafts, req>>
        /\ conversation' \in {"archived", "deleted"}
        /\ budget > 0 /\ budget' = budget - 1
    BY <1>4 DEF SetStatus, Arrives
  <2>2. faults' \in 0..faults
    BY <1>0, <2>1
  <2>3. QED
    BY <2>1, <2>2, SameRowsSettled DEF RequestEffect, Generating
<1>5. QED
  BY <1>1, <1>2, <1>3, <1>4, AdoptionEffect DEF RequestStep, Archive, DeleteConversation

LEMMA RequestFew ==
    ASSUME DraftsInv, FewInv, RequestStep, run' = run
    PROVE  FewInv'
<1>1. PICK I : drafts \in Seq(RowOf(I))
  BY DEF DraftsInv, Typed, Recorded
<1>2. RequestEffect(I)
  BY <1>1, RequestsEffect
<1>3. Called'
  BY <1>2 DEF FewInv, Called, RequestEffect, RunAt, Current
<1>4. Newest'
  BY <1>2 DEF FewInv, Newest, RequestEffect, Settled, DraftsInv, Announced, Generating
<1>5. Refused'
  BY <1>2 DEF FewInv, Refused, RequestEffect, DraftsInv, Typed, Generating
<1>6. tool'.pc = "create" =>
         expired' \/ Cardinality(OpenIn(drafts', Len(drafts))) <= Spent'
  <2> SUFFICES ASSUME tool.pc = "create", ~expired
               PROVE  Cardinality(OpenIn(drafts', Len(drafts))) <= Spent'
    BY <1>2 DEF RequestEffect
  <2> DEFINE n == Len(drafts)
  <2>1. n \in Int /\ NoneOpened(drafts, drafts', n)
    BY <1>2, RowsAreIds DEF RequestEffect, Settled, DraftsInv
  <2>2. Cardinality(OpenIn(drafts, n)) <= Spent /\ faults' \in 0..faults
    BY <1>2 DEF FewInv, Paid, RequestEffect
  <2> HIDE DEF n
  <2>3. Cardinality(OpenIn(drafts', n)) <= Spent'
    BY <2>1, <2>2, StaysPaid
  <2>4. QED
    BY <2>3 DEF n
<1>7. Attends
  BY <1>2 DEF RequestEffect, Attends, GeneratedBy
<1>8. QED
  BY <1>2, <1>3, <1>4, <1>5, <1>6, <1>7, SettledFew DEF RequestEffect

\* The steps of the tool.  None but the reading of the newest draft refuses.
LEMMA NotRefused ==
    ASSUME NEW I, NEW pc, NEW d, NEW r, ToolMoves(I, pc, d, r), r # "generating"
    PROVE  Refused'
BY DEF ToolMoves, Refused

LEMMA CheckFew ==
    ASSUME DraftsInv, FewInv, CheckConversation, UNCHANGED run
    PROVE  FewInv'
<1>1. PICK I : tool \in ToolOf(I) /\ drafts \in Seq(RowOf(I))
  BY DEF DraftsInv, Typed, Recorded
<1>2. PICK how \in Outcomes(expired) \ {"lost"} :
        /\ Pay(how, expired)
        /\ \/ conversation = "active" /\ ToolGoes("list")
           \/ ToolEnds("refused")
  BY DEF CheckConversation
<1>3. UNCHANGED <<drafts, conversation, expired, hurt>> /\ tool.pc = "conversation"
  BY DEF CheckConversation, ToolFrame, ToolAt
<1>4. faults' \in 0..faults
  BY <1>2, CallPays, DraftsAssumption DEF DraftsInv, Typed
<1>5. \/ conversation = "active" /\ ToolMoves(I, "list", tool.draft, tool.result)
      \/ ToolMoves(I, "done", tool.draft, "refused")
  BY <1>1, <1>2, ToolGoesMoves, ToolEndsMoves DEF Results
<1>6. /\ tool'.pc \in {"list", "done"} /\ (tool'.pc = "list" => conversation = "active")
  BY <1>5 DEF ToolMoves
<1>7. Settled
  BY <1>1, <1>3, SameRowsSettled
<1>8. Called' /\ Newest'
  BY <1>3, <1>6 DEF FewInv, Called, Newest, RunAt, Current
<1>9. Refused'
  BY <1>3, <1>5, NotRefused DEF FewInv, Refused
<1>10. QED
  BY <1>3, <1>4, <1>6, <1>7, <1>8, <1>9, SettledFew DEF Attends, GeneratedBy

LEMMA RecommendFew ==
    ASSUME DraftsInv, FewInv, RecommendPlan, UNCHANGED run
    PROVE  FewInv'
<1>1. PICK I : tool \in ToolOf(I) /\ drafts \in Seq(RowOf(I))
  BY DEF DraftsInv, Typed, Recorded
<1>2. UNCHANGED <<drafts, conversation, expired, faults, hurt>> /\ tool.pc = "recommend"
      /\ (ToolGoes("ready") \/ ToolGoes("failed"))
  BY DEF RecommendPlan, ToolFrame, ToolAt
<1>3. \E pc \in {"ready", "failed"} : ToolMoves(I, pc, tool.draft, tool.result)
  BY <1>1, <1>2, ToolGoesMoves
<1>4. tool'.pc \in {"ready", "failed"} /\ tool'.draft = tool.draft
  BY <1>3 DEF ToolMoves
<1>5. Settled
  BY <1>1, <1>2, SameRowsSettled
<1>6. Called' /\ Newest'
  BY <1>2, <1>4 DEF FewInv, Called, Newest, RunAt, Current
<1>7. Refused'
  BY <1>2, <1>3, NotRefused DEF FewInv, Refused
<1>8. faults' \in 0..faults
  BY <1>2, DraftsAssumption DEF DraftsInv, Typed, DraftsAssumption
<1>9. QED
  BY <1>2, <1>4, <1>5, <1>6, <1>7, <1>8, SettledFew DEF Attends, GeneratedBy

\* Before the next draft the older ones are paid for, if the newest is not open any
\* more, or was left open by a failure.
LEMMA OlderPaid ==
    ASSUME DraftsInv, FewInv, faults' \in 0..faults, NEW n, n = Len(drafts), NEW v,
           NoneOpened(drafts, v, n - 1),
           n \in 1..n => v[n].status \notin {"generating", "ready"} \/ faults' # faults
    PROVE  Cardinality(OpenIn(v, n)) <= Spent'
<1> DEFINE m == n - 1
<1>1. n \in Nat /\ m \in Int
  BY RowsAreIds DEF DraftsInv
<1>2. Spent \in Nat /\ Spent' \in Nat /\ Spent <= Spent' /\ (faults' # faults => Spent + 1 <= Spent')
  BY SpentGrows, DraftsAssumption DEF DraftsInv, Typed, DraftsAssumption
<1>3. Cardinality(OpenIn(drafts, m)) <= Spent
  BY DEF FewInv, Paid
<1>4. /\ Cardinality(OpenIn(v, n)) <= Cardinality(OpenIn(v, m)) + 1
      /\ ~(n \in 1..n /\ v[n].status \in {"generating", "ready"}) =>
            Cardinality(OpenIn(v, n)) <= Cardinality(OpenIn(v, m))
  BY <1>1, OpenGrows
<1> HIDE DEF m
<1>5. Cardinality(OpenIn(v, m)) <= Cardinality(OpenIn(drafts, m))
  BY <1>1, OpenFalls DEF m
<1>6. /\ Cardinality(OpenIn(drafts, m)) \in Nat /\ Cardinality(OpenIn(v, m)) \in Nat
      /\ Cardinality(OpenIn(v, n)) \in Nat
  BY <1>1, OpenType
<1>7. QED
  BY <1>2, <1>3, <1>4, <1>5, <1>6

LEMMA ListFew ==
    ASSUME DraftsInv, FewInv, ListDrafts, UNCHANGED run
    PROVE  FewInv'
<1> DEFINE n == Len(drafts)
<1>1. PICK I : tool \in ToolOf(I) /\ drafts \in Seq(RowOf(I))
  BY DEF DraftsInv, Typed, Recorded
<1>2. PICK how \in Outcomes(expired) \ {"lost"} :
        /\ Pay(how, expired)
        /\ LET found  == how = "done" /\ n > 0
               status == IF found THEN drafts[n].status ELSE None
           IN \/ /\ status = "generating"
                 /\ ToolEnds("generating")
              \/ /\ status = "ready" /\ Reusable(n)
                 /\ tool' = [tool EXCEPT !.pc = "done", !.result = "reused", !.draft = n]
              \/ /\ status = "ready" /\ ~Reusable(n)
                 /\ tool' = [tool EXCEPT !.pc = "supersede", !.draft = n]
              \/ /\ status \notin {"generating", "ready"}
                 /\ ToolGoes("create")
  BY DEF ListDrafts
<1>3. UNCHANGED <<drafts, conversation, expired, hurt>> /\ tool.pc = "list"
  BY DEF ListDrafts, ToolFrame, ToolAt
<1>4. faults' \in 0..faults /\ (how # "done" => expired \/ faults' # faults) /\ n \in Nat
  BY <1>2, CallPays, RowsAreIds, DraftsAssumption DEF DraftsInv, Typed
<1>5. None # "generating" /\ None # "ready" /\ tool.result # "generating"
  BY <1>3, DraftsAssumption DEF DraftsAssumption, FewInv, Refused
<1>6. \/ tool'.pc = "done" /\ tool'.result # "generating"
      \/ /\ tool'.pc = "done" /\ tool'.result = "generating"
         /\ n > 0 /\ drafts[n].status = "generating"
      \/ /\ tool'.pc = "supersede" /\ tool'.draft = n /\ tool'.result = tool.result
         /\ drafts[n].status = "ready"
      \/ /\ tool'.pc = "create" /\ tool'.result = tool.result
         /\ ~(how = "done" /\ n > 0 /\ drafts[n].status \in {"generating", "ready"})
  <2>1. ASSUME tool' = [tool EXCEPT !.pc = "done", !.result = "reused", !.draft = n]
        PROVE  tool'.pc = "done" /\ tool'.result # "generating"
    BY <1>1, <2>1 DEF ToolOf
  <2>2. ASSUME tool' = [tool EXCEPT !.pc = "supersede", !.draft = n]
        PROVE  tool'.pc = "supersede" /\ tool'.draft = n /\ tool'.result = tool.result
    BY <1>1, <2>2 DEF ToolOf
  <2>3. ASSUME ToolEnds("generating") PROVE tool'.pc = "done" /\ tool'.result = "generating"
    BY <1>1, <2>3 DEF ToolEnds, ToolOf
  <2>4. ASSUME ToolGoes("create") PROVE tool'.pc = "create" /\ tool'.result = tool.result
    BY <1>1, <2>4 DEF ToolGoes, ToolOf
  <2>5. QED
    BY <1>2, <1>5, <2>1, <2>2, <2>3, <2>4
<1>7. Settled
  BY <1>1, <1>3, SameRowsSettled
<1>8. Called' /\ Newest'
  BY <1>3, <1>6 DEF FewInv, Called, Newest, RunAt, Current
<1>9. Refused'
  <2>1. ASSUME n > 0, drafts[n].status = "generating"
        PROVE  n \in hurt' /\ Generating(n)'
    BY <1>3, <1>4, <2>1 DEF FewInv, Attended, Generating, GeneratedBy
  <2>2. tool'.result = "generating" => \E d \in hurt' : drafts'[d].status = "generating"
    <3>1. ASSUME n > 0, drafts[n].status = "generating"
          PROVE  \E d \in hurt' : drafts'[d].status = "generating"
      BY <1>3, <2>1, <3>1
    <3>2. QED
      BY <1>5, <1>6, <3>1
  <2>3. QED
    BY <1>5, <1>6, <2>2 DEF Refused, Generating
<1>10. tool'.pc = "create" => expired' \/ Cardinality(OpenIn(drafts', n)) <= Spent'
  <2> SUFFICES ASSUME tool'.pc = "create", ~expired'
               PROVE  Cardinality(OpenIn(drafts', n)) <= Spent'
    OBVIOUS
  <2>1. n \in 1..n => drafts'[n].status \notin {"generating", "ready"} \/ faults' # faults
    BY <1>3, <1>4, <1>6
  <2>2. NoneOpened(drafts, drafts', n - 1)
    BY <1>3 DEF NoneOpened
  <2>3. QED
    BY <1>4, <2>1, <2>2, OlderPaid
<1>11. Attends
  BY <1>3 DEF Attends, GeneratedBy
<1>12. tool'.pc \in {"list", "supersede", "create"} => tool.pc \in {"list", "supersede", "create"}
  BY <1>3
<1>13. QED
  BY <1>3, <1>4, <1>7, <1>8, <1>9, <1>10, <1>11, <1>12, SettledFew

LEMMA SupersedeFew ==
    ASSUME DraftsInv, FewInv, Supersede, UNCHANGED run
    PROVE  FewInv'
<1> DEFINE d == tool.draft
           n == Len(drafts)
<1>1. PICK I : tool \in ToolOf(I) /\ drafts \in Seq(RowOf(I))
  BY DEF DraftsInv, Typed, Recorded
<1>2. PICK how \in Outcomes(expired) :
        /\ Pay(how, expired)
        /\ drafts' = IF how = "failed" THEN drafts ELSE Marked(d, {"ready"}, "superseded")
  BY DEF Supersede, MarkSupersededFrom
<1>3. UNCHANGED <<conversation, expired, hurt>> /\ tool.pc = "supersede" /\ ToolGoes("create")
  BY DEF Supersede, ToolFrame, ToolAt
<1>4. faults' \in 0..faults /\ (how # "done" => expired \/ faults' # faults)
  BY <1>2, CallPays, DraftsAssumption DEF DraftsInv, Typed
<1>5. d \in 1..Len(drafts) /\ d = n /\ drafts[d].status # "generating"
  BY <1>3 DEF DraftsInv, Announced, FewInv, Newest
<1>6. ToolMoves(I, "create", d, tool.result) /\ tool.result # "generating"
  BY <1>1, <1>3, ToolGoesMoves DEF FewInv, Refused
<1>7. tool'.pc = "create" /\ Refused'
  BY <1>6, NotRefused DEF ToolMoves
<1>8. Settled /\ (how # "failed" => drafts'[n].status \notin {"generating", "ready"})
  <2>1. CASE how = "failed"
    BY <1>1, <1>2, <2>1, SameRowsSettled
  <2>2. CASE how # "failed"
    <3>1. "superseded" \in Statuses
      BY DEF Statuses
    <3>2. Settled
      BY <1>1, <1>2, <1>5, <2>2, MarkedSettled
    <3>3. drafts'[d].status = IF drafts[d].status \in {"ready"}
                              THEN "superseded" ELSE drafts[d].status
      BY <1>1, <1>2, <1>5, <2>2, <3>1, MarkedRows
    <3>4. QED
      BY <1>5, <2>2, <3>2, <3>3
  <2>3. QED
    BY <2>1, <2>2
<1>9. Called' /\ Newest'
  BY <1>3, <1>7 DEF FewInv, Called, Newest, RunAt, Current
<1>10. expired' \/ Cardinality(OpenIn(drafts', n)) <= Spent'
  <2> SUFFICES ASSUME ~expired PROVE Cardinality(OpenIn(drafts', n)) <= Spent'
    BY <1>3
  <2>1. drafts'[n].status \notin {"generating", "ready"} \/ faults' # faults
    BY <1>4, <1>8
  <2>2. NoneOpened(drafts, drafts', n - 1)
    BY <1>8, RowsAreIds DEF DraftsInv, Settled, NoneOpened
  <2>3. QED
    BY <1>4, <2>1, <2>2, OlderPaid
<1>11. Attends
  BY <1>3 DEF Attends, GeneratedBy
<1>12. QED
  BY <1>3, <1>4, <1>7, <1>8, <1>9, <1>10, <1>11, SettledFew

\* The tool marks its own draft, which is the newest.
LEMMA OwnDraftFew ==
    ASSUME DraftsInv, FewInv, MarkReady \/ MarkFailed, UNCHANGED run
    PROVE  FewInv'
<1> DEFINE d == tool.draft
           n == Len(drafts)
<1>1. PICK I : tool \in ToolOf(I) /\ drafts \in Seq(RowOf(I))
  BY DEF DraftsInv, Typed, Recorded
<1>2. UNCHANGED <<conversation, expired>> /\ tool.pc \in {"ready", "failed"}
  BY DEF MarkReady, MarkFailed, ToolFrame, ToolAt
<1>3. d \in 1..n /\ d = n
  BY <1>2 DEF DraftsInv, Announced, FewInv, Newest
<1>4. PICK how \in Outcomes(expired) :
        /\ Pay(how, expired)
        /\ \/ /\ drafts' = IF how = "failed" THEN drafts
                           ELSE Marked(d, {"generating"}, "ready")
              /\ IF how = "done" /\ InState(d, {"generating"})
                 THEN ToolEnds("ready") ELSE ToolGoes("failed")
              /\ Hurts(d, how = "lost")
           \/ /\ drafts' = IF how = "failed" THEN drafts
                           ELSE Marked(d, {"generating", "ready"}, "failed")
              /\ ToolEnds("failed")
              /\ Hurts(d, how = "failed")
  BY DEF MarkReady, MarkFailed, MarkReadyFrom, MarkFailedFrom
<1>5. faults' \in 0..faults
  BY <1>4, CallPays, DraftsAssumption DEF DraftsInv, Typed
<1>6. \/ ToolMoves(I, "done", d, "failed") \/ ToolMoves(I, "done", d, "ready")
      \/ ToolMoves(I, "failed", d, tool.result)
  BY <1>1, <1>4, ToolGoesMoves, ToolEndsMoves DEF Results
<1>7. tool'.pc \in {"done", "failed"} /\ tool'.draft = d
  BY <1>6 DEF ToolMoves
<1>8. Refused'
  BY <1>2, <1>6, NotRefused DEF FewInv, Refused
<1>9. /\ Len(drafts') = n
      /\ \A x \in 1..n :
            /\ drafts'[x].late = drafts[x].late
            /\ \/ drafts'[x].status = drafts[x].status
               \/ x = d /\ drafts[d].status = "generating" /\ drafts'[d].status = "ready"
               \/ /\ x = d /\ drafts[d].status \in {"generating", "ready"}
                  /\ drafts'[d].status = "failed"
      /\ how # "failed" => drafts'[d].status # "generating"
  <2>1. CASE drafts' = drafts /\ how = "failed"
    BY <2>1
  <2>2. CASE how # "failed"
    <3>1. "ready" \in Statuses /\ "failed" \in Statuses
      BY DEF Statuses
    <3>2. QED
      BY <1>1, <1>3, <1>4, <2>2, <3>1, MarkedRows
  <2>3. QED
    BY <1>4, <2>1, <2>2
<1>10. Settled
  BY <1>9 DEF Settled, NoneOpened, Generating
<1>11. Called' /\ Newest'
  BY <1>2, <1>3, <1>7, <1>9 DEF FewInv, Called, Newest, RunAt, Current
<1>12. Attends
  <2>1. hurt \subseteq hurt'
    BY <1>4 DEF Hurts
  <2>2. how = "failed" => tool'.pc = "failed" \/ d \in hurt'
    <3>1. ASSUME how = "failed", ToolGoes("failed") PROVE tool'.pc = "failed"
      BY <1>1, <3>1 DEF ToolGoes, ToolOf
    <3>2. QED
      BY <1>4, <3>1 DEF Hurts
  <2>3. ASSUME NEW x \in 1..Len(drafts), GeneratedBy(x), Generating(x)'
        PROVE  GeneratedBy(x)' \/ x \in hurt'
    BY <1>7, <1>9, <2>2, <2>3 DEF GeneratedBy, Generating
  <2>4. QED
    BY <2>1, <2>3 DEF Attends
<1>13. QED
  BY <1>2, <1>5, <1>7, <1>8, <1>10, <1>11, <1>12, SettledFew

\* The next draft is created when the older ones are paid for.
LEMMA CreateFew ==
    ASSUME DraftsInv, FewInv, CreateDraft, UNCHANGED run
    PROVE  FewInv'
<1> DEFINE k == Len(drafts)
           n == k + 1
<1>1. PICK I : drafts \in Seq(RowOf(I)) /\ tool \in ToolOf(I)
  BY DEF DraftsInv, Typed, Recorded
<1>2. PICK how \in Outcomes(expired) :
        /\ Pay(how, expired) /\ Hurts(n, how = "lost")
        /\ \/ ToolEnds("failed") /\ UNCHANGED drafts
           \/ /\ how # "failed"
              /\ drafts' = Append(drafts, [status |-> "generating", input |-> tool.input,
                                           late |-> conversation # "active"])
              /\ IF how = "lost" THEN ToolEnds("failed")
                 ELSE tool' = [tool EXCEPT !.pc = "recommend", !.draft = n]
  BY DEF CreateDraft
<1>3. /\ UNCHANGED <<conversation, expired>> /\ tool.pc = "create"
      /\ hurt \subseteq hurt' /\ (how = "lost" => n \in hurt')
  BY <1>2 DEF CreateDraft, ToolFrame, ToolAt, Hurts
<1>4. /\ faults' \in 0..faults /\ (expired => how = "failed") /\ k \in Nat
  BY <1>2, CallPays, RowsAreIds, DraftsAssumption DEF DraftsInv, Typed
<1>5. tool.result # "generating"
  BY <1>3 DEF FewInv, Refused
<1>6. CASE ToolEnds("failed") /\ UNCHANGED drafts
  <2>1. ToolMoves(I, "done", tool.draft, "failed")
    BY <1>1, <1>6, ToolEndsMoves DEF Results
  <2>2. tool'.pc = "done" /\ Refused'
    BY <2>1, NotRefused DEF ToolMoves
  <2>3. Settled
    BY <1>1, <1>6, SameRowsSettled
  <2>4. Called' /\ Newest'
    BY <1>3, <2>2 DEF FewInv, Called, Newest, RunAt, Current
  <2>5. Attends
    BY <1>3 DEF Attends, GeneratedBy
  <2>6. QED
    BY <1>3, <1>4, <2>2, <2>3, <2>4, <2>5, SettledFew
<1>7. CASE ~(ToolEnds("failed") /\ UNCHANGED drafts)
  <2>1. /\ how # "failed" /\ ~expired
        /\ drafts' = Append(drafts, [status |-> "generating", input |-> tool.input,
                                     late |-> conversation # "active"])
        /\ \/ how = "lost" /\ ToolEnds("failed")
           \/ how # "lost" /\ tool' = [tool EXCEPT !.pc = "recommend", !.draft = n]
    BY <1>2, <1>4, <1>7
  <2>2. (conversation # "active") \in BOOLEAN
    OBVIOUS
  <2>3. /\ Len(drafts') = n
        /\ \A d \in 1..k : drafts'[d] = drafts[d]
        /\ drafts'[n].status = "generating" /\ drafts'[n].late = (conversation # "active")
    BY <1>1, <2>1, <2>2, AddedRow
  <2>4. /\ \/ how = "lost" /\ tool'.pc = "done"
           \/ how # "lost" /\ tool'.pc = "recommend" /\ tool'.draft = n
        /\ tool'.result # "generating"
    <3>1. ASSUME ToolEnds("failed") PROVE tool'.pc = "done" /\ tool'.result # "generating"
      BY <1>1, <3>1 DEF ToolEnds, ToolOf
    <3>2. ASSUME tool' = [tool EXCEPT !.pc = "recommend", !.draft = n]
          PROVE  tool'.pc = "recommend" /\ tool'.draft = n /\ tool'.result # "generating"
      BY <1>1, <1>5, <3>2 DEF ToolOf
    <3>3. QED
      BY <2>1, <3>1, <3>2
  <2>5. \A d \in 1..n : d \in 1..k \/ d = n
    BY <1>4
  <2> HIDE DEF n
  <2>6. Called' /\ Newest' /\ Refused'
    BY <1>3, <2>3, <2>4 DEF FewInv, Called, Newest, Refused, RunAt, Current
  <2>7. LateOnce'
    <3>1. \A d \in 1..k : ~drafts[d].late
      BY <1>3 DEF FewInv, LateOnce
    <3>2. \A d \in 1..n : drafts'[d].late => d = n /\ conversation # "active"
      BY <2>3, <2>5, <3>1
    <3>3. tool'.pc \notin {"list", "supersede", "create"}
      BY <2>4
    <3>4. QED
      BY <1>3, <2>3, <3>2, <3>3 DEF LateOnce
  <2>8. Attended'
    <3>1. ASSUME NEW d \in 1..n, drafts'[d].status = "generating"
          PROVE  GeneratedBy(d)' \/ d \in hurt'
      <4>1. CASE d \in 1..k
        BY <1>3, <2>3, <3>1, <4>1 DEF FewInv, Attended, Generating, GeneratedBy
      <4>2. CASE d = n
        BY <1>3, <2>4, <4>2 DEF GeneratedBy
      <4>3. QED
        BY <2>5, <4>1, <4>2
    <3>2. QED
      BY <2>3, <3>1 DEF Attended, Generating
  <2>9. Cardinality(OpenIn(drafts', k)) <= Spent'
    <3>1. k \in Int /\ NoneOpened(drafts, drafts', k)
      BY <1>4, <2>3 DEF NoneOpened
    <3>2. Cardinality(OpenIn(drafts, k)) <= Spent
      BY <1>3, <2>1 DEF FewInv, Paid
    <3> HIDE DEF k
    <3>3. QED
      BY <1>4, <3>1, <3>2, StaysPaid
  <2>10. Len(drafts') - 1 = k
    BY <1>4, <2>3 DEF n
  <2>11. tool'.pc # "create"
    BY <2>4
  <2>12. Paid'
    BY <2>9, <2>10, <2>11 DEF Paid
  <2>13. QED
    BY <2>6, <2>7, <2>8, <2>12 DEF FewInv
<1>8. QED
  BY <1>6, <1>7

\* The agent and the accidents leave the rows alone; the tool goes on, or is called,
\* or forgets a draft only after it or for a failure.
LEMMA QuietFew ==
    ASSUME DraftsInv, FewInv, UNCHANGED <<conversation, drafts>>, Called', faults' \in 0..faults,
           hurt \subseteq hurt',
           \/ UNCHANGED tool /\ (tool.pc = "create" /\ expired => expired')
           \/ /\ tool'.pc \in {"idle", "conversation"} /\ tool'.result = None
              /\ \A d \in 1..Len(drafts) : GeneratedBy(d) => d \in hurt'
    PROVE  FewInv'
<1>1. PICK I : drafts \in Seq(RowOf(I))
  BY DEF DraftsInv, Typed, Recorded
<1>2. Settled
  BY <1>1, SameRowsSettled
<1>3. Newest'
  BY DEF FewInv, Newest
<1>4. Refused'
  BY DraftsAssumption DEF FewInv, Refused, Generating, DraftsAssumption
<1>5. Attends
  BY DEF Attends, GeneratedBy
<1>6. tool'.pc = "create" => expired' \/ Cardinality(OpenIn(drafts', Len(drafts))) <= Spent'
  <2> SUFFICES ASSUME tool'.pc = "create", ~expired'
               PROVE  Cardinality(OpenIn(drafts', Len(drafts))) <= Spent'
    OBVIOUS
  <2>1. Cardinality(OpenIn(drafts, Len(drafts))) <= Spent
    BY DEF FewInv, Paid
  <2>2. NoneOpened(drafts, drafts', Len(drafts)) /\ Len(drafts) \in Int
    BY RowsAreIds DEF DraftsInv, NoneOpened
  <2>3. QED
    BY <2>1, <2>2, StaysPaid
<1>7. QED
  BY <1>2, <1>3, <1>4, <1>5, <1>6, SettledFew

\* The loop moves when the tool is idle; the call it starts may be the tool's.
LEMMA LoopFew ==
    ASSUME DraftsInv, RunInv, FewInv, Loop
    PROVE  FewInv'
<1>1. UNCHANGED <<conversation, drafts, faults, hurt>> /\ ~RunAt("execute")
  BY DEF Loop, BeginTurn, Iterate, Answer, AnswerFails, StartCall, EndCall, EndTurn,
         RunAt, AgentFrame, draftVars, rows
<1>2. tool.pc = "idle"
  BY <1>1 DEF FewInv, Called
<1>3. faults' \in 0..faults
  BY <1>1 DEF DraftsInv, Typed
<1>4. \/ UNCHANGED tool
      \/ /\ StartCall
         /\ tool' = [NoTool EXCEPT !.pc = "conversation", !.input = Head(run.todo).input]
         /\ Head(run.todo).kind = "generate" /\ run'.pc # "returned"
  <2>1. CASE StartCall
    <3>1. CASE expired
      BY <2>1, <3>1 DEF StartCall
    <3>2. CASE ~expired
      <4>1. run'.pc = "execute"
        BY <2>1, <3>2 DEF StartCall, RunInv, RunRecord
      <4>2. QED
        BY <2>1, <3>2, <4>1 DEF StartCall
    <3>3. QED
      BY <3>1, <3>2
  <2>2. CASE ~StartCall
    BY <2>2 DEF Loop, BeginTurn, Iterate, Answer, AnswerFails, EndCall, EndTurn,
                AgentFrame, draftVars
  <2>3. QED
    BY <2>1, <2>2
<1>5. CASE UNCHANGED tool
  <2>1. Called'
    BY <1>2, <1>5 DEF Called
  <2>2. QED
    BY <1>1, <1>2, <1>3, <1>5, <2>1, QuietFew
<1>6. CASE /\ StartCall
           /\ tool' = [NoTool EXCEPT !.pc = "conversation", !.input = Head(run.todo).input]
           /\ Head(run.todo).kind = "generate" /\ run'.pc # "returned"
  <2>1. Called'
    BY <1>6, StartRun DEF Called, RunAt, Current
  <2>2. tool'.pc = "conversation" /\ tool'.result = None
    BY <1>6 DEF NoTool
  <2>3. QED
    BY <1>1, <1>2, <1>3, <2>1, <2>2, QuietFew DEF GeneratedBy
<1>7. QED
  BY <1>4, <1>5, <1>6

LEMMA ToolsFew ==
    ASSUME DraftsInv, FewInv, Tools
    PROVE  FewInv'
<1>1. CASE GenerateStep /\ UNCHANGED agentVars
  <2>1. UNCHANGED run
    BY <1>1 DEF agentVars
  <2>2. QED
    BY <1>1, <2>1, CheckFew, ListFew, SupersedeFew, CreateFew, RecommendFew, OwnDraftFew
       DEF GenerateStep
<1>2. CASE ToolAt("done") /\ tool' = NoTool /\ UNCHANGED <<conversation, drafts, faults, hurt>>
  <2>1. tool'.pc = "idle" /\ tool'.result = None /\ tool.pc = "done" /\ faults' \in 0..faults
    BY <1>2 DEF NoTool, ToolAt, DraftsInv, Typed
  <2>2. Called'
    BY <2>1 DEF Called
  <2>3. QED
    BY <1>2, <2>1, <2>2, QuietFew DEF GeneratedBy
<1>3. CASE AgentFrame /\ ~Executing({"generate"})
  <2>1. UNCHANGED <<conversation, drafts, faults, tool, expired, hurt>> /\ faults' \in 0..faults
    BY <1>3 DEF AgentFrame, draftVars, rows, DraftsInv, Typed
  <2>2. tool.pc = "idle"
    BY <1>3 DEF FewInv, Called, Executing
  <2>3. Called'
    BY <2>1, <2>2 DEF Called
  <2>4. QED
    BY <2>1, <2>3, QuietFew
<1>4. QED
  <2>1. CASE GenerateDraft
    BY <1>1, <1>2, <2>1 DEF GenerateDraft, rows
  <2>2. CASE ~GenerateDraft
    BY <1>3, <2>2 DEF Tools, ApplyFilter, SearchUniversities, AggregateData, Preview,
                      RenderChart, RenderForm, RenderCard, Executing
  <2>3. QED
    BY <2>1, <2>2

LEMMA AccidentFew ==
    ASSUME DraftsInv, FewInv, Deadline \/ Panic \/ Restart
    PROVE  FewInv'
<1>1. /\ UNCHANGED <<conversation, drafts>> /\ faults > 0 /\ faults' = faults - 1
      /\ faults \in 0..MaxFaults /\ MaxFaults \in Nat
  BY DraftsAssumption DEF Deadline, Panic, Restart, rows, DraftsInv, Typed, DraftsAssumption
<1>2. faults' \in 0..faults
  BY <1>1
<1>3. CASE Deadline
  <2>1. UNCHANGED <<tool, run, hurt>> /\ expired'
    BY <1>3 DEF Deadline, agentVars
  <2>2. Called'
    BY <2>1 DEF FewInv, Called, RunAt, Current
  <2>3. QED
    BY <1>1, <1>2, <2>1, <2>2, QuietFew
<1>4. CASE Panic \/ Restart
  <2>1. /\ tool'.pc = "idle" /\ tool'.result = None
        /\ hurt \subseteq hurt' /\ OwnDraft \subseteq hurt'
    BY <1>4 DEF Panic, Restart, NoTool
  <2>2. Called'
    BY <2>1 DEF Called
  <2>3. QED
    BY <1>1, <1>2, <2>1, <2>2, QuietFew DEF OwnDraft
<1>5. QED
  BY <1>3, <1>4

LEMMA FewStep == DraftsInv /\ RunInv /\ FewInv /\ [Next]_vars => FewInv'
<1> SUFFICES ASSUME DraftsInv, RunInv, FewInv, [Next]_vars PROVE FewInv'
  OBVIOUS
<1>1. CASE RequestStep /\ UNCHANGED agentVars
  BY <1>1, RequestFew DEF agentVars
<1>2. CASE UNCHANGED vars
  <2>1. UNCHANGED <<conversation, drafts, tool, expired, faults, hurt, run>>
        /\ faults' \in 0..faults
    BY <1>2 DEF vars, draftVars, agentVars, rows, DraftsInv, Typed
  <2>2. Called'
    BY <2>1 DEF FewInv, Called, RunAt, Current
  <2>3. QED
    BY <2>1, <2>2, QuietFew
<1>3. QED
  BY <1>1, <1>2, LoopFew, ToolsFew, AccidentFew DEF Next

LEMMA FewStart == Init => FewInv
<1> SUFFICES ASSUME Init PROVE FewInv
  OBVIOUS
<1>1. /\ drafts = <<>> /\ tool.pc = "idle" /\ tool.result = None /\ conversation = "active" /\ faults = MaxFaults
  BY DEF Init, DraftsInit, NoTool
<1>2. Len(drafts) = 0
  BY <1>1
<1>3. Called /\ Newest /\ LateOnce /\ Attended /\ Refused
  BY <1>1, <1>2, DraftsAssumption
     DEF Called, Newest, LateOnce, Attended, Refused, DraftsAssumption
<1>4. Spent = 0
  BY <1>1, DraftsAssumption DEF Spent, DraftsAssumption
<1>5. OpenIn(drafts, Len(drafts) - 1) = {}
  BY <1>2 DEF OpenIn
<1>6. Cardinality({}) = 0
  BY FS_EmptySet
<1>7. Cardinality(OpenIn(drafts, Len(drafts) - 1)) = 0
  BY <1>5, <1>6
<1>8. Paid
  BY <1>1, <1>4, <1>7 DEF Paid
<1>9. QED
  BY <1>3, <1>8 DEF FewInv

-----------------------------------------------------------------------------
(* Types *)

\* The tool was called for some input, that of the rows it creates.
ToolTyped ==
    /\ tool \in ToolOf(Inputs \cup {None}) /\ tool.draft <= MaxDrafts
    /\ tool.pc # "idle" => tool.input \in Inputs

RowsTyped == drafts \in Seq(RowOf(Inputs))

RestTyped ==
    /\ conversation \in {"active", "archived", "deleted"} /\ expired \in BOOLEAN
    /\ budget \in 0..MaxRequests /\ crossed \subseteq Ids
    /\ \A p \in Procs : req[p].draft <= MaxDrafts

TypeInv == ToolTyped /\ RowsTyped /\ RestTyped

LEMMA RequestTypes ==
    ASSUME DraftsInv, TypeInv, RequestStep
    PROVE  TypeInv'
<1>1. RequestEffect(Inputs)
  BY RequestsEffect DEF TypeInv, RowsTyped
<1>2. ToolTyped' /\ RowsTyped'
  BY <1>1 DEF RequestEffect, TypeInv, ToolTyped, RowsTyped
<1>3. budget' \in 0..MaxRequests
  BY <1>1, DraftsAssumption DEF RequestEffect, TypeInv, RestTyped, DraftsAssumption
<1>4. \A p \in Procs : req'[p].draft <= MaxDrafts
  <2>1. Len(drafts) \in Nat /\ Len(drafts) <= MaxDrafts /\ MaxDrafts \in Nat
    BY RowsAreIds, DraftsAssumption DEF DraftsInv, Typed, DraftsAssumption
  <2>2. QED
    BY <1>1, <2>1 DEF RequestEffect, TypeInv, RestTyped
<1>5. conversation' \in {"active", "archived", "deleted"} /\ expired' \in BOOLEAN /\ crossed' \subseteq Ids
  BY <1>1 DEF RequestEffect, TypeInv, RestTyped
<1>6. QED
  BY <1>2, <1>3, <1>4, <1>5 DEF TypeInv, RestTyped

\* What the generation does to the rows and to the tool.
LEMMA GenerateTypes ==
    ASSUME DraftsInv, TypeInv, GenerateStep
    PROVE  TypeInv'
<1> DEFINE I == Inputs \cup {None}
           n == Len(drafts)
<1>1. /\ tool \in ToolOf(I) /\ tool.draft \in Nat /\ tool.draft <= MaxDrafts /\ tool.pc # "idle"
      /\ tool.input \in Inputs /\ drafts \in Seq(RowOf(Inputs))
  BY DEF TypeInv, ToolTyped, RowsTyped, ToolOf, GenerateStep, CheckConversation, ListDrafts,
         Supersede, CreateDraft, RecommendPlan, MarkReady, MarkFailed, ToolAt
<1>2. n \in Nat /\ n <= MaxDrafts /\ MaxDrafts \in Nat
  BY RowsAreIds, DraftsAssumption DEF DraftsInv, Typed, DraftsAssumption
<1>3. UNCHANGED <<conversation, expired, req, budget>>
  BY DEF GenerateStep, CheckConversation, ListDrafts, Supersede, CreateDraft, RecommendPlan,
         MarkReady, MarkFailed, ToolFrame
<1>4. tool.pc \in {"supersede", "ready", "failed"} => tool.draft \in 1..n
  BY DEF DraftsInv, Announced
<1>5. crossed' \subseteq Ids
  <2>1. CASE Supersede
    <3>1. tool.draft \in Ids
      BY <1>4, <2>1, RowsAreIds DEF Supersede, ToolAt, DraftsInv
    <3>2. crossed' = crossed \/ crossed' = crossed \cup {tool.draft}
      BY <2>1 DEF Supersede
    <3>3. QED
      BY <3>1, <3>2 DEF TypeInv, RestTyped
  <2>2. CASE ~Supersede
    BY <2>2 DEF GenerateStep, CheckConversation, ListDrafts, CreateDraft, RecommendPlan,
                MarkReady, MarkFailed, TypeInv, RestTyped
  <2>3. QED
    BY <2>1, <2>2
<1>6. RestTyped'
  BY <1>3, <1>5 DEF TypeInv, RestTyped
<1>7. RowsTyped'
  <2>1. ASSUME NEW from, NEW to \in {"superseded", "ready", "failed"},
               tool.draft \in 1..n, drafts' = Marked(tool.draft, from, to)
        PROVE  RowsTyped'
    <3>1. to \in Statuses
      BY DEF Statuses
    <3>2. QED
      BY <1>1, <2>1, <3>1, MarkedRows DEF RowsTyped
  <2>2. ASSUME drafts' = Append(drafts, [status |-> "generating", input |-> tool.input,
                                         late |-> conversation # "active"])
        PROVE  RowsTyped'
    <3>1. (conversation # "active") \in BOOLEAN
      OBVIOUS
    <3>2. drafts' \in Seq(RowOf(Inputs \cup {tool.input}))
      BY <1>1, <2>2, <3>1, AddedRow
    <3>3. Inputs \cup {tool.input} = Inputs
      BY <1>1
    <3>4. QED
      BY <3>2, <3>3 DEF RowsTyped
  <2>3. CASE UNCHANGED drafts
    BY <1>1, <2>3 DEF RowsTyped
  <2>4. CASE CheckConversation \/ ListDrafts \/ RecommendPlan
    BY <2>3, <2>4 DEF CheckConversation, ListDrafts, RecommendPlan
  <2>5. CASE Supersede
    BY <1>4, <2>1, <2>3, <2>5 DEF Supersede, ToolAt
  <2>6. CASE CreateDraft
    BY <2>2, <2>3, <2>6 DEF CreateDraft
  <2>7. CASE MarkReady
    BY <1>4, <2>1, <2>3, <2>7 DEF MarkReady, ToolAt
  <2>8. CASE MarkFailed
    BY <1>4, <2>1, <2>3, <2>8 DEF MarkFailed, ToolAt
  <2>9. QED
    BY <2>4, <2>5, <2>6, <2>7, <2>8 DEF GenerateStep
<1>8. ToolTyped'
  <2>1. ASSUME NEW pc, NEW d \in Nat, d <= MaxDrafts, NEW r, ToolMoves(I, pc, d, r)
        PROVE  ToolTyped'
    BY <1>1, <2>1 DEF ToolMoves, ToolTyped
  <2>2. ASSUME NEW pc \in {"list", "supersede", "create", "ready", "failed"}, ToolGoes(pc)
        PROVE  ToolTyped'
    BY <1>1, <2>1, <2>2, ToolGoesMoves
  <2>3. ASSUME NEW r \in Results, ToolEnds(r)
        PROVE  ToolTyped'
    BY <1>1, <2>1, <2>3, ToolEndsMoves
  <2>4. ASSUME NEW pc \in {"supersede", "recommend", "done"}, NEW r \in Results, NEW d \in Nat,
               d <= MaxDrafts,
               \/ tool' = [tool EXCEPT !.pc = pc, !.draft = d]
               \/ tool' = [tool EXCEPT !.pc = pc, !.result = r, !.draft = d]
        PROVE  ToolTyped'
    BY <1>1, <2>4 DEF ToolTyped, ToolOf
  <2>5. \A r \in {"refused", "generating", "reused", "ready", "failed"} : r \in Results
    BY DEF Results
  <2>6. CASE CheckConversation \/ Supersede \/ RecommendPlan \/ MarkReady \/ MarkFailed
    BY <2>2, <2>3, <2>5, <2>6
       DEF CheckConversation, Supersede, RecommendPlan, MarkReady, MarkFailed
  <2>7. CASE ListDrafts
    BY <1>2, <2>2, <2>3, <2>4, <2>5, <2>7 DEF ListDrafts
  <2>8. CASE CreateDraft
    <3>1. n + 1 \in Nat /\ n + 1 <= MaxDrafts
      BY <1>2, <2>8 DEF CreateDraft
    <3>2. ToolEnds("failed") \/ tool' = [tool EXCEPT !.pc = "recommend", !.draft = n + 1]
      BY <2>8 DEF CreateDraft
    <3>3. QED
      BY <2>3, <2>4, <2>5, <3>1, <3>2
  <2>9. QED
    BY <2>6, <2>7, <2>8 DEF GenerateStep
<1>9. QED
  BY <1>6, <1>7, <1>8 DEF TypeInv

LEMMA BoundTyped == MaxDrafts \in Nat /\ 0 <= MaxDrafts
BY DraftsAssumption DEF DraftsAssumption

\* The tool is called with the input of the model's call.
LEMMA NewToolTyped ==
    ASSUME \/ tool' = NoTool
           \/ \E x \in Inputs : tool' = [NoTool EXCEPT !.pc = "conversation", !.input = x]
    PROVE  ToolTyped'
<1>1. MaxDrafts \in Nat /\ 0 <= MaxDrafts
  BY BoundTyped
<1>2. NoTool \in ToolOf(Inputs \cup {None}) /\ NoTool.draft = 0 /\ NoTool.pc = "idle"
  BY DEF NoTool, ToolOf, Results
<1>3. CASE tool' = NoTool
  BY <1>1, <1>2, <1>3 DEF ToolTyped
<1>4. ASSUME NEW x \in Inputs, tool' = [NoTool EXCEPT !.pc = "conversation", !.input = x]
      PROVE  ToolTyped'
  <2> HIDE DEF NoTool
  <2>1. tool' \in ToolOf(Inputs \cup {None}) /\ tool'.draft = 0 /\ tool'.input = x
    BY <1>2, <1>4 DEF ToolOf
  <2>2. QED
    BY <1>1, <2>1 DEF ToolTyped
<1>5. QED
  BY <1>3, <1>4

LEMMA TypeStep == DraftsInv /\ RunInv /\ TypeInv /\ [Next]_vars => TypeInv'
<1> SUFFICES ASSUME DraftsInv, RunInv, TypeInv, [Next]_vars PROVE TypeInv'
  OBVIOUS
<1>1. CASE RequestStep \/ GenerateStep
  BY <1>1, RequestTypes, GenerateTypes
<1>2. CASE UNCHANGED rows /\ crossed' = crossed /\ budget' = budget
           /\ (UNCHANGED req \/ req' = [p \in Procs |-> NoRequest])
           /\ expired' \in BOOLEAN
           /\ \/ UNCHANGED tool \/ tool' = NoTool
              \/ \E x \in Inputs : tool' = [NoTool EXCEPT !.pc = "conversation", !.input = x]
  <2>1. ToolTyped'
    BY <1>2, NewToolTyped DEF TypeInv, ToolTyped
  <2>2. RowsTyped'
    BY <1>2 DEF TypeInv, RowsTyped, rows
  <2>3. \A p \in Procs : req'[p].draft <= MaxDrafts
    <3>1. CASE UNCHANGED req
      BY <3>1 DEF TypeInv, RestTyped
    <3>2. CASE req' = [p \in Procs |-> NoRequest]
      <4>1. \A p \in Procs : req'[p].draft = 0
        BY <3>2 DEF NoRequest
      <4>2. QED
        BY <4>1, BoundTyped
    <3>3. QED
      BY <1>2, <3>1, <3>2
  <2>4. RestTyped'
    BY <1>2, <2>3 DEF TypeInv, RestTyped, rows
  <2>5. QED
    BY <2>1, <2>2, <2>4 DEF TypeInv
<1>3. expired \in BOOLEAN
  BY DEF TypeInv, RestTyped
<1>4. CASE UNCHANGED draftVars
  BY <1>2, <1>3, <1>4 DEF draftVars
<1>5. CASE StartCall
  <2>1. CASE UNCHANGED tool
    BY <1>2, <1>3, <1>5, <2>1 DEF StartCall
  <2>2. CASE ~UNCHANGED tool
    <3>1. /\ tool' = [NoTool EXCEPT !.pc = "conversation", !.input = Head(run.todo).input]
          /\ Head(run.todo).kind = "generate" /\ ~expired
      BY <1>5, <2>2 DEF StartCall
    <3>2. run'.pc = "execute"
      <4> DEFINE e == Append(run.executed, Head(run.todo))
      <4>1. run' = [run EXCEPT !.pc = "execute", !.executed = e]
        BY <1>5, <3>1 DEF StartCall
      <4>2. run \in RunRecord
        BY DEF RunInv
      <4> HIDE DEF e
      <4>3. QED
        BY <4>1, <4>2 DEF RunRecord
    <3>3. Head(run.todo) \in Call
      BY <1>5, <3>2, StartRun
    <3>4. Head(run.todo).input \in Inputs
      BY <3>1, <3>3 DEF Call
    <3>5. QED
      BY <1>2, <1>3, <1>5, <3>1, <3>4 DEF StartCall
  <2>3. QED
    BY <2>1, <2>2
<1>6. CASE Loop /\ ~StartCall
  BY <1>2, <1>4, <1>6 DEF Loop, BeginTurn, Iterate, Answer, AnswerFails, EndCall, EndTurn, AgentFrame
<1>7. CASE Tools
  BY <1>1, <1>2, <1>3, <1>4, <1>7 DEF Tools, ApplyFilter, SearchUniversities, AggregateData,
     Preview, RenderChart, RenderForm, RenderCard, GenerateDraft, AgentFrame
<1>8. CASE Deadline \/ Panic \/ Restart
  BY <1>2, <1>3, <1>8 DEF Deadline, Panic, Restart
<1>9. QED
  BY <1>1, <1>4, <1>5, <1>6, <1>7, <1>8 DEF Next, vars

LEMMA TypeStart == Init => TypeInv
<1> SUFFICES ASSUME Init PROVE TypeInv
  OBVIOUS
<1>1. <<>> \in Seq(RowOf(Inputs))
  BY EmptySeq
<1>2. MaxRequests \in 0..MaxRequests /\ 0 <= MaxDrafts
  BY DraftsAssumption DEF DraftsAssumption
<1>3. RowsTyped
  BY <1>1 DEF Init, DraftsInit, RowsTyped
<1>4. RestTyped
  BY <1>2 DEF Init, DraftsInit, RestTyped, NoRequest
<1>5. ToolTyped
  BY <1>2 DEF Init, DraftsInit, ToolTyped, NoTool, ToolOf, Results
<1>6. QED
  BY <1>3, <1>4, <1>5 DEF TypeInv

-----------------------------------------------------------------------------
(* What the client is told *)

\* Two chains of the same steps agree as far as both go.
LEMMA ChainsAgree ==
    ASSUME NEW S, NEW n \in Nat, NEW m \in Nat, n <= m, NEW b, NEW step, NEW next, NEW c, NEW d,
           Chain(S, n, step, b, c), Chain(S, m, next, b, d),
           \A k \in 1..n : \A a \in S : next[k][a] = step[k][a]
    PROVE  d[n] = c[n]
<1> DEFINE T == {k \in 0..n : d[k] # c[k]}
<1>1. T = {}
  <2> SUFFICES ASSUME T # {} PROVE FALSE
    OBVIOUS
  <2>1. PICK k \in T : \A j \in T : k <= j
    <3>1. T \in SUBSET Nat
      OBVIOUS
    <3> HIDE DEF T
    <3>2. QED
      BY <3>1, SmallestNumber
  <2>2. k \in 1..n /\ k \in 1..m /\ k - 1 \in 0..n /\ d[k - 1] = c[k - 1]
    <3>1. d[0] = c[0]
      BY DEF Chain
    <3>2. k \in 1..n /\ k \in 1..m /\ k - 1 \in 0..n
      BY <2>1, <3>1
    <3>3. QED
      BY <2>1, <3>2
  <2>3. c[k - 1] \in S /\ c[k] = step[k][c[k - 1]] /\ d[k] = next[k][d[k - 1]]
    BY <2>2 DEF Chain
  <2>4. QED
    BY <2>1, <2>2, <2>3
<1>2. QED
  BY <1>1

\* The ids of events of a type are collected one event after the other.
IdSteps(events, type) ==
    [i \in 1..Len(events) |-> [a \in Seq(Nat) |-> WithId(type, a, events[i])]]

LEMMA IdsChain ==
    ASSUME NEW type, NEW s \in Seq(Event)
    PROVE  \E c : Chain(Seq(Nat), Len(s), IdSteps(s, type), <<>>, c) /\ c[Len(s)] = IdsIn(s, type)
<1> DEFINE S == Seq(Nat)
           n == Len(s)
           step == IdSteps(s, type)
           P(h) == h = [x \in SUBSET (1..n) |-> IF x = {} THEN <<>>
                                               ELSE WithId(type, h[x \ {Max(x)}], s[Max(x)])]
<1>1. n \in Nat /\ DOMAIN s = 1..n /\ \A i \in 1..n : s[i] \in Event
  BY LenProperties, ElementOfSeq
<1>2. step \in [1..n -> [S -> S]] /\ <<>> \in S
  <2>1. ASSUME NEW i \in 1..n, NEW a \in S PROVE WithId(type, a, s[i]) \in S
    <3>1. s[i].id \in Nat
      BY <1>1 DEF Event
    <3>2. QED
      BY <3>1, AppendProperties DEF WithId
  <2>2. QED
    BY <2>1, EmptySeq DEF IdSteps
<1>3. \A i \in 1..n : \A a \in S : step[i][a] = WithId(type, a, s[i])
  BY DEF IdSteps
<1> HIDE DEF S, step, n
<1>4. PICK f : Folding(S, n, step, <<>>, f)
  BY <1>1, <1>2, FoldExists
<1>5. \A x \in SUBSET (1..n) : x # {} => Max(x) \in 1..n
  BY <1>1, MaxIn
<1>6. P(f)
  <2>1. \A x \in SUBSET (1..n) :
              f[x] = IF x = {} THEN <<>> ELSE WithId(type, f[x \ {Max(x)}], s[Max(x)])
    BY <1>3, <1>4, <1>5 DEF Folding
  <2>2. QED
    BY <1>4, <2>1 DEF Folding
<1> DEFINE h == CHOOSE h : P(h)
<1>7. P(h)
  <2> HIDE DEF P
  <2>1. QED
    BY <1>6
<1>8. IdsIn(s, type) = h[1..n]
  BY <1>1 DEF IdsIn, FoldLeft, MapThenFoldSet
<1> HIDE DEF h
<1>9. Unfolding(S, n, step, <<>>, h)
  <2>1. \A x \in SUBSET (1..n) :
           h[x] = IF x = {} THEN <<>> ELSE WithId(type, h[x \ {Max(x)}], s[Max(x)])
    BY <1>7
  <2>2. QED
    BY <1>3, <1>5, <2>1 DEF Unfolding
<1>10. \E c : Chain(S, n, step, <<>>, c) /\ c[n] = h[1..n]
  BY <1>1, <1>2, <1>9, FoldChain
<1>11. QED
  BY <1>8, <1>10 DEF S, n, step

LEMMA NoIds ==
    ASSUME NEW type
    PROVE  IdsIn(<<>>, type) = <<>>
<1>1. <<>> \in Seq(Event) /\ Len(<<>>) = 0
  BY EmptySeq
<1>2. QED
  BY <1>1, IdsChain DEF Chain

LEMMA IdsType ==
    ASSUME NEW type, NEW s \in Seq(Event)
    PROVE  IdsIn(s, type) \in Seq(Nat)
<1>1. Len(s) \in Nat
  BY LenProperties
<1>2. QED
  BY <1>1, IdsChain DEF Chain

LEMMA IdsAppended ==
    ASSUME NEW type, NEW s \in Seq(Event), NEW e \in Event
    PROVE  IdsIn(Append(s, e), type) = WithId(type, IdsIn(s, type), e)
<1> DEFINE S == Seq(Nat)
           n == Len(s)
           t == Append(s, e)
<1>1. /\ n \in Nat /\ n + 1 \in Nat /\ t \in Seq(Event) /\ Len(t) = n + 1 /\ n <= n + 1
      /\ t[n + 1] = e /\ \A i \in 1..n : t[i] = s[i]
  BY LenProperties, AppendProperties
<1> HIDE DEF t
<1>2. PICK c : Chain(S, n, IdSteps(s, type), <<>>, c) /\ c[n] = IdsIn(s, type)
  BY IdsChain
<1>3. PICK d : Chain(S, n + 1, IdSteps(t, type), <<>>, d) /\ d[n + 1] = IdsIn(t, type)
  BY <1>1, IdsChain
<1>4. \A k \in 1..n : \A a \in S : IdSteps(t, type)[k][a] = IdSteps(s, type)[k][a]
  BY <1>1 DEF IdSteps
<1> HIDE DEF S, n
<1>5. d[n] = c[n]
  BY <1>1, <1>2, <1>3, <1>4, ChainsAgree
<1>6. n + 1 \in 1..n + 1 /\ n \in 0..n + 1 /\ (n + 1) - 1 = n
  BY <1>1
<1>7. d[n] \in S /\ d[n + 1] = IdSteps(t, type)[n + 1][d[n]]
  BY <1>3, <1>6 DEF Chain
<1>8. IdSteps(t, type)[n + 1][d[n]] = WithId(type, d[n], e)
  BY <1>1, <1>6, <1>7 DEF IdSteps, S
<1>9. QED
  BY <1>2, <1>3, <1>5, <1>7, <1>8 DEF t

\* Calls and results are numbered as they come; the call in progress has no result.
Counted ==
    /\ \A i \in 1..Len(run.results) : run.results[i].id = i
    /\ Len(run.executed) = IF run.pc \in {"execute", "end"} THEN Len(run.results) + 1
                           ELSE Len(run.results)

\* What was streamed is what the run keeps, until it fails.
Told ==
    \/ run.pc = "returned" /\ run.outcome \in {"cancelled", "failed"}
    \/ /\ IdsIn(sent, "text") = run.texts
       /\ IdsIn(sent, "start") = [i \in 1..Len(run.executed) |-> i]
       /\ IdsIn(sent, "end") = IdsOf(run.results)
       /\ IdsIn(sent, "widget") = IdsOf(run.widgets)

\* Every call has been announced, and every result, and nothing beyond.
Announcements ==
    /\ \A i \in 1..Len(sent) :
          /\ sent[i].type = "start" => sent[i].id <= Len(run.executed)
          /\ sent[i].type = "end" => sent[i].id <= Len(run.results)
    /\ \A k \in 1..Len(run.executed) :
          \E i \in 1..Len(sent) : sent[i] = [type |-> "start", id |-> k]
    /\ \A k \in 1..Len(run.results) :
          \E i \in 1..Len(sent) : sent[i] = [type |-> "end", id |-> k]

ReplyInv == Counted /\ Told /\ Announcements /\ CallsAreBracketed /\ ChartsHaveTheirRows

\* An event in its place keeps the brackets.
LEMMA BracketsGrow ==
    ASSUME sent \in Seq(Event), NEW e \in Event, sent' = Append(sent, e), CallsAreBracketed,
           e.type = "start" =>
              /\ \A j \in 1..Len(sent) : ~(sent[j].type = "start" /\ sent[j].id = e.id)
              /\ e.id > 1 => \E j \in 1..Len(sent) : sent[j] = [type |-> "end", id |-> e.id - 1],
           e.type \in {"widget", "end"} =>
              /\ \E j \in 1..Len(sent) : sent[j].type = "start" /\ sent[j].id = e.id
              /\ \A j \in 1..Len(sent) : ~(sent[j].type = "end" /\ sent[j].id = e.id)
    PROVE  CallsAreBracketed'
<1> DEFINE n == Len(sent)
<1>1. /\ n \in Nat /\ Len(sent') = n + 1
      /\ sent'[n + 1] = e /\ \A i \in 1..n : sent'[i] = sent[i]
  BY LenProperties, AppendProperties
<1> HIDE DEF n
<1>2. ASSUME NEW i \in 1..n + 1
      PROVE  /\ sent'[i].type = "start" =>
                   /\ \A j \in 1..i - 1 : ~(sent'[j].type = "start" /\ sent'[j].id = sent'[i].id)
                   /\ sent'[i].id > 1 => \E j \in 1..i - 1 :
                         sent'[j] = [type |-> "end", id |-> sent'[i].id - 1]
             /\ sent'[i].type \in {"widget", "end"} =>
                   /\ \E j \in 1..i - 1 : sent'[j].type = "start" /\ sent'[j].id = sent'[i].id
                   /\ \A j \in 1..i - 1 : ~(sent'[j].type = "end" /\ sent'[j].id = sent'[i].id)
  <2>1. \A j \in 1..i - 1 : j \in 1..n /\ sent'[j] = sent[j]
    BY <1>1
  <2>2. CASE i \in 1..n
    <3>1. sent'[i] = sent[i]
      BY <1>1, <2>2
    <3>2. /\ sent[i].type = "start" =>
                /\ \A j \in 1..i - 1 : ~(sent[j].type = "start" /\ sent[j].id = sent[i].id)
                /\ sent[i].id > 1 => \E j \in 1..i - 1 :
                      sent[j] = [type |-> "end", id |-> sent[i].id - 1]
          /\ sent[i].type \in {"widget", "end"} =>
                /\ \E j \in 1..i - 1 : sent[j].type = "start" /\ sent[j].id = sent[i].id
                /\ \A j \in 1..i - 1 : ~(sent[j].type = "end" /\ sent[j].id = sent[i].id)
      BY <2>2 DEF CallsAreBracketed, n
    <3>3. sent'[i].type = "start" =>
             \A j \in 1..i - 1 : ~(sent'[j].type = "start" /\ sent'[j].id = sent'[i].id)
      BY <2>1, <3>1, <3>2
    <3>4. sent'[i].type = "start" /\ sent'[i].id > 1 =>
             \E j \in 1..i - 1 : sent'[j] = [type |-> "end", id |-> sent'[i].id - 1]
      BY <2>1, <3>1, <3>2
    <3>5. sent'[i].type \in {"widget", "end"} =>
             /\ \E j \in 1..i - 1 : sent'[j].type = "start" /\ sent'[j].id = sent'[i].id
             /\ \A j \in 1..i - 1 : ~(sent'[j].type = "end" /\ sent'[j].id = sent'[i].id)
      BY <2>1, <3>1, <3>2
    <3>6. QED
      BY <3>3, <3>4, <3>5
  <2>3. CASE i = n + 1
    <3>1. sent'[i] = e /\ i - 1 = n
      BY <1>1, <2>3
    <3>2. QED
      BY <2>1, <3>1 DEF n
  <2>4. QED
    BY <1>1, <2>2, <2>3
<1>3. ASSUME NEW i \in 1..Len(sent')
      PROVE  LET Before(type) == {j \in 1..i - 1 : sent'[j].type = type
                                                   /\ sent'[j].id = sent'[i].id} IN
             /\ sent'[i].type = "start" => Before("start") = {}
                   /\ (sent'[i].id > 1 => \E j \in 1..i - 1 :
                           sent'[j] = [type |-> "end", id |-> sent'[i].id - 1])
             /\ sent'[i].type \in {"widget", "end"} =>
                   Before("start") # {} /\ Before("end") = {}
  <2> DEFINE Before(type) == {j \in 1..i - 1 : sent'[j].type = type
                                              /\ sent'[j].id = sent'[i].id}
  <2>1. i \in 1..n + 1
    BY <1>1
  <2>2. sent'[i].type = "start" => Before("start") = {}
    BY <1>2, <2>1
  <2>3. sent'[i].type = "start" /\ sent'[i].id > 1 =>
           \E j \in 1..i - 1 : sent'[j] = [type |-> "end", id |-> sent'[i].id - 1]
    BY <1>2, <2>1
  <2>4. sent'[i].type \in {"widget", "end"} => Before("start") # {} /\ Before("end") = {}
    BY <1>2, <2>1
  <2>5. QED
    BY <2>2, <2>3, <2>4
<1>4. QED
  BY <1>3 DEF CallsAreBracketed

\* What the run keeps is left as it is.
KeepsReply ==
    /\ run'.executed = run.executed /\ run'.results = run.results
    /\ run'.widgets = run.widgets

\* Text, or nothing, is streamed.
LEMMA TextReply ==
    ASSUME RunInv, ReplyInv, KeepsReply, NEW text \in BOOLEAN, sent' = Streamed(text),
           run.pc \notin {"execute", "end"}, run'.pc \notin {"execute", "end"}, run.pc # "idle",
           \/ run'.pc = "returned" /\ run'.outcome \in {"cancelled", "failed"}
           \/ run.pc # "returned" /\ run'.texts = KeepText(text)
    PROVE  ReplyInv'
<1> DEFINE e == [type |-> "text", id |-> run.iteration]
<1>1. e \in Event /\ e.type = "text" /\ e.id = run.iteration /\ sent \in Seq(Event)
  BY AgentAssumption DEF RunInv, Event, AgentAssumption
<1> HIDE DEF e
<1>2. sent' = IF text THEN Append(sent, e) ELSE sent
  BY DEF Streamed, e
<1>3. Counted' /\ ChartsHaveTheirRows'
  <2>1. Counted'
    BY DEF ReplyInv, Counted, KeepsReply
  <2>2. ChartsHaveTheirRows'
    BY DEF ReplyInv, ChartsHaveTheirRows, KeepsReply
  <2>3. QED
    BY <2>1, <2>2
<1>4. CASE ~text
  BY <1>2, <1>3, <1>4 DEF ReplyInv, Told, Announcements, CallsAreBracketed, KeepsReply, KeepText,
                         IdsOf
<1>5. CASE text
  <2>1. CallsAreBracketed'
    BY <1>1, <1>2, <1>5, BracketsGrow DEF ReplyInv
  <2>2. /\ Len(sent) \in Nat /\ Len(sent') = Len(sent) + 1 /\ sent'[Len(sent) + 1] = e
        /\ \A i \in 1..Len(sent) : sent'[i] = sent[i]
    BY <1>1, <1>2, <1>5, LenProperties, AppendProperties
  <2>3. Announcements'
    <3>1. \A i \in 1..Len(sent) + 1 : i \in 1..Len(sent) \/ i = Len(sent) + 1
      BY <2>2
    <3>2. \A i \in 1..Len(sent) : i \in 1..Len(sent) + 1
      BY <2>2
    <3>3. QED
      BY <1>1, <2>2, <3>1, <3>2 DEF ReplyInv, Announcements, KeepsReply
  <2>4. Told'
    <3>1. /\ IdsIn(sent', "text") = Append(IdsIn(sent, "text"), run.iteration)
          /\ IdsIn(sent', "start") = IdsIn(sent, "start")
          /\ IdsIn(sent', "end") = IdsIn(sent, "end")
          /\ IdsIn(sent', "widget") = IdsIn(sent, "widget")
      <4>1. \A type : IdsIn(sent', type) = WithId(type, IdsIn(sent, type), e)
        BY <1>1, <1>2, <1>5, IdsAppended
      <4>2. QED
        BY <1>1, <4>1 DEF WithId
    <3>2. CASE run'.pc = "returned" /\ run'.outcome \in {"cancelled", "failed"}
      BY <3>2 DEF Told
    <3>3. CASE run.pc # "returned" /\ run'.texts = KeepText(text)
      BY <1>5, <3>1, <3>3 DEF ReplyInv, Told, KeepsReply, KeepText, IdsOf
    <3>4. QED
      BY <3>2, <3>3
  <2>5. QED
    BY <1>3, <2>1, <2>3, <2>4 DEF ReplyInv
<1>6. QED
  BY <1>4, <1>5

\* What is streamed of a call is streamed in its place.
LEMMA EventReply ==
    ASSUME RunInv, NEW type \in {"start", "widget", "end"}, NEW id \in Nat,
           sent' = Append(sent, [type |-> type, id |-> id])
    PROVE  /\ Len(sent) \in Nat /\ Len(sent') = Len(sent) + 1
           /\ sent'[Len(sent) + 1] = [type |-> type, id |-> id]
           /\ sent'[Len(sent) + 1].type = type /\ sent'[Len(sent) + 1].id = id
           /\ \A i \in 1..Len(sent) : i \in 1..Len(sent') /\ sent'[i] = sent[i]
           /\ \A i \in 1..Len(sent') : i \in 1..Len(sent) \/ i = Len(sent) + 1
           /\ \A t \in {"text", "start", "widget", "end"} :
                 IdsIn(sent', t) = IF t = type THEN Append(IdsIn(sent, t), id) ELSE IdsIn(sent, t)
<1> DEFINE e == [type |-> type, id |-> id]
<1>1. e \in Event /\ e.type = type /\ e.id = id /\ sent \in Seq(Event)
  BY DEF RunInv, Event
<1> HIDE DEF e
<1>2. sent' = Append(sent, e)
  BY DEF e
<1>3. /\ Len(sent) \in Nat /\ Len(sent') = Len(sent) + 1 /\ sent'[Len(sent) + 1] = e
      /\ \A i \in 1..Len(sent) : sent'[i] = sent[i]
  BY <1>1, <1>2, LenProperties, AppendProperties
<1>4. \A t \in {"text", "start", "widget", "end"} :
         IdsIn(sent', t) = IF t = type THEN Append(IdsIn(sent, t), id) ELSE IdsIn(sent, t)
  BY <1>1, <1>2, IdsAppended DEF WithId
<1>5. /\ \A i \in 1..Len(sent) : i \in 1..Len(sent')
      /\ \A i \in 1..Len(sent') : i \in 1..Len(sent) \/ i = Len(sent) + 1
  BY <1>3
<1>6. QED
  BY <1>1, <1>3, <1>4, <1>5 DEF e

LEMMA StartReply ==
    ASSUME RunInv, ReplyInv, StartCall
    PROVE  ReplyInv'
<1>1. run.pc = "call" /\ run \in RunRecord /\ sent \in Seq(Event)
  BY DEF StartCall, RunAt, RunInv
<1>2. CASE expired
  <2>1. Returns("cancelled") /\ sent' = sent
    BY <1>2 DEF StartCall
  <2>2. /\ KeepsReply /\ run'.pc = "returned" /\ run'.outcome = "cancelled"
    BY <1>1, <2>1 DEF Returns, RunRecord, KeepsReply
  <2>3. QED
    BY <1>1, <2>1, <2>2
       DEF ReplyInv, Counted, Told, Announcements, CallsAreBracketed, ChartsHaveTheirRows, KeepsReply
<1>3. CASE ~expired
  <2> DEFINE c == Head(run.todo)
             x == Append(run.executed, c)
             n == Len(run.executed)
  <2>1. /\ sent' = Append(sent, [type |-> "start", id |-> n + 1])
        /\ run' = [run EXCEPT !.pc = "execute", !.executed = x]
        /\ run.todo # <<>>
    BY <1>3 DEF StartCall, Current
  <2>2. c \in Call /\ run.executed \in Seq(Call) /\ run.todo \in Seq(Call)
    BY <1>1, <2>1, HeadTailProperties DEF RunRecord
  <2> HIDE DEF c
  <2>3. x \in Seq(Call) /\ Len(x) = n + 1 /\ n \in Nat /\ n + 1 \in Nat
    BY <2>2, LenProperties, AppendProperties
  <2> HIDE DEF x
  <2>4. /\ run'.pc = "execute" /\ run'.executed = x /\ run'.results = run.results
        /\ run'.widgets = run.widgets /\ run'.texts = run.texts
    BY <1>1, <2>1, <2>3 DEF RunRecord
  <2>5. n = Len(run.results) /\ Len(run'.executed) = n + 1
    BY <1>1, <2>3, <2>4 DEF ReplyInv, Counted
  <2> HIDE DEF n
  <2>6. /\ Len(sent) \in Nat /\ Len(sent') = Len(sent) + 1
        /\ sent'[Len(sent) + 1] = [type |-> "start", id |-> n + 1]
        /\ sent'[Len(sent) + 1].type = "start" /\ sent'[Len(sent) + 1].id = n + 1
        /\ \A i \in 1..Len(sent) : i \in 1..Len(sent') /\ sent'[i] = sent[i]
        /\ \A i \in 1..Len(sent') : i \in 1..Len(sent) \/ i = Len(sent) + 1
        /\ \A t \in {"text", "start", "widget", "end"} :
              IdsIn(sent', t) = IF t = "start" THEN Append(IdsIn(sent, t), n + 1)
                                ELSE IdsIn(sent, t)
    BY <2>1, <2>3, EventReply
  <2>7. Counted'
    BY <2>4, <2>5 DEF ReplyInv, Counted
  <2>8. ChartsHaveTheirRows'
    BY <2>4 DEF ReplyInv, ChartsHaveTheirRows
  <2>9. Told'
    <3>1. Append([i \in 1..n |-> i], n + 1) = [i \in 1..n + 1 |-> i]
      BY <2>3
    <3>2. n = Len(run.executed)
      BY DEF n
    <3>3. /\ IdsIn(sent, "start") = [i \in 1..n |-> i] /\ IdsIn(sent, "text") = run.texts
          /\ IdsIn(sent, "end") = IdsOf(run.results) /\ IdsIn(sent, "widget") = IdsOf(run.widgets)
      BY <1>1, <3>2 DEF ReplyInv, Told
    <3>4. IdsIn(sent', "start") = [i \in 1..Len(run'.executed) |-> i]
      BY <2>5, <2>6, <3>1, <3>3
    <3>5. QED
      BY <2>4, <2>6, <3>3, <3>4 DEF Told, IdsOf
  <2>10. Announcements'
    <3>1. \A k \in 1..n + 1 : k \in 1..n \/ k = n + 1
      BY <2>3
    <3>2. \A i \in 1..Len(sent') : /\ sent'[i].type = "start" => sent'[i].id <= n + 1
                                   /\ sent'[i].type = "end" => sent'[i].id <= n
      <4>1. \A i \in 1..Len(sent) : sent[i] \in Event
        BY <1>1, ElementOfSeq
      <4>2. \A i \in 1..Len(sent) : sent[i].id \in Nat
        BY <4>1 DEF Event
      <4>3. \A i \in 1..Len(sent) : /\ sent[i].type = "start" => sent[i].id <= n
                                    /\ sent[i].type = "end" => sent[i].id <= n
        BY <2>5 DEF ReplyInv, Announcements, n
      <4>4. QED
        BY <2>3, <2>6, <4>2, <4>3
    <3>3. \A k \in 1..n : \E i \in 1..Len(sent') : sent'[i] = [type |-> "start", id |-> k]
      BY <2>6 DEF ReplyInv, Announcements, n
    <3>4. \A k \in 1..n : \E i \in 1..Len(sent') : sent'[i] = [type |-> "end", id |-> k]
      BY <2>5, <2>6 DEF ReplyInv, Announcements
    <3>5. \E i \in 1..Len(sent') : sent'[i] = [type |-> "start", id |-> n + 1]
      BY <2>6
    <3>6. QED
      BY <2>4, <2>5, <3>1, <3>2, <3>3, <3>4, <3>5 DEF Announcements
  <2>11. CallsAreBracketed'
    <3> DEFINE e == [type |-> "start", id |-> n + 1]
    <3>1. e \in Event /\ e.type = "start" /\ e.id = n + 1 /\ sent' = Append(sent, e)
      BY <2>1, <2>3 DEF Event, n
    <3>2. \A j \in 1..Len(sent) : ~(sent[j].type = "start" /\ sent[j].id = n + 1)
      BY <2>3, <2>5 DEF ReplyInv, Announcements, n
    <3>3. n + 1 > 1 => \E j \in 1..Len(sent) : sent[j] = [type |-> "end", id |-> (n + 1) - 1]
      <4>1. n + 1 > 1 => n \in 1..Len(run.results) /\ (n + 1) - 1 = n
        BY <2>3, <2>5
      <4>2. QED
        BY <4>1 DEF ReplyInv, Announcements
    <3> HIDE DEF e
    <3>4. QED
      BY <1>1, <3>1, <3>2, <3>3, BracketsGrow DEF ReplyInv
  <2>12. QED
    BY <2>7, <2>8, <2>9, <2>10, <2>11 DEF ReplyInv
<1>4. QED
  BY <1>2, <1>3

\* One element more has one id more.
LEMMA IdsGrow ==
    ASSUME NEW s, NEW t, NEW n \in Nat, Len(s) \in Nat, Len(t) = Len(s) + 1,
           \A i \in 1..Len(s) : s[i].id \in Nat /\ t[i] = s[i],
           t[Len(s) + 1].id = n
    PROVE  Append(IdsOf(s), n) = IdsOf(t)
<1> DEFINE f == IdsOf(s)
<1>1. f = [i \in 1..Len(s) |-> s[i].id]
  BY DEF IdsOf
<1>2. f \in [1..Len(s) -> Nat]
  BY <1>1
<1>3. \A i \in 1..Len(s) : f[i] = s[i].id
  BY <1>1
<1> HIDE DEF f
<1>4. f \in Seq(Nat) /\ Len(f) = Len(s)
  <2>1. f \in Seq(Nat)
    BY <1>2, SeqDef
  <2>2. QED
    BY <1>2, <2>1, LenProperties
<1>5. /\ Append(f, n) \in Seq(Nat) /\ Len(Append(f, n)) = Len(s) + 1
      /\ \A i \in 1..Len(s) : Append(f, n)[i] = f[i]
      /\ Append(f, n)[Len(s) + 1] = n
  BY <1>4, AppendProperties
<1>6. Append(f, n) = [i \in 1..Len(s) + 1 |-> Append(f, n)[i]]
  BY <1>5, LenProperties
<1>7. \A i \in 1..Len(s) + 1 : i \in 1..Len(s) \/ i = Len(s) + 1
  OBVIOUS
<1>8. \A i \in 1..Len(s) + 1 : Append(f, n)[i] = t[i].id
  BY <1>3, <1>5, <1>7
<1>9. Append(f, n) = [i \in 1..Len(s) + 1 |-> t[i].id]
  BY <1>6, <1>8
<1>10. QED
  BY <1>9 DEF f, IdsOf

LEMMA EndReply ==
    ASSUME RunInv, ReplyInv, EndCall
    PROVE  ReplyInv'
<1> DEFINE n == Len(run.executed)
           x == [id |-> n, rows |-> run.content = "rows"]
           results == Append(run.results, x)
<1>1. run.pc = "end" /\ run \in RunRecord /\ sent \in Seq(Event) /\ run.results \in Seq(Result)
      /\ n \in Nat /\ Len(run.results) \in Nat
  BY LenProperties DEF EndCall, RunAt, RunInv, RunRecord
<1>2. n = Len(run.results) + 1
  BY <1>1 DEF ReplyInv, Counted
<1>3. sent' = Append(sent, [type |-> "end", id |-> n])
      /\ \E todo, messages : run' = [run EXCEPT !.pc = "call", !.todo = todo, !.content = None,
                                        !.results = results, !.messages = messages]
  BY DEF EndCall, Current
<1>4. x \in Result /\ x.id = n
  BY <1>1 DEF Result
<1> HIDE DEF x
<1>5. /\ results \in Seq(Result) /\ Len(results) = n
      /\ \A i \in 1..Len(run.results) : results[i] = run.results[i]
      /\ results[n] = x
  BY <1>1, <1>2, <1>4, AppendProperties
<1> HIDE DEF results
<1>6. /\ run'.pc = "call" /\ run'.executed = run.executed /\ run'.results = results
      /\ run'.widgets = run.widgets /\ run'.texts = run.texts
  BY <1>1, <1>3, <1>5 DEF RunRecord
<1>7. /\ \A i \in 1..n : i \in 1..Len(run.results) \/ i = n
      /\ \A i \in 1..Len(run.results) : i \in 1..n
  BY <1>1, <1>2
<1>8. Counted'
  BY <1>2, <1>4, <1>5, <1>6, <1>7 DEF ReplyInv, Counted
<1>9. ChartsHaveTheirRows'
  <2> SUFFICES ASSUME NEW i \in 1..Len(run.widgets), run.widgets[i].src # 0
               PROVE  /\ run.widgets[i].src < run.widgets[i].id
                      /\ [id |-> run.widgets[i].src, rows |-> TRUE] \in {results[j] : j \in 1..n}
    BY <1>5, <1>6 DEF ChartsHaveTheirRows
  <2>1. /\ run.widgets[i].src < run.widgets[i].id
        /\ [id |-> run.widgets[i].src, rows |-> TRUE] \in
              {run.results[j] : j \in 1..Len(run.results)}
    BY DEF ReplyInv, ChartsHaveTheirRows
  <2>2. QED
    BY <1>5, <1>7, <2>1
<1> HIDE DEF n
<1>10. /\ Len(sent) \in Nat /\ Len(sent') = Len(sent) + 1
       /\ sent'[Len(sent) + 1] = [type |-> "end", id |-> n]
       /\ sent'[Len(sent) + 1].type = "end" /\ sent'[Len(sent) + 1].id = n
       /\ \A i \in 1..Len(sent) : i \in 1..Len(sent') /\ sent'[i] = sent[i]
       /\ \A i \in 1..Len(sent') : i \in 1..Len(sent) \/ i = Len(sent) + 1
       /\ \A t \in {"text", "start", "widget", "end"} :
             IdsIn(sent', t) = IF t = "end" THEN Append(IdsIn(sent, t), n) ELSE IdsIn(sent, t)
  BY <1>1, <1>3, EventReply
<1>11. Told'
  <2>1. /\ IdsIn(sent, "start") = [i \in 1..n |-> i] /\ IdsIn(sent, "text") = run.texts
        /\ IdsIn(sent, "end") = IdsOf(run.results) /\ IdsIn(sent, "widget") = IdsOf(run.widgets)
    BY <1>1 DEF ReplyInv, Told, n
  <2>2. Append(IdsOf(run.results), n) = IdsOf(results)
    <3>1. \A i \in 1..Len(run.results) : run.results[i] \in Result
      BY <1>1, ElementOfSeq
    <3>2. \A i \in 1..Len(run.results) : run.results[i].id \in Nat
      BY <3>1 DEF Result
    <3>3. QED
      BY <1>1, <1>2, <1>4, <1>5, <3>2, IdsGrow
  <2>3. QED
    BY <1>6, <1>10, <2>1, <2>2 DEF Told, n
<1>12. Announcements'
  <2>1. \A i \in 1..Len(sent) : sent[i].id \in Nat
    <3>1. \A i \in 1..Len(sent) : sent[i] \in Event
      BY <1>1, ElementOfSeq
    <3>2. QED
      BY <3>1 DEF Event
  <2>2. \A i \in 1..Len(sent) : /\ sent[i].type = "start" => sent[i].id <= n
                                /\ sent[i].type = "end" => sent[i].id <= Len(run.results)
    BY DEF ReplyInv, Announcements, n
  <2>3. \A i \in 1..Len(sent') : /\ sent'[i].type = "start" => sent'[i].id <= n
                                 /\ sent'[i].type = "end" => sent'[i].id <= n
    BY <1>1, <1>2, <1>10, <2>1, <2>2
  <2>4. \A k \in 1..n : \E i \in 1..Len(sent') : sent'[i] = [type |-> "start", id |-> k]
    BY <1>10 DEF ReplyInv, Announcements, n
  <2>5. \A k \in 1..Len(run.results) : \E i \in 1..Len(sent') : sent'[i] = [type |-> "end", id |-> k]
    BY <1>10 DEF ReplyInv, Announcements
  <2>6. \E i \in 1..Len(sent') : sent'[i] = [type |-> "end", id |-> n]
    BY <1>10
  <2>7. QED
    BY <1>5, <1>6, <1>7, <2>3, <2>4, <2>5, <2>6 DEF Announcements, n
<1>13. CallsAreBracketed'
  <2> DEFINE e == [type |-> "end", id |-> n]
  <2>1. e \in Event /\ e.type = "end" /\ e.id = n /\ sent' = Append(sent, e)
    BY <1>1, <1>3 DEF Event
  <2>2. \A j \in 1..Len(sent) : ~(sent[j].type = "end" /\ sent[j].id = n)
    BY <1>1, <1>2 DEF ReplyInv, Announcements
  <2>3. \E j \in 1..Len(sent) : sent[j].type = "start" /\ sent[j].id = n
    <3>1. n \in 1..Len(run.executed)
      BY <1>1, <1>2 DEF n
    <3>2. PICK j \in 1..Len(sent) : sent[j] = [type |-> "start", id |-> n]
      BY <3>1 DEF ReplyInv, Announcements
    <3>3. QED
      BY <3>2
  <2> HIDE DEF e
  <2>4. QED
    BY <1>1, <2>1, <2>2, <2>3, BracketsGrow DEF ReplyInv
<1>14. QED
  BY <1>8, <1>9, <1>11, <1>12, <1>13 DEF ReplyInv

LEMMA SaysReply ==
    ASSUME RunInv, ReplyInv, NEW c \in Contents, Says(c), run.pc = "execute", sent' = sent
    PROVE  ReplyInv'
<1>1. run' = [run EXCEPT !.pc = "end", !.content = c] /\ run \in RunRecord
  BY DEF Says, RunInv
<1>2. /\ KeepsReply /\ run'.pc = "end" /\ run'.texts = run.texts
  BY <1>1 DEF RunRecord, KeepsReply
<1>3. Counted' /\ Told' /\ Announcements'
  BY <1>2 DEF ReplyInv, Counted, Told, Announcements, KeepsReply, IdsOf
<1>4. CallsAreBracketed'
  BY DEF ReplyInv, CallsAreBracketed
<1>5. ChartsHaveTheirRows'
  BY <1>2 DEF ReplyInv, ChartsHaveTheirRows, KeepsReply
<1>6. QED
  BY <1>3, <1>4, <1>5 DEF ReplyInv

\* A widget is drawn while its call runs, from data in the arguments or from rows that
\* are in.
LEMMA EmitReply ==
    ASSUME RunInv, ReplyInv, NEW src \in Nat, Emit(src), run.pc = "execute",
           src = 0 \/ ResolveResult(src)
    PROVE  ReplyInv'
<1> DEFINE n == Len(run.executed)
           x == [id |-> n, src |-> src]
           w == Append(run.widgets, x)
<1>1. /\ run \in RunRecord /\ sent \in Seq(Event) /\ run.widgets \in Seq(Widget)
      /\ run.results \in Seq(Result) /\ n \in Nat /\ Len(run.results) \in Nat
  BY LenProperties DEF RunInv, RunRecord
<1>2. n = Len(run.results) + 1 /\ n \in 1..n
  BY <1>1 DEF ReplyInv, Counted
<1>3. /\ run' = [run EXCEPT !.pc = "end", !.content = "words",
                    !.widgets = IF Len(run.widgets) >= MaxWidgets THEN run.widgets ELSE w]
      /\ sent' = IF Len(run.widgets) >= MaxWidgets THEN sent
                 ELSE Append(sent, [type |-> "widget", id |-> n])
  BY DEF Emit, Current
<1>4. CASE Len(run.widgets) >= MaxWidgets
  <2>1. run' = [run EXCEPT !.pc = "end", !.content = "words", !.widgets = run.widgets]
    BY <1>3, <1>4
  <2>2. Says("words")
    BY <1>1, <2>1 DEF Says, RunRecord
  <2>3. QED
    BY <1>3, <1>4, <2>2, SaysReply DEF Contents
<1>5. CASE ~(Len(run.widgets) >= MaxWidgets)
  <2>1. /\ run' = [run EXCEPT !.pc = "end", !.content = "words", !.widgets = w]
        /\ sent' = Append(sent, [type |-> "widget", id |-> n])
    BY <1>3, <1>5
  <2>2. x \in Widget /\ x.id = n /\ x.src = src
    BY <1>1 DEF Widget
  <2> HIDE DEF x
  <2>3. /\ w \in Seq(Widget) /\ Len(run.widgets) \in Nat /\ Len(w) = Len(run.widgets) + 1
        /\ w[Len(run.widgets) + 1] = x
        /\ \A i \in 1..Len(run.widgets) : w[i] = run.widgets[i]
    BY <1>1, <2>2, LenProperties, AppendProperties
  <2> HIDE DEF w
  <2>4. /\ run'.pc = "end" /\ run'.executed = run.executed /\ run'.results = run.results
        /\ run'.widgets = w /\ run'.texts = run.texts
    BY <1>1, <2>1, <2>3 DEF RunRecord
  <2>5. /\ Len(sent) \in Nat /\ Len(sent') = Len(sent) + 1
        /\ sent'[Len(sent) + 1].type = "widget"
        /\ \A i \in 1..Len(sent) : i \in 1..Len(sent') /\ sent'[i] = sent[i]
        /\ \A i \in 1..Len(sent') : i \in 1..Len(sent) \/ i = Len(sent) + 1
        /\ \A t \in {"text", "start", "widget", "end"} :
              IdsIn(sent', t) = IF t = "widget" THEN Append(IdsIn(sent, t), n) ELSE IdsIn(sent, t)
    BY <1>1, <2>1, EventReply
  <2>6. Counted'
    BY <2>4 DEF ReplyInv, Counted
  <2>7. ChartsHaveTheirRows'
    <3>1. src # 0 => /\ src < n
                     /\ [id |-> src, rows |-> TRUE] \in
                           {run.results[j] : j \in 1..Len(run.results)}
      <4> SUFFICES ASSUME src # 0
                   PROVE  /\ src < n
                          /\ \E j \in 1..Len(run.results) :
                                run.results[j] = [id |-> src, rows |-> TRUE]
        OBVIOUS
      <4>1. PICK j \in 1..Len(run.results) : run.results[j].id = src /\ run.results[j].rows
        BY DEF ResolveResult
      <4>2. run.results[j].id = j
        BY DEF ReplyInv, Counted
      <4>3. run.results[j] \in Result
        BY <1>1, ElementOfSeq
      <4>4. run.results[j] = [id |-> src, rows |-> TRUE]
        BY <4>1, <4>3 DEF Result
      <4>5. QED
        BY <1>1, <1>2, <4>1, <4>2, <4>4
    <3>2. \A i \in 1..Len(w) : i \in 1..Len(run.widgets) \/ i = Len(run.widgets) + 1
      BY <2>3
    <3>3. ASSUME NEW i \in 1..Len(w), w[i].src # 0
          PROVE  /\ w[i].src < w[i].id
                 /\ [id |-> w[i].src, rows |-> TRUE] \in
                       {run.results[j] : j \in 1..Len(run.results)}
      <4> HIDE DEF n
      <4>1. CASE i \in 1..Len(run.widgets)
        <5>1. w[i] = run.widgets[i] /\ run.widgets[i].src # 0
          BY <2>3, <3>3, <4>1
        <5>2. QED
          BY <4>1, <5>1 DEF ReplyInv, ChartsHaveTheirRows
      <4>2. CASE i = Len(run.widgets) + 1
        BY <2>2, <2>3, <3>1, <3>3, <4>2
      <4>3. QED
        BY <3>2, <4>1, <4>2
    <3>4. QED
      BY <2>4, <3>3 DEF ChartsHaveTheirRows
  <2>8. Told'
    <3>1. /\ IdsIn(sent, "start") = [i \in 1..n |-> i] /\ IdsIn(sent, "text") = run.texts
          /\ IdsIn(sent, "end") = IdsOf(run.results) /\ IdsIn(sent, "widget") = IdsOf(run.widgets)
      BY <1>1 DEF ReplyInv, Told
    <3>2. Append(IdsOf(run.widgets), n) = IdsOf(w)
      <4>1. \A i \in 1..Len(run.widgets) : run.widgets[i] \in Widget
        BY <1>1, ElementOfSeq
      <4>2. \A i \in 1..Len(run.widgets) : run.widgets[i].id \in Nat
        BY <4>1 DEF Widget
      <4>3. \A i \in 1..Len(run.widgets) :
               run.widgets[i].id \in Nat /\ w[i] = run.widgets[i]
        BY <2>3, <4>2
      <4>4. Len(run.widgets) \in Nat /\ Len(w) = Len(run.widgets) + 1
            /\ w[Len(run.widgets) + 1].id = n /\ n \in Nat
        BY <1>1, <2>2, <2>3
      <4> HIDE DEF n
      <4>5. QED
        BY <4>3, <4>4, IdsGrow
    <3> HIDE DEF n
    <3>3. QED
      BY <2>4, <2>5, <3>1, <3>2 DEF Told, n
  <2>9. Announcements'
    BY <2>4, <2>5 DEF ReplyInv, Announcements
  <2>10. CallsAreBracketed'
    <3> DEFINE e == [type |-> "widget", id |-> n]
    <3>1. e \in Event /\ e.type = "widget" /\ e.id = n /\ sent' = Append(sent, e)
      BY <1>1, <2>1 DEF Event
    <3>2. \A j \in 1..Len(sent) : ~(sent[j].type = "end" /\ sent[j].id = n)
      BY <1>1, <1>2 DEF ReplyInv, Announcements
    <3>3. \E j \in 1..Len(sent) : sent[j].type = "start" /\ sent[j].id = n
      <4>1. PICK j \in 1..Len(sent) : sent[j] = [type |-> "start", id |-> n]
        BY <1>2 DEF ReplyInv, Announcements
      <4>2. QED
        BY <4>1
    <3> HIDE DEF e
    <3>4. QED
      BY <1>1, <3>1, <3>2, <3>3, BracketsGrow DEF ReplyInv
  <2>11. QED
    BY <2>6, <2>7, <2>8, <2>9, <2>10 DEF ReplyInv
<1>6. QED
  BY <1>4, <1>5

\* Nothing is streamed of no run, or of one that begins.
LEMMA NewReply ==
    ASSUME sent' = <<>>, run' = NoRun \/ run' = [NoRun EXCEPT !.pc = "model", !.iteration = 1]
    PROVE  ReplyInv'
<1>1. /\ run'.executed = <<>> /\ run'.results = <<>> /\ run'.widgets = <<>> /\ run'.texts = <<>>
      /\ run'.pc \in {"idle", "model"}
  <2>1. CASE run' = NoRun
    BY <2>1 DEF NoRun
  <2>2. CASE run' = [NoRun EXCEPT !.pc = "model", !.iteration = 1]
    BY <2>2 DEF NoRun
  <2>3. QED
    BY <2>1, <2>2
<1>2. Len(<<>>) = 0 /\ IdsOf(<<>>) = <<>> /\ [i \in 1..0 |-> i] = <<>>
  BY DEF IdsOf
<1>3. Counted' /\ Announcements' /\ CallsAreBracketed' /\ ChartsHaveTheirRows'
  BY <1>1, <1>2 DEF Counted, Announcements, CallsAreBracketed, ChartsHaveTheirRows
<1>4. Told'
  BY <1>1, <1>2, NoIds DEF Told
<1>5. QED
  BY <1>3, <1>4 DEF ReplyInv

LEMMA AnswerReply ==
    ASSUME RunInv, ReplyInv, Answer
    PROVE  ReplyInv'
<1>1. run.pc = "model" /\ run.iteration \in 1..MaxIterations /\ run \in RunRecord
  BY DEF RunInv, Answer, RunAt
<1>2. PICK r \in Answers[run.iteration] :
        /\ sent' = Streamed(r.text)
        /\ LET heard == [run EXCEPT !.texts = KeepText(r.text),
                             !.meant = @ \o r.meant, !.cut = @ \/ r.cut] IN
           run' = IF r.calls = <<>>
                  THEN [heard EXCEPT !.pc = "returned", !.outcome = "answered"]
                  ELSE [heard EXCEPT !.pc = "call", !.todo = r.calls,
                           !.messages = Append(@, [role |-> "assistant",
                               ids |-> {Current + i : i \in 1..Len(r.calls)}])]
  BY DEF Answer
<1>3. r.text \in BOOLEAN
  BY <1>1, AnswerType
<1> DEFINE texts == KeepText(r.text)
           meant == run.meant \o r.meant
           cut == run.cut \/ r.cut
           messages == Append(run.messages, [role |-> "assistant",
                               ids |-> {Current + i : i \in 1..Len(r.calls)}])
           heard == [[[run EXCEPT !.texts = texts] EXCEPT !.meant = meant] EXCEPT !.cut = cut]
<1>4. run' = IF r.calls = <<>>
             THEN [heard EXCEPT !.pc = "returned", !.outcome = "answered"]
             ELSE [heard EXCEPT !.pc = "call", !.todo = r.calls, !.messages = messages]
  BY <1>2
<1> HIDE DEF texts, meant, cut, messages
<1>5. /\ run'.executed = run.executed /\ run'.results = run.results
      /\ run'.widgets = run.widgets /\ run'.texts = texts
      /\ run'.pc \in {"returned", "call"}
  BY <1>1, <1>4 DEF RunRecord
<1>6. QED
  BY <1>1, <1>2, <1>3, <1>5, TextReply DEF KeepsReply, texts

\* The loop goes on or ends, and keeps what it has.
LEMMA LoopGoes ==
    ASSUME run \in RunRecord, Iterate \/ AnswerFails
    PROVE  /\ run'.executed = run.executed /\ run'.results = run.results
           /\ run'.widgets = run.widgets /\ run'.texts = run.texts
           /\ run'.messages = run.messages /\ run'.todo = run.todo
           /\ run'.meant = run.meant /\ run'.cut = run.cut
           /\ run'.pc \in {"returned", "model"}
           /\ run'.pc = "model" => run.todo = <<>>
           /\ AnswerFails => run'.pc = "returned" /\ run'.outcome \in {"cancelled", "failed"}
<1>1. CASE \E o \in Outcome : Returns(o)
  <2>1. PICK o \in Outcome : run' = [run EXCEPT !.pc = "returned", !.outcome = o]
    BY <1>1 DEF Returns
  <2>2. AnswerFails => o \in {"cancelled", "failed"}
    <3>1. run'.outcome = o
      BY <2>1 DEF RunRecord
    <3>2. AnswerFails => \E q \in {"cancelled", "failed"} :
                            run' = [run EXCEPT !.pc = "returned", !.outcome = q]
      BY DEF AnswerFails, Returns
    <3>3. AnswerFails => run'.outcome \in {"cancelled", "failed"}
      BY <3>2 DEF RunRecord
    <3>4. QED
      BY <3>1, <3>3
  <2>3. QED
    BY <2>1, <2>2 DEF RunRecord
<1>2. CASE run' = [run EXCEPT !.pc = "model", !.iteration = @ + 1] /\ Iterate
  <2>1. run' = [run EXCEPT !.pc = "model", !.iteration = run.iteration + 1]
    BY <1>2
  <2>2. run.todo = <<>> /\ run.pc = "call"
    BY <1>2 DEF Iterate, RunAt
  <2>3. run'.pc = "model"
    BY <2>1 DEF RunRecord
  <2>4. ~AnswerFails
    BY <2>2 DEF AnswerFails, RunAt
  <2>5. QED
    BY <2>1, <2>2, <2>3, <2>4 DEF RunRecord
<1>3. QED
  BY <1>1, <1>2 DEF Iterate, AnswerFails, Outcome

LEMMA LoopReply ==
    ASSUME RunInv, ReplyInv, Loop
    PROVE  ReplyInv'
<1>1. run \in RunRecord
  BY DEF RunInv
<1>2. CASE Iterate
  <2>1. KeepsReply /\ run'.texts = run.texts /\ run'.pc \in {"returned", "model"}
        /\ run.pc = "call" /\ sent' = sent
    BY <1>1, <1>2, LoopGoes DEF Iterate, KeepsReply, RunAt
  <2>2. sent' = Streamed(FALSE) /\ run'.texts = KeepText(FALSE)
    BY <2>1 DEF Streamed, KeepText
  <2>3. QED
    BY <2>1, <2>2, TextReply
<1>3. CASE AnswerFails
  <2>1. /\ run.pc = "model" /\ KeepsReply /\ run'.pc = "returned"
        /\ run'.outcome \in {"cancelled", "failed"}
    BY <1>1, <1>3, LoopGoes DEF AnswerFails, KeepsReply, RunAt
  <2>2. PICK text \in BOOLEAN : sent' = Streamed(text)
    BY <1>3 DEF AnswerFails
  <2>3. QED
    BY <2>1, <2>2, TextReply
<1>4. CASE BeginTurn \/ EndTurn
  BY <1>4, NewReply DEF BeginTurn, EndTurn
<1>5. QED
  BY <1>2, <1>3, <1>4, AnswerReply, StartReply, EndReply DEF Loop

LEMMA ToolsReply ==
    ASSUME RunInv, ReplyInv, Tools, run' # run \/ sent' # sent
    PROVE  ReplyInv'
<1>1. run.pc = "execute"
  BY ToolRun
<1>2. run.executed[Current].src \in Nat
  <2>1. Current \in 1..Len(run.executed) /\ run.executed \in Seq(Call)
    BY <1>1, LenProperties, EmptySeq DEF RunInv, RunRecord, Current
  <2>2. run.executed[Current] \in Call
    BY <2>1, ElementOfSeq
  <2>3. QED
    BY <2>2 DEF Call
<1>3. \/ \E c \in Contents : Says(c) /\ sent' = sent
      \/ \E src \in Nat : Emit(src) /\ (src = 0 \/ ResolveResult(src))
  BY <1>2, ToolSays
<1>4. QED
  BY <1>1, <1>3, SaysReply, EmitReply

LEMMA ReplyStep == RunInv /\ ReplyInv /\ [Next]_vars => ReplyInv'
<1> SUFFICES ASSUME RunInv, ReplyInv, [Next]_vars PROVE ReplyInv'
  OBVIOUS
<1>1. CASE UNCHANGED <<run, sent>>
  <2>1. Counted' /\ ChartsHaveTheirRows'
    BY <1>1 DEF ReplyInv, Counted, ChartsHaveTheirRows
  <2>2. Told' /\ Announcements'
    BY <1>1 DEF ReplyInv, Told, Announcements
  <2>3. CallsAreBracketed'
    BY <1>1 DEF ReplyInv, CallsAreBracketed
  <2>4. QED
    BY <2>1, <2>2, <2>3 DEF ReplyInv
<1>2. CASE Panic \/ Restart
  BY <1>2, NewReply DEF Panic, Restart
<1>3. QED
  BY <1>1, <1>2, LoopReply, ToolsReply DEF Next, Deadline, vars, agentVars

LEMMA ReplyStart == Init => ReplyInv
<1> SUFFICES ASSUME Init PROVE ReplyInv
  OBVIOUS
<1>1. sent = <<>> /\ run = NoRun
  BY DEF Init
<1>2. /\ run.executed = <<>> /\ run.results = <<>> /\ run.widgets = <<>> /\ run.texts = <<>>
      /\ run.pc = "idle"
  BY <1>1 DEF NoRun
<1>3. Len(<<>>) = 0 /\ IdsOf(<<>>) = <<>> /\ [i \in 1..0 |-> i] = <<>>
  BY DEF IdsOf
<1>4. Counted /\ Announcements /\ CallsAreBracketed /\ ChartsHaveTheirRows
  BY <1>1, <1>2, <1>3 DEF Counted, Announcements, CallsAreBracketed, ChartsHaveTheirRows
<1>5. Told
  BY <1>1, <1>2, <1>3, NoIds DEF Told
<1>6. QED
  BY <1>4, <1>5 DEF ReplyInv

-----------------------------------------------------------------------------
(* What the model is sent *)

\* Of all calls so far the first done ones have results.  Those of an answer are
\* numbered from c + 1 to c + w.
CallsOf(m, c, w, done, all) ==
    /\ m.role = "assistant" /\ w >= 1
    /\ m.ids = c + 1..c + w
    /\ c <= done /\ c + w <= all

\* Each call that has a result has it in its place behind the answer, and an answer
\* whose calls are not done is the last one.
InPlace(messages, i, c, w, done) ==
    /\ \A k \in 1..w : c + k <= done =>
          /\ i + k <= Len(messages)
          /\ messages[i + k] = [role |-> "tool", ids |-> {c + k}]
    /\ c + w > done => i + done = Len(messages) + c

Paired(messages, done, all) ==
    \A i \in 1..Len(messages) : messages[i].role = "assistant" =>
       \E c, w \in 0..all :
          CallsOf(messages[i], c, w, done, all) /\ InPlace(messages, i, c, w, done)

\* The results of calls c + 1 to c + w that are in.
ResultsOf(c, w, done) == {x \in c + 1..c + w : x <= done}

\* The message in which Anthropic's API takes an answer is the last one, or is followed by
\* one with the results that are in.
Followed(out, i, c, w, done) ==
    \/ c = done /\ i = Len(out)
    \/ /\ c < done /\ i + 1 <= Len(out)
       /\ out[i + 1] = [role |-> "user", ids |-> ResultsOf(c, w, done)]
       /\ c + w > done => i + 1 = Len(out)

Gathered(out, done, all) ==
    \A i \in 1..Len(out) : out[i].role = "assistant" =>
       \E c, w \in 0..all :
          CallsOf(out[i], c, w, done, all) /\ Followed(out, i, c, w, done)

\* While calls are to be done, the last answer is theirs.
Unfinished(out, done, all) ==
    done < all =>
       \E i \in 1..Len(out) : \E c, w \in 0..all :
          /\ CallsOf(out[i], c, w, done, all) /\ c + w = all
          /\ i = Len(out) \/ i + 1 = Len(out)

Conversed(messages, done, all) ==
    /\ Paired(messages, done, all)
    /\ Gathered(AnthropicMessages(messages), done, all)
    /\ Unfinished(AnthropicMessages(messages), done, all)

MessageInv ==
    /\ run.pc = "model" => run.todo = <<>>
    /\ Conversed(run.messages, Len(run.results), Len(run.results) + Len(run.todo))

OutMessage == [role : {"assistant", "tool", "user"}, ids : SUBSET Nat]

\* An answer, and a result behind none, are appended; other results join the last message.
BlockAdds(out, new, m) ==
    /\ new \in Seq(OutMessage) /\ Len(new) = Len(out) + 1
    /\ \A i \in 1..Len(out) : new[i] = out[i]
    /\ new[Len(out) + 1] = IF m.role = "tool" THEN [role |-> "user", ids |-> m.ids] ELSE m

BlockJoins(out, new, m) ==
    /\ new \in Seq(OutMessage) /\ Len(new) = Len(out)
    /\ \A i \in 1..Len(out) :
          i # Len(out) => new[i] = out[i]
    /\ new[Len(out)] = [role |-> "user", ids |-> out[Len(out)].ids \cup m.ids]

LEMMA BlockIs ==
    ASSUME NEW out \in Seq(OutMessage), NEW m \in Message
    PROVE  IF m.role = "tool" /\ out # <<>> /\ out[Len(out)].role = "user"
           THEN BlockJoins(out, Block(out, m), m)
           ELSE BlockAdds(out, Block(out, m), m)
<1> DEFINE n == Len(out)
<1>1. n \in Nat /\ m \in OutMessage /\ m.ids \in SUBSET Nat
  BY LenProperties DEF Message, OutMessage
<1>2. CASE m.role # "tool"
  <2>1. Block(out, m) = Append(out, m)
    BY <1>2 DEF Block
  <2>2. QED
    BY <1>1, <1>2, <2>1, AppendProperties DEF BlockAdds
<1>3. CASE m.role = "tool" /\ ~(out # <<>> /\ out[n].role = "user")
  <2> DEFINE x == [m EXCEPT !.role = "user"]
  <2>1. x = [role |-> "user", ids |-> m.ids] /\ x \in OutMessage
    BY <1>1 DEF OutMessage
  <2>2. Block(out, m) = Append(out, x)
    BY <1>3 DEF Block, Last
  <2> HIDE DEF x
  <2>3. QED
    BY <1>3, <2>1, <2>2, AppendProperties DEF BlockAdds
<1>4. CASE m.role = "tool" /\ out # <<>> /\ out[n].role = "user"
  <2>1. n \in 1..n /\ \E k \in Nat : n = k + 1
    BY <1>1, <1>4, EmptySeq
  <2>2. PICK k \in Nat : n = k + 1
    BY <2>1
  <2>3. PICK o \in OutMessage : o = out[n]
    BY <2>1, ElementOfSeq
  <2>4. PICK u \in SUBSET Nat : u = o.ids \cup m.ids
    BY <1>1, <2>3 DEF OutMessage
  <2> DEFINE x == [role |-> "user", ids |-> u]
             f == SubSeq(out, 1, k)
  <2>5. [o EXCEPT !.ids = u] = x /\ x \in OutMessage
    BY <1>4, <2>3 DEF OutMessage
  <2>6. n - 1 = k
    BY <2>2
  <2>7. Block(out, m) = Append(f, x)
    BY <1>4, <2>3, <2>4, <2>5, <2>6 DEF Block, Last, Front
  <2> HIDE DEF x
  <2>8. f \in Seq(OutMessage) /\ Len(f) = k /\ \A i \in 1..k : f[i] = out[i]
    <3>1. \A i \in 1..k : i \in 1..n
      BY <2>2
    <3>2. \A i \in 1..k : out[i] \in OutMessage
      BY <3>1, ElementOfSeq
    <3>3. k \in Int /\ 1 \in Int
      OBVIOUS
    <3>4. /\ f \in Seq(OutMessage) /\ Len(f) = IF 1 <= k THEN k - 1 + 1 ELSE 0
          /\ \A i \in 1..k - 1 + 1 : f[i] = out[1 + i - 1]
      BY <3>2, <3>3, SubSeqProperties
    <3> HIDE DEF f
    <3>5. k - 1 + 1 = k /\ (~(1 <= k) => k = 0) /\ \A i \in 1..k : 1 + i - 1 = i
      OBVIOUS
    <3>6. QED
      BY <3>4, <3>5
  <2> HIDE DEF f
  <2>9. /\ Append(f, x) \in Seq(OutMessage) /\ Len(Append(f, x)) = Len(f) + 1
        /\ \A i \in 1..Len(f) : Append(f, x)[i] = f[i]
        /\ Append(f, x)[Len(f) + 1] = x
    BY <2>5, <2>8, AppendProperties
  <2>10. \A i \in 1..n : i # n => i \in 1..k
    BY <2>2
  <2> HIDE DEF n
  <2>11. /\ \A i \in 1..n : i # n => Block(out, m)[i] = out[i]
         /\ Block(out, m)[n] = [role |-> "user", ids |-> out[n].ids \cup m.ids]
    BY <2>2, <2>3, <2>4, <2>7, <2>8, <2>9, <2>10 DEF x
  <2>12. BlockJoins(out, Block(out, m), m)
    BY <2>2, <2>7, <2>8, <2>9, <2>11 DEF BlockJoins, n
  <2>13. QED
    BY <1>4, <2>12 DEF n
<1>5. QED
  BY <1>2, <1>3, <1>4

\* Messages are turned into Anthropic's one after the other.
BlockSteps(ms) == [i \in 1..Len(ms) |-> [a \in Seq(OutMessage) |-> Block(a, ms[i])]]

LEMMA BlockChain ==
    ASSUME NEW ms \in Seq(Message)
    PROVE  \E c : Chain(Seq(OutMessage), Len(ms), BlockSteps(ms), <<>>, c)
                  /\ c[Len(ms)] = AnthropicMessages(ms)
<1> DEFINE S == Seq(OutMessage)
           n == Len(ms)
           step == BlockSteps(ms)
           P(h) == h = [x \in SUBSET (1..n) |-> IF x = {} THEN <<>>
                                               ELSE Block(h[x \ {Max(x)}], ms[Max(x)])]
<1>1. n \in Nat /\ DOMAIN ms = 1..n /\ \A i \in 1..n : ms[i] \in Message
  BY LenProperties, ElementOfSeq
<1>2. step \in [1..n -> [S -> S]] /\ <<>> \in S
  <2>1. ASSUME NEW i \in 1..n, NEW a \in S PROVE Block(a, ms[i]) \in S
    BY <1>1, BlockIs DEF BlockJoins, BlockAdds
  <2>2. QED
    BY <2>1, EmptySeq DEF BlockSteps
<1>3. \A i \in 1..n : \A a \in S : step[i][a] = Block(a, ms[i])
  BY DEF BlockSteps
<1> HIDE DEF S, step, n
<1>4. PICK f : Folding(S, n, step, <<>>, f)
  BY <1>1, <1>2, FoldExists
<1>5. \A x \in SUBSET (1..n) : x # {} => Max(x) \in 1..n
  BY <1>1, MaxIn
<1>6. P(f)
  <2>1. \A x \in SUBSET (1..n) :
              f[x] = IF x = {} THEN <<>> ELSE Block(f[x \ {Max(x)}], ms[Max(x)])
    BY <1>3, <1>4, <1>5 DEF Folding
  <2>2. QED
    BY <1>4, <2>1 DEF Folding
<1> DEFINE h == CHOOSE h : P(h)
<1>7. P(h)
  <2> HIDE DEF P
  <2>1. QED
    BY <1>6
<1>8. AnthropicMessages(ms) = h[1..n]
  BY <1>1 DEF AnthropicMessages, FoldLeft, MapThenFoldSet
<1> HIDE DEF h
<1>9. Unfolding(S, n, step, <<>>, h)
  <2>1. \A x \in SUBSET (1..n) :
           h[x] = IF x = {} THEN <<>> ELSE Block(h[x \ {Max(x)}], ms[Max(x)])
    BY <1>7
  <2>2. QED
    BY <1>3, <1>5, <2>1 DEF Unfolding
<1>10. \E c : Chain(S, n, step, <<>>, c) /\ c[n] = h[1..n]
  BY <1>1, <1>2, <1>9, FoldChain
<1>11. QED
  BY <1>8, <1>10 DEF S, n, step

LEMMA NoBlocks == AnthropicMessages(<<>>) = <<>>
<1>1. <<>> \in Seq(Message) /\ Len(<<>>) = 0
  BY EmptySeq
<1>2. QED
  BY <1>1, BlockChain DEF Chain

LEMMA BlocksType ==
    ASSUME NEW ms \in Seq(Message)
    PROVE  AnthropicMessages(ms) \in Seq(OutMessage)
<1>1. Len(ms) \in Nat
  BY LenProperties
<1>2. QED
  BY <1>1, BlockChain DEF Chain

LEMMA BlockAppended ==
    ASSUME NEW ms \in Seq(Message), NEW m \in Message
    PROVE  AnthropicMessages(Append(ms, m)) = Block(AnthropicMessages(ms), m)
<1> DEFINE S == Seq(OutMessage)
           n == Len(ms)
           t == Append(ms, m)
<1>1. /\ n \in Nat /\ n + 1 \in Nat /\ t \in Seq(Message) /\ Len(t) = n + 1 /\ n <= n + 1
      /\ t[n + 1] = m /\ \A i \in 1..n : t[i] = ms[i]
  BY LenProperties, AppendProperties
<1> HIDE DEF t
<1>2. PICK c : Chain(S, n, BlockSteps(ms), <<>>, c) /\ c[n] = AnthropicMessages(ms)
  BY BlockChain
<1>3. PICK d : Chain(S, n + 1, BlockSteps(t), <<>>, d) /\ d[n + 1] = AnthropicMessages(t)
  BY <1>1, BlockChain
<1>4. \A k \in 1..n : \A a \in S : BlockSteps(t)[k][a] = BlockSteps(ms)[k][a]
  BY <1>1 DEF BlockSteps
<1> HIDE DEF S, n
<1>5. d[n] = c[n]
  BY <1>1, <1>2, <1>3, <1>4, ChainsAgree
<1>6. n + 1 \in 1..n + 1 /\ n \in 0..n + 1 /\ (n + 1) - 1 = n
  BY <1>1
<1>7. d[n] \in S /\ d[n + 1] = BlockSteps(t)[n + 1][d[n]]
  BY <1>3, <1>6 DEF Chain
<1>8. BlockSteps(t)[n + 1][d[n]] = Block(d[n], m)
  BY <1>1, <1>6, <1>7 DEF BlockSteps, S
<1>9. QED
  BY <1>2, <1>3, <1>5, <1>7, <1>8 DEF t

\* Numbers in a row tell where they begin and how many they are.
LEMMA RowsAreEqual ==
    ASSUME NEW c \in Nat, NEW w \in Nat, NEW d \in Nat, NEW v \in Nat,
           w >= 1, v >= 1, c + 1..c + w = d + 1..d + v
    PROVE  c = d /\ w = v
<1>1. c + 1 \in d + 1..d + v /\ d + 1 \in c + 1..c + w
  OBVIOUS
<1>2. c + w \in d + 1..d + v /\ d + v \in c + 1..c + w
  OBVIOUS
<1>3. QED
  BY <1>1, <1>2

\* A new answer, when all calls are done.
LEMMA AnswerPaired ==
    ASSUME NEW ms \in Seq(Message), NEW new \in Seq(Message), NEW m,
           NEW done \in Nat, NEW w \in Nat, w >= 1,
           Paired(ms, done, done),
           m.role = "assistant", m.ids = done + 1..done + w,
           Len(new) = Len(ms) + 1, \A i \in 1..Len(ms) : new[i] = ms[i],
           new[Len(ms) + 1] = m
    PROVE  Paired(new, done, done + w)
<1> DEFINE n == Len(ms)
<1>1. n \in Nat /\ Len(new) = n + 1
  BY LenProperties
<1> HIDE DEF n
<1>2. ASSUME NEW i \in 1..n + 1, new[i].role = "assistant"
      PROVE  \E c, u \in 0..done + w :
                CallsOf(new[i], c, u, done, done + w) /\ InPlace(new, i, c, u, done)
  <2>1. CASE i = n + 1
    <3>1. CallsOf(new[i], done, w, done, done + w)
      BY <2>1 DEF CallsOf, n
    <3>2. InPlace(new, i, done, w, done)
      BY <1>1, <2>1 DEF InPlace
    <3>3. done \in 0..done + w /\ w \in 0..done + w
      OBVIOUS
    <3>4. QED
      BY <3>1, <3>2, <3>3
  <2>2. CASE i # n + 1
    <3>1. i \in 1..n /\ new[i] = ms[i]
      BY <1>1, <2>2 DEF n
    <3>2. PICK c, u \in 0..done : CallsOf(ms[i], c, u, done, done) /\ InPlace(ms, i, c, u, done)
      BY <1>2, <3>1 DEF Paired, n
    <3>3. CallsOf(new[i], c, u, done, done + w) /\ ~(c + u > done)
      BY <3>1, <3>2 DEF CallsOf
    <3>4. ASSUME NEW k \in 1..u, c + k <= done
          PROVE  i + k <= n + 1 /\ new[i + k] = [role |-> "tool", ids |-> {c + k}]
      <4>1. i + k <= n /\ ms[i + k] = [role |-> "tool", ids |-> {c + k}]
        BY <3>2, <3>4 DEF InPlace, n
      <4>2. i + k \in 1..n
        BY <1>1, <3>1, <4>1
      <4>3. QED
        BY <1>1, <4>1, <4>2 DEF n
    <3>5. InPlace(new, i, c, u, done)
      BY <1>1, <3>3, <3>4 DEF InPlace
    <3>6. c \in 0..done + w /\ u \in 0..done + w
      OBVIOUS
    <3>7. QED
      BY <3>3, <3>5, <3>6
  <2>3. QED
    BY <2>1, <2>2
<1>3. QED
  BY <1>1, <1>2 DEF Paired

LEMMA PlacesAdd ==
    ASSUME NEW i \in Nat, NEW k \in Nat, NEW c \in Nat, NEW n \in Nat, NEW d \in Nat,
           i + d = n + c
    PROVE  i + (d + 1) = (n + 1) + c /\ (c + k = d + 1 => i + k = n + 1)
  OBVIOUS

\* The result of the next call.
LEMMA ResultPaired ==
    ASSUME NEW ms \in Seq(Message), NEW new \in Seq(Message),
           NEW done \in Nat, NEW all \in Nat, done < all,
           Paired(ms, done, all),
           Len(new) = Len(ms) + 1, \A i \in 1..Len(ms) : new[i] = ms[i],
           new[Len(ms) + 1] = [role |-> "tool", ids |-> {done + 1}]
    PROVE  Paired(new, done + 1, all)
<1> DEFINE n == Len(ms)
<1>1. n \in Nat /\ Len(new) = n + 1
  BY LenProperties
<1> HIDE DEF n
<1>2. ASSUME NEW i \in 1..n + 1, new[i].role = "assistant"
      PROVE  \E c, w \in 0..all :
                CallsOf(new[i], c, w, done + 1, all) /\ InPlace(new, i, c, w, done + 1)
  <2>1. i # n + 1
    BY <1>2 DEF n
  <2>2. i \in 1..n /\ new[i] = ms[i]
    BY <1>1, <2>1 DEF n
  <2>3. PICK c, w \in 0..all : CallsOf(ms[i], c, w, done, all) /\ InPlace(ms, i, c, w, done)
    BY <1>2, <2>2 DEF Paired, n
  <2>4. CallsOf(new[i], c, w, done + 1, all)
    BY <2>2, <2>3 DEF CallsOf
  <2>5. ASSUME NEW k \in 1..w, c + k <= done + 1
        PROVE  i + k <= n + 1 /\ new[i + k] = [role |-> "tool", ids |-> {c + k}]
    <3>1. CASE c + k <= done
      <4>1. i + k <= n /\ ms[i + k] = [role |-> "tool", ids |-> {c + k}]
        BY <2>3, <3>1 DEF InPlace, n
      <4>2. i + k \in 1..n
        BY <1>1, <2>2, <4>1
      <4>3. QED
        BY <1>1, <4>1, <4>2 DEF n
    <3>2. CASE c + k = done + 1
      <4>1. c + w > done
        BY <3>2
      <4>2. i + done = n + c
        BY <2>3, <4>1 DEF InPlace, n
      <4>3. i \in Nat /\ k \in Nat /\ c \in Nat
        BY <1>1
      <4>4. i + k = n + 1
        BY <1>1, <3>2, <4>2, <4>3
      <4>5. new[n + 1] = [role |-> "tool", ids |-> {done + 1}]
        BY DEF n
      <4>6. i + k <= n + 1
        BY <1>1, <4>4
      <4>7. QED
        BY <3>2, <4>4, <4>5, <4>6
    <3>3. QED
      BY <2>5, <3>1, <3>2
  <2>6. c + w > done + 1 => i + (done + 1) = (n + 1) + c
    <3>1. c + w > done + 1 => i + done = n + c
      BY <2>3 DEF InPlace, n
    <3>2. i \in Nat /\ c \in Nat /\ (c + w > done + 1 => c + w > done)
      BY <1>1
    <3>3. QED
      BY <1>1, <3>1, <3>2, PlacesAdd
  <2>7. InPlace(new, i, c, w, done + 1)
    BY <1>1, <2>5, <2>6 DEF InPlace
  <2>8. QED
    BY <2>4, <2>7
<1>3. QED
  BY <1>1, <1>2 DEF Paired

LEMMA AnswerGathered ==
    ASSUME NEW out \in Seq(OutMessage), NEW new \in Seq(OutMessage), NEW m,
           NEW done \in Nat, NEW w \in Nat, w >= 1,
           Gathered(out, done, done), BlockAdds(out, new, m),
           m.role = "assistant", m.ids = done + 1..done + w
    PROVE  Gathered(new, done, done + w) /\ Unfinished(new, done, done + w)
<1> DEFINE n == Len(out)
<1>1. /\ n \in Nat /\ Len(new) = n + 1 /\ new[n + 1] = m
      /\ \A i \in 1..n : new[i] = out[i]
  BY LenProperties DEF BlockAdds
<1> HIDE DEF n
<1>2. /\ CallsOf(new[n + 1], done, w, done, done + w) /\ Followed(new, n + 1, done, w, done)
      /\ done \in 0..done + w /\ w \in 0..done + w /\ n + 1 \in 1..n + 1
  BY <1>1 DEF CallsOf, Followed
<1>3. ASSUME NEW i \in 1..n + 1, new[i].role = "assistant"
      PROVE  \E c, u \in 0..done + w :
                CallsOf(new[i], c, u, done, done + w) /\ Followed(new, i, c, u, done)
  <2>1. CASE i = n + 1
    BY <1>2, <2>1
  <2>2. CASE i # n + 1
    <3>1. i \in 1..n /\ new[i] = out[i]
      BY <1>1, <2>2
    <3>2. PICK c, u \in 0..done : CallsOf(out[i], c, u, done, done) /\ Followed(out, i, c, u, done)
      BY <1>3, <3>1 DEF Gathered, n
    <3>3. CallsOf(new[i], c, u, done, done + w) /\ c < done /\ ~(c + u > done)
      BY <3>1, <3>2 DEF CallsOf
    <3>4. i + 1 <= n /\ out[i + 1] = [role |-> "user", ids |-> ResultsOf(c, u, done)]
      BY <3>2, <3>3 DEF Followed, n
    <3>5. i + 1 \in 1..n
      BY <1>1, <3>4
    <3>6. Followed(new, i, c, u, done)
      BY <1>1, <3>3, <3>4, <3>5 DEF Followed
    <3>7. c \in 0..done + w /\ u \in 0..done + w
      OBVIOUS
    <3>8. QED
      BY <3>3, <3>6, <3>7
  <2>3. QED
    BY <2>1, <2>2
<1>4. Gathered(new, done, done + w)
  BY <1>1, <1>3 DEF Gathered
<1>5. Unfinished(new, done, done + w)
  BY <1>1, <1>2 DEF Unfinished
<1>6. QED
  BY <1>4, <1>5

\* While calls are to be done, the message of the last answer is the last one, or is
\* followed by the last one, which holds results.
LEMMA LastAnswer ==
    ASSUME NEW out \in Seq(OutMessage), NEW done \in Nat, NEW all \in Nat, done < all,
           Gathered(out, done, all), Unfinished(out, done, all)
    PROVE  \E j \in 1..Len(out) : \E c, w \in 0..all :
              /\ CallsOf(out[j], c, w, done, all) /\ c + w = all
              /\ \/ j = Len(out) /\ c = done
                 \/ /\ j + 1 = Len(out) /\ c < done
                    /\ out[Len(out)] = [role |-> "user", ids |-> ResultsOf(c, w, done)]
<1>1. PICK j \in 1..Len(out) : \E c, w \in 0..all :
         CallsOf(out[j], c, w, done, all) /\ c + w = all
  BY DEF Unfinished
<1>2. PICK c, w \in 0..all : CallsOf(out[j], c, w, done, all) /\ c + w = all
  BY <1>1
<1>3. out[j].role = "assistant"
  BY <1>2 DEF CallsOf
<1>4. PICK d, v \in 0..all : CallsOf(out[j], d, v, done, all) /\ Followed(out, j, d, v, done)
  BY <1>3 DEF Gathered
<1>5. c + 1..c + w = d + 1..d + v /\ w >= 1 /\ v >= 1
  BY <1>2, <1>4 DEF CallsOf
<1>6. c \in Nat /\ w \in Nat /\ d \in Nat /\ v \in Nat
  OBVIOUS
<1>7. c = d /\ w = v
  BY <1>5, <1>6, RowsAreEqual
<1>8. c + w > done
  BY <1>2
<1>9. \/ j = Len(out) /\ c = done
      \/ /\ j + 1 = Len(out) /\ c < done
         /\ out[Len(out)] = [role |-> "user", ids |-> ResultsOf(c, w, done)]
  BY <1>4, <1>7, <1>8 DEF Followed
<1>10. QED
  BY <1>2, <1>9

\* One more result is in.
LEMMA ResultsGrow ==
    ASSUME NEW c \in Nat, NEW w \in Nat, NEW done \in Nat
    PROVE  /\ c <= done /\ done + 1 <= c + w
                => ResultsOf(c, w, done + 1) = ResultsOf(c, w, done) \cup {done + 1}
           /\ c = done => ResultsOf(c, w, done) = {}
           /\ c + w <= done => ResultsOf(c, w, done + 1) = ResultsOf(c, w, done)
<1>1. \A x \in c + 1..c + w : x \in Nat /\ c < x /\ x <= c + w
  OBVIOUS
<1>2. \A x \in Nat : x <= done + 1 <=> x <= done \/ x = done + 1
  OBVIOUS
<1>3. c <= done /\ done + 1 <= c + w => done + 1 \in c + 1..c + w
  OBVIOUS
<1>4. c <= done /\ done + 1 <= c + w
         => ResultsOf(c, w, done + 1) = ResultsOf(c, w, done) \cup {done + 1}
  BY <1>1, <1>2, <1>3 DEF ResultsOf
<1>5. c = done => ResultsOf(c, w, done) = {}
  <2>1. \A x \in c + 1..c + w : ~(x <= c)
    BY <1>1
  <2>2. QED
    BY <2>1 DEF ResultsOf
<1>6. c + w <= done => ResultsOf(c, w, done + 1) = ResultsOf(c, w, done)
  <2>1. c + w <= done => \A x \in c + 1..c + w : x <= done + 1 /\ x <= done
    BY <1>1
  <2>2. QED
    BY <2>1 DEF ResultsOf
<1>7. QED
  BY <1>4, <1>5, <1>6

\* A result joins others in the last message, or begins one behind the last answer.
LEMMA ResultJoins ==
    ASSUME NEW out \in Seq(OutMessage), NEW new \in Seq(OutMessage), NEW m,
           NEW done \in Nat, NEW all \in Nat, done < all,
           Gathered(out, done, all), Unfinished(out, done, all),
           m.ids = {done + 1}, out[Len(out)].role = "user", BlockJoins(out, new, m)
    PROVE  Gathered(new, done + 1, all) /\ Unfinished(new, done + 1, all)
<1> DEFINE n == Len(out)
<1>1. PICK j \in 1..n : \E c, w \in 0..all :
         /\ CallsOf(out[j], c, w, done, all) /\ c + w = all
         /\ \/ j = n /\ c = done
            \/ /\ j + 1 = n /\ c < done
               /\ out[n] = [role |-> "user", ids |-> ResultsOf(c, w, done)]
  BY LastAnswer
<1>2. PICK c, w \in 0..all :
         /\ CallsOf(out[j], c, w, done, all) /\ c + w = all
         /\ \/ j = n /\ c = done
            \/ /\ j + 1 = n /\ c < done
               /\ out[n] = [role |-> "user", ids |-> ResultsOf(c, w, done)]
  BY <1>1
<1>3. out[j].role = "assistant" /\ j # n
  BY <1>2 DEF CallsOf
<1>4. j + 1 = n /\ c < done /\ out[n] = [role |-> "user", ids |-> ResultsOf(c, w, done)]
  BY <1>2, <1>3
<1>5. n \in Nat /\ Len(new) = n /\ \A i \in 1..n : i # n => new[i] = out[i]
  BY LenProperties DEF BlockJoins
<1>6. new[n] = [role |-> "user", ids |-> out[n].ids \cup m.ids]
  BY DEF BlockJoins
<1>7. new[n] = [role |-> "user", ids |-> ResultsOf(c, w, done + 1)]
  <2>1. ResultsOf(c, w, done + 1) = ResultsOf(c, w, done) \cup {done + 1}
    <3>1. c \in Nat /\ w \in Nat /\ c <= done /\ done + 1 <= c + w
      BY <1>2, <1>4
    <3>2. QED
      BY <3>1, ResultsGrow
  <2>2. out[n].ids = ResultsOf(c, w, done)
    BY <1>4
  <2>3. QED
    BY <1>6, <2>1, <2>2
<1> HIDE DEF n
<1>8. CallsOf(new[j], c, w, done + 1, all) /\ new[j] = out[j]
  BY <1>2, <1>3, <1>4, <1>5 DEF CallsOf
<1>9. Unfinished(new, done + 1, all)
  BY <1>2, <1>4, <1>5, <1>8 DEF Unfinished
<1>10. ASSUME NEW i \in 1..n, new[i].role = "assistant"
       PROVE  \E d, v \in 0..all :
                 CallsOf(new[i], d, v, done + 1, all) /\ Followed(new, i, d, v, done + 1)
  <2>1. i # n /\ new[i] = out[i]
    BY <1>5, <1>7, <1>10
  <2>2. CASE i = j
    <3>1. Followed(new, i, c, w, done + 1)
      BY <1>4, <1>5, <1>7, <2>2 DEF Followed
    <3>2. QED
      BY <1>8, <2>2, <3>1
  <2>3. CASE i # j
    <3>1. PICK d, v \in 0..all :
             CallsOf(out[i], d, v, done, all) /\ Followed(out, i, d, v, done)
      BY <1>10, <2>1 DEF Gathered, n
    <3>2. i + 1 # n /\ i + 1 # n + 1
      BY <1>4, <1>5, <2>1, <2>3
    <3>3. /\ d < done /\ i + 1 <= n /\ ~(d + v > done)
          /\ out[i + 1] = [role |-> "user", ids |-> ResultsOf(d, v, done)]
      BY <2>1, <3>1, <3>2 DEF Followed, n
    <3>4. CallsOf(new[i], d, v, done + 1, all)
      BY <2>1, <3>1 DEF CallsOf
    <3>5. ResultsOf(d, v, done + 1) = ResultsOf(d, v, done)
      BY <3>3, ResultsGrow
    <3>6. i + 1 \in 1..n /\ new[i + 1] = out[i + 1]
      BY <1>5, <3>2, <3>3
    <3>7. Followed(new, i, d, v, done + 1)
      BY <1>5, <3>3, <3>5, <3>6 DEF Followed
    <3>8. QED
      BY <3>4, <3>7
  <2>4. QED
    BY <2>2, <2>3
<1>11. Gathered(new, done + 1, all)
  BY <1>5, <1>10 DEF Gathered
<1>12. QED
  BY <1>9, <1>11

LEMMA ResultBegins ==
    ASSUME NEW out \in Seq(OutMessage), NEW new \in Seq(OutMessage), NEW m,
           NEW done \in Nat, NEW all \in Nat, done < all,
           Gathered(out, done, all), Unfinished(out, done, all),
           m.role = "tool", m.ids = {done + 1},
           out = <<>> \/ out[Len(out)].role # "user", BlockAdds(out, new, m)
    PROVE  Gathered(new, done + 1, all) /\ Unfinished(new, done + 1, all)
<1> DEFINE n == Len(out)
<1>1. PICK j \in 1..n : \E c, w \in 0..all :
         /\ CallsOf(out[j], c, w, done, all) /\ c + w = all
         /\ \/ j = n /\ c = done
            \/ /\ j + 1 = n /\ c < done
               /\ out[n] = [role |-> "user", ids |-> ResultsOf(c, w, done)]
  BY LastAnswer
<1>2. PICK c, w \in 0..all :
         /\ CallsOf(out[j], c, w, done, all) /\ c + w = all
         /\ \/ j = n /\ c = done
            \/ /\ j + 1 = n /\ c < done
               /\ out[n] = [role |-> "user", ids |-> ResultsOf(c, w, done)]
  BY <1>1
<1>3. n \in Nat /\ out[n].role # "user"
  <2>1. n \in Nat /\ out # <<>>
    BY <1>1, LenProperties, EmptySeq
  <2>2. QED
    BY <2>1
<1>4. j = n /\ c = done /\ out[n].role = "assistant" /\ w >= 1
  BY <1>2, <1>3 DEF CallsOf
<1>5. Len(new) = n + 1 /\ \A i \in 1..n : new[i] = out[i]
  BY DEF BlockAdds
<1>6. new[n + 1] = [role |-> "user", ids |-> ResultsOf(c, w, done + 1)]
  <2>1. ResultsOf(c, w, done + 1) = ResultsOf(c, w, done) \cup {done + 1}
    <3>1. c \in Nat /\ w \in Nat /\ c <= done /\ done + 1 <= c + w
      BY <1>2, <1>4
    <3>2. QED
      BY <3>1, ResultsGrow
  <2>2. ResultsOf(c, w, done) = {}
    BY <1>4, ResultsGrow
  <2>3. new[n + 1] = [role |-> "user", ids |-> m.ids]
    BY DEF BlockAdds
  <2>4. QED
    BY <2>1, <2>2, <2>3
<1> HIDE DEF n
<1>7. CallsOf(new[j], c, w, done + 1, all) /\ new[j] = out[j]
  BY <1>2, <1>4, <1>5 DEF CallsOf
<1>8. Unfinished(new, done + 1, all)
  <2>1. j \in 1..n + 1 /\ j + 1 = n + 1
    BY <1>3, <1>4
  <2>2. QED
    BY <1>2, <1>5, <1>7, <2>1 DEF Unfinished
<1>9. ASSUME NEW i \in 1..n + 1, new[i].role = "assistant"
      PROVE  \E d, v \in 0..all :
                CallsOf(new[i], d, v, done + 1, all) /\ Followed(new, i, d, v, done + 1)
  <2>1. i # n + 1
    BY <1>6, <1>9
  <2>2. i \in 1..n /\ new[i] = out[i]
    BY <1>3, <1>5, <2>1
  <2>3. CASE i = j
    <3>1. Followed(new, i, c, w, done + 1)
      BY <1>3, <1>4, <1>5, <1>6, <2>3 DEF Followed
    <3>2. QED
      BY <1>7, <2>3, <3>1
  <2>4. CASE i # j
    <3>1. PICK d, v \in 0..all :
             CallsOf(out[i], d, v, done, all) /\ Followed(out, i, d, v, done)
      BY <1>9, <2>2 DEF Gathered, n
    <3>2. i # n
      BY <1>4, <2>4
    <3>3. /\ d < done /\ i + 1 <= n
          /\ out[i + 1] = [role |-> "user", ids |-> ResultsOf(d, v, done)]
          /\ d + v > done => i + 1 = n
      BY <3>1, <3>2 DEF Followed, n
    <3>4. ~(d + v > done)
      BY <1>3, <3>3
    <3>5. CallsOf(new[i], d, v, done + 1, all)
      BY <2>2, <3>1 DEF CallsOf
    <3>6. ResultsOf(d, v, done + 1) = ResultsOf(d, v, done)
      BY <3>4, ResultsGrow
    <3>7. i + 1 \in 1..n /\ new[i + 1] = out[i + 1]
      BY <1>3, <1>5, <3>3
    <3>8. d < done + 1 /\ i + 1 <= n + 1 /\ ~(d + v > done + 1)
      BY <1>3, <3>3, <3>4
    <3>9. Followed(new, i, d, v, done + 1)
      BY <1>5, <3>3, <3>6, <3>7, <3>8 DEF Followed
    <3>10. QED
      BY <3>5, <3>9
  <2>5. QED
    BY <2>3, <2>4
<1>10. Gathered(new, done + 1, all)
  BY <1>5, <1>9 DEF Gathered
<1>11. QED
  BY <1>8, <1>10

\* An answer, and a result, join the messages.
LEMMA AnswerJoins ==
    ASSUME NEW ms \in Seq(Message), NEW done \in Nat, NEW w \in Nat, w >= 1,
           NEW m \in Message, Conversed(ms, done, done),
           m.role = "assistant", m.ids = done + 1..done + w
    PROVE  Conversed(Append(ms, m), done, done + w)
<1> DEFINE out == AnthropicMessages(ms)
           new == Append(ms, m)
<1>1. out \in Seq(OutMessage)
  BY BlocksType
<1>2. AnthropicMessages(new) = Block(out, m)
  BY BlockAppended
<1>3. /\ new \in Seq(Message) /\ Len(new) = Len(ms) + 1 /\ new[Len(ms) + 1] = m
      /\ \A i \in 1..Len(ms) : new[i] = ms[i]
  BY AppendProperties
<1>4. BlockAdds(out, Block(out, m), m)
  BY <1>1, BlockIs
<1> HIDE DEF out, new
<1>5. Paired(new, done, done + w)
  BY <1>3, AnswerPaired DEF Conversed
<1>6. Block(out, m) \in Seq(OutMessage)
  BY <1>4 DEF BlockAdds
<1>7. Gathered(out, done, done)
  BY DEF Conversed, out
<1>8. /\ Gathered(Block(out, m), done, done + w)
      /\ Unfinished(Block(out, m), done, done + w)
  BY <1>1, <1>4, <1>6, <1>7, AnswerGathered
<1>9. QED
  BY <1>2, <1>5, <1>8 DEF Conversed, new

LEMMA ResultJoinsMessages ==
    ASSUME NEW ms \in Seq(Message), NEW done \in Nat, NEW all \in Nat, done < all,
           NEW m \in Message, Conversed(ms, done, all),
           m = [role |-> "tool", ids |-> {done + 1}]
    PROVE  Conversed(Append(ms, m), done + 1, all)
<1> DEFINE out == AnthropicMessages(ms)
           new == Append(ms, m)
<1>1. out \in Seq(OutMessage)
  BY BlocksType
<1>2. AnthropicMessages(new) = Block(out, m)
  BY BlockAppended
<1>3. /\ new \in Seq(Message) /\ Len(new) = Len(ms) + 1 /\ new[Len(ms) + 1] = m
      /\ \A i \in 1..Len(ms) : new[i] = ms[i]
  BY AppendProperties
<1> HIDE DEF out, new
<1>4. Paired(new, done + 1, all)
  BY <1>3, ResultPaired DEF Conversed
<1>5. Gathered(out, done, all) /\ Unfinished(out, done, all)
  BY DEF Conversed, out
<1>6. m.role = "tool" /\ m.ids = {done + 1}
  OBVIOUS
<1>7. CASE out # <<>> /\ out[Len(out)].role = "user"
  <2>1. BlockJoins(out, Block(out, m), m)
    BY <1>1, <1>6, <1>7, BlockIs
  <2>2. Block(out, m) \in Seq(OutMessage)
    BY <2>1 DEF BlockJoins
  <2>3. /\ Gathered(Block(out, m), done + 1, all)
        /\ Unfinished(Block(out, m), done + 1, all)
    BY <1>1, <1>5, <1>6, <1>7, <2>1, <2>2, ResultJoins
  <2>4. QED
    BY <1>2, <1>4, <2>3 DEF Conversed, new
<1>8. CASE ~(out # <<>> /\ out[Len(out)].role = "user")
  <2>1. BlockAdds(out, Block(out, m), m)
    BY <1>1, <1>6, <1>8, BlockIs
  <2>2. Block(out, m) \in Seq(OutMessage)
    BY <2>1 DEF BlockAdds
  <2>3. /\ Gathered(Block(out, m), done + 1, all)
        /\ Unfinished(Block(out, m), done + 1, all)
    BY <1>1, <1>5, <1>6, <1>8, <2>1, <2>2, ResultBegins
  <2>4. QED
    BY <1>2, <1>4, <2>3 DEF Conversed, new
<1>9. QED
  BY <1>7, <1>8

\* The messages are left as they are, or forgotten.
KeepsMessages ==
    /\ run'.messages = run.messages /\ run'.results = run.results /\ run'.todo = run.todo
    /\ run'.pc = "model" => run.todo = <<>>

LEMMA SameMessages ==
    ASSUME MessageInv, KeepsMessages
    PROVE  MessageInv'
  BY DEF MessageInv, KeepsMessages

LEMMA NoMessages ==
    ASSUME NEW done, NEW all, done = 0, all = 0
    PROVE  Conversed(<<>>, done, all)
<1>1. Len(<<>>) = 0 /\ 1..0 = {}
  BY EmptySeq
<1>2. AnthropicMessages(<<>>) = <<>>
  BY NoBlocks
<1>3. QED
  BY <1>1, <1>2 DEF Conversed, Paired, Gathered, Unfinished

LEMMA NewMessages ==
    ASSUME run'.messages = <<>>, run'.results = <<>>, run'.todo = <<>>
    PROVE  MessageInv'
<1>1. Len(<<>>) = 0 /\ 0 + 0 = 0
  BY EmptySeq
<1>2. Conversed(<<>>, 0, 0 + 0)
  BY <1>1, NoMessages
<1>3. QED
  BY <1>1, <1>2 DEF MessageInv

LEMMA AnswerMessages ==
    ASSUME RunInv, Counted, MessageInv, Answer
    PROVE  MessageInv'
<1>1. run.pc = "model" /\ run.iteration \in 1..MaxIterations /\ run \in RunRecord
  BY DEF RunInv, Answer, RunAt
<1>2. PICK r \in Answers[run.iteration] :
         LET heard == [run EXCEPT !.texts = KeepText(r.text),
                             !.meant = @ \o r.meant, !.cut = @ \/ r.cut] IN
           run' = IF r.calls = <<>>
                  THEN [heard EXCEPT !.pc = "returned", !.outcome = "answered"]
                  ELSE [heard EXCEPT !.pc = "call", !.todo = r.calls,
                           !.messages = Append(@, [role |-> "assistant",
                               ids |-> {Current + i : i \in 1..Len(r.calls)}])]
  BY DEF Answer
<1>3. r.calls \in Seq(Call)
  BY <1>1, AnswerType
<1> DEFINE texts == KeepText(r.text)
           meant == run.meant \o r.meant
           cut == run.cut \/ r.cut
           m == [role |-> "assistant", ids |-> {Current + i : i \in 1..Len(r.calls)}]
           messages == Append(run.messages, m)
           heard == [[[run EXCEPT !.texts = texts] EXCEPT !.meant = meant] EXCEPT !.cut = cut]
           done == Len(run.results)
           w == Len(r.calls)
<1>4. run' = IF r.calls = <<>>
             THEN [heard EXCEPT !.pc = "returned", !.outcome = "answered"]
             ELSE [heard EXCEPT !.pc = "call", !.todo = r.calls, !.messages = messages]
  BY <1>2
<1>5. run.todo = <<>> /\ Len(run.todo) = 0
  BY <1>1, EmptySeq DEF MessageInv
<1>6. CASE r.calls = <<>>
  <2> HIDE DEF texts, meant, cut, messages
  <2>1. KeepsMessages
    BY <1>1, <1>4, <1>5, <1>6 DEF KeepsMessages, RunRecord
  <2>2. QED
    BY <2>1, SameMessages
<1>7. CASE r.calls # <<>>
  <2>1. done \in Nat /\ w \in Nat /\ w >= 1 /\ Current = done
    BY <1>1, <1>3, <1>7, LenProperties, EmptySeq DEF Counted, Current, RunRecord
  <2>2. run.messages \in Seq(Message)
    BY <1>1 DEF RunRecord
  <2>3. m.ids = done + 1..done + w /\ m.role = "assistant"
    <3> HIDE DEF done, w
    <3>1. {done + i : i \in 1..w} = done + 1..done + w
      <4>1. ASSUME NEW x \in done + 1..done + w PROVE x \in {done + i : i \in 1..w}
        <5>1. x - done \in 1..w /\ x = done + (x - done)
          BY <2>1
        <5>2. QED
          BY <5>1
      <4>2. \A i \in 1..w : done + i \in done + 1..done + w
        BY <2>1
      <4>3. QED
        BY <4>1, <4>2
    <3>2. QED
      BY <2>1, <3>1 DEF w
  <2>4. m \in Message
    <3>1. \A i \in 1..w : Current + i \in Nat
      BY <2>1
    <3>2. QED
      BY <3>1 DEF Message
  <2> HIDE DEF m
  <2>5. Conversed(run.messages, done, done)
    <3>1. done + 0 = done
      BY <2>1
    <3>2. QED
      BY <1>5, <3>1 DEF MessageInv
  <2> HIDE DEF texts, meant, cut, done, w
  <2>6. Conversed(messages, done, done + w)
    BY <2>1, <2>2, <2>3, <2>4, <2>5, AnswerJoins
  <2> HIDE DEF messages
  <2>7. /\ run'.messages = messages /\ run'.results = run.results /\ run'.todo = r.calls
        /\ run'.pc = "call"
    BY <1>1, <1>4, <1>7 DEF RunRecord
  <2>8. QED
    BY <2>6, <2>7 DEF MessageInv, done, w
<1>8. QED
  BY <1>6, <1>7

LEMMA EndMessages ==
    ASSUME RunInv, Counted, MessageInv, EndCall
    PROVE  MessageInv'
<1> DEFINE x == [id |-> Current, rows |-> run.content = "rows"]
           m == [role |-> "tool", ids |-> {Current}]
           todo == Tail(run.todo)
           results == Append(run.results, x)
           messages == Append(run.messages, m)
           done == Len(run.results)
           all == Len(run.results) + Len(run.todo)
<1>1. run.pc = "end" /\ run \in RunRecord /\ run.todo # <<>>
  BY DEF RunInv, EndCall, RunAt
<1>2. run' = [run EXCEPT !.pc = "call", !.todo = todo, !.content = None,
                         !.results = results, !.messages = messages]
  BY DEF EndCall
<1>3. /\ run.results \in Seq(Result) /\ run.todo \in Seq(Call)
      /\ run.messages \in Seq(Message)
  BY <1>1 DEF RunRecord
<1>4. done \in Nat /\ Current = done + 1
  BY <1>1, <1>3, LenProperties DEF Counted, Current
<1>5. Len(run.todo) \in Nat /\ Len(run.todo) # 0
  BY <1>1, <1>3, LenProperties, EmptySeq
<1>6. Len(todo) = Len(run.todo) - 1
  BY <1>1, <1>3, HeadTailProperties
<1>7. x \in Result
  BY <1>4 DEF Result
<1> HIDE DEF x
<1>8. Len(results) = done + 1
  BY <1>3, <1>7, AppendProperties
<1>9. m \in Message /\ m = [role |-> "tool", ids |-> {done + 1}]
  BY <1>4 DEF Message
<1>10. Conversed(run.messages, done, all)
  BY DEF MessageInv
<1>11. /\ done \in Nat /\ all \in Nat /\ done < all
       /\ (done + 1) + Len(todo) = all
  <2>1. PICK d \in Nat : d = done
    BY <1>4
  <2>2. PICK l \in Nat : l = Len(run.todo) /\ l # 0
    BY <1>5
  <2>3. \E k \in Nat : l = k + 1
    BY <2>2
  <2>4. PICK k \in Nat : l = k + 1
    BY <2>3
  <2>5. d + (k + 1) \in Nat /\ d < d + (k + 1) /\ (d + 1) + k = d + (k + 1)
    OBVIOUS
  <2>6. all = d + (k + 1) /\ Len(todo) = k
    BY <1>6, <2>1, <2>2, <2>4
  <2> HIDE DEF done, all, todo
  <2>7. QED
    BY <2>1, <2>5, <2>6
<1> HIDE DEF m, todo, results, done, all
<1>12. Conversed(messages, done + 1, all)
  BY <1>3, <1>4, <1>9, <1>10, <1>11, ResultJoinsMessages
<1> HIDE DEF messages
<1>13. /\ run'.messages = messages /\ run'.results = results /\ run'.todo = todo
       /\ run'.pc = "call"
  BY <1>1, <1>2 DEF RunRecord
<1>14. QED
  BY <1>8, <1>11, <1>12, <1>13 DEF MessageInv

LEMMA LoopMessages ==
    ASSUME RunInv, Counted, MessageInv, Loop
    PROVE  MessageInv'
<1>1. run \in RunRecord
  BY DEF RunInv
<1>2. CASE Iterate \/ AnswerFails
  <2>1. KeepsMessages
    BY <1>1, <1>2, LoopGoes DEF KeepsMessages
  <2>2. QED
    BY <2>1, SameMessages
<1>3. CASE StartCall
  <2> DEFINE e == Append(run.executed, Head(run.todo))
  <2>1. \/ run' = [run EXCEPT !.pc = "returned", !.outcome = "cancelled"]
        \/ run' = [run EXCEPT !.pc = "execute", !.executed = e]
    BY <1>3 DEF StartCall, Returns
  <2> HIDE DEF e
  <2>2. KeepsMessages
    BY <1>1, <2>1 DEF RunRecord, KeepsMessages
  <2>3. QED
    BY <2>2, SameMessages
<1>4. CASE BeginTurn \/ EndTurn
  <2>1. run'.messages = <<>> /\ run'.results = <<>> /\ run'.todo = <<>>
    <3>1. /\ NoRun.messages = <<>> /\ NoRun.results = <<>> /\ NoRun.todo = <<>>
          /\ NoRun \in RunRecord
      BY NoRunType DEF NoRun
    <3>2. CASE BeginTurn
      <4>1. run' = [NoRun EXCEPT !.pc = "model", !.iteration = 1]
        BY <3>2 DEF BeginTurn
      <4>2. QED
        BY <3>1, <4>1 DEF RunRecord
    <3>3. CASE EndTurn
      BY <3>1, <3>3 DEF EndTurn
    <3>4. QED
      BY <1>4, <3>2, <3>3
  <2>2. QED
    BY <2>1, NewMessages
<1>5. QED
  BY <1>2, <1>3, <1>4, AnswerMessages, EndMessages DEF Loop

LEMMA ToolsMessages ==
    ASSUME RunInv, MessageInv, Tools, run' # run
    PROVE  MessageInv'
<1>1. run \in RunRecord /\ run.pc = "execute"
  BY ToolRun DEF RunInv
<1>2. \/ \E c \in Contents : Says(c)
      \/ \E src : Emit(src)
  BY ToolSays
<1>3. KeepsMessages
  <2>1. CASE \E c \in Contents : Says(c)
    BY <1>1, <2>1 DEF Says, RunRecord, KeepsMessages
  <2>2. CASE \E src : Emit(src)
    <3>1. PICK src : Emit(src)
      BY <2>2
    <3> DEFINE widgets == IF Len(run.widgets) >= MaxWidgets THEN run.widgets
                          ELSE Append(run.widgets, [id |-> Current, src |-> src])
    <3>2. run' = [run EXCEPT !.pc = "end", !.content = "words", !.widgets = widgets]
      BY <3>1 DEF Emit
    <3> HIDE DEF widgets
    <3>3. QED
      BY <1>1, <3>2 DEF RunRecord, KeepsMessages
  <2>3. QED
    BY <1>2, <2>1, <2>2
<1>4. QED
  BY <1>3, SameMessages

LEMMA MessageStep == RunInv /\ Counted /\ MessageInv /\ [Next]_vars => MessageInv'
<1> SUFFICES ASSUME RunInv, Counted, MessageInv, [Next]_vars PROVE MessageInv'
  OBVIOUS
<1>1. CASE run' = run
  BY <1>1 DEF MessageInv
<1>2. CASE Panic \/ Restart
  <2>1. run'.messages = <<>> /\ run'.results = <<>> /\ run'.todo = <<>>
    BY <1>2 DEF Panic, Restart, NoRun
  <2>2. QED
    BY <2>1, NewMessages
<1>3. QED
  BY <1>1, <1>2, LoopMessages, ToolsMessages DEF Next, Deadline, vars, agentVars

LEMMA MessageStart == Init => MessageInv
<1> SUFFICES ASSUME Init PROVE MessageInv
  OBVIOUS
<1>1. /\ run.messages = <<>> /\ run.results = <<>> /\ run.todo = <<>>
      /\ Len(<<>>) = 0 /\ 0 + 0 = 0
  BY EmptySeq DEF Init, NoRun
<1>2. Conversed(<<>>, 0, 0 + 0)
  BY <1>1, NoMessages
<1>3. QED
  BY <1>1, <1>2 DEF MessageInv

\* When the model is asked, all calls are done, and every answer has its results.
LEMMA CallIsPlaced ==
    ASSUME NEW c \in Nat, NEW w \in Nat, NEW id \in c + 1..c + w
    PROVE  \E k \in 1..w : id = c + k /\ Cardinality({j \in c + 1..c + w : j <= id}) = k
<1> DEFINE k == id - c
<1>1. k \in 1..w /\ id = c + k /\ k \in Nat
  OBVIOUS
<1>2. {j \in c + 1..c + w : j <= id} = c + 1..c + k
  BY <1>1
<1>3. c + 1 \in Int /\ c + k \in Int /\ c + 1 <= c + k /\ (c + k) - (c + 1) + 1 = k
  BY <1>1
<1>4. Cardinality(c + 1..c + k) = k
  <2> HIDE DEF k
  <2>1. Cardinality(c + 1..c + k)
           = IF c + 1 > c + k THEN 0 ELSE (c + k) - (c + 1) + 1
    BY <1>3, FS_Interval
  <2>2. QED
    BY <1>3, <2>1
<1>5. QED
  BY <1>1, <1>2, <1>4

LEMMA PairedMessagesAreTaken ==
    ASSUME RunInv, MessageInv
    PROVE  ModelSeesEveryResult /\ AnthropicTakesMessages
<1> SUFFICES ASSUME RunAt("model") PROVE ModelSeesEveryResult /\ AnthropicTakesMessages
  BY DEF ModelSeesEveryResult, AnthropicTakesMessages
<1> DEFINE done == Len(run.results)
           ms == run.messages
           out == AnthropicMessages(run.messages)
<1>1. Conversed(ms, done, done) /\ done \in Nat
  <2>1. run.todo = <<>> /\ Len(<<>>) = 0
    BY EmptySeq DEF MessageInv, RunAt
  <2>2. done \in Nat /\ done + 0 = done
    BY LenProperties DEF RunInv, RunRecord
  <2>3. QED
    BY <2>1, <2>2 DEF MessageInv
<1> HIDE DEF done
<1>2. ASSUME NEW i \in 1..Len(ms), ms[i].role = "assistant", NEW id \in ms[i].ids
      PROVE  LET k == i + Cardinality({j \in ms[i].ids : j <= id}) IN
             k <= Len(ms) /\ ms[k] = [role |-> "tool", ids |-> {id}]
  <2>1. PICK c, w \in 0..done : CallsOf(ms[i], c, w, done, done) /\ InPlace(ms, i, c, w, done)
    BY <1>1, <1>2 DEF Conversed, Paired
  <2>2. c \in Nat /\ w \in Nat /\ ms[i].ids = c + 1..c + w /\ c + w <= done
    BY <1>1, <2>1 DEF CallsOf
  <2>3. PICK k \in 1..w : id = c + k /\ Cardinality({j \in c + 1..c + w : j <= id}) = k
    <3>1. id \in c + 1..c + w
      BY <1>2, <2>2
    <3> HIDE DEF ms, done
    <3>2. QED
      BY <2>2, <3>1, CallIsPlaced
  <2>4. c + k <= done
    BY <1>1, <2>2
  <2>5. i + k <= Len(ms) /\ ms[i + k] = [role |-> "tool", ids |-> {c + k}]
    BY <2>1, <2>4 DEF InPlace
  <2>6. Cardinality({j \in ms[i].ids : j <= id}) = k
    BY <2>2, <2>3
  <2> HIDE DEF ms
  <2>7. QED
    BY <2>3, <2>5, <2>6
<1>3. ASSUME NEW i \in 1..Len(out), out[i].role = "assistant"
      PROVE  i < Len(out) /\ out[i + 1] = [role |-> "user", ids |-> out[i].ids]
  <2>1. PICK c, w \in 0..done :
           CallsOf(out[i], c, w, done, done) /\ Followed(out, i, c, w, done)
    BY <1>1, <1>3 DEF Conversed, Gathered
  <2>2. /\ c \in Nat /\ w \in Nat /\ w >= 1 /\ out[i].ids = c + 1..c + w
        /\ c + w <= done /\ c < done
    BY <1>1, <2>1 DEF CallsOf
  <2>3. i + 1 <= Len(out) /\ out[i + 1] = [role |-> "user", ids |-> ResultsOf(c, w, done)]
    BY <1>1, <2>1, <2>2 DEF Followed
  <2>4. ResultsOf(c, w, done) = c + 1..c + w
    BY <1>1, <2>2 DEF ResultsOf
  <2>5. Len(out) \in Nat
    BY BlocksType, LenProperties DEF RunInv, RunRecord
  <2> HIDE DEF out
  <2>6. i < Len(out)
    BY <2>3, <2>5
  <2>7. QED
    BY <2>2, <2>3, <2>4, <2>6
<1>4. ModelSeesEveryResult
  BY <1>2 DEF ModelSeesEveryResult
<1>5. AnthropicTakesMessages
  BY <1>3 DEF AnthropicTakesMessages
<1>6. QED
  BY <1>4, <1>5

-----------------------------------------------------------------------------
(* What a whole stream says.  P are the places of fragments, f what they   *)
(* carry, ix the index of each of the n calls, first and second the places *)
(* of its two pieces.                                                      *)

\* Those of the two pieces of a call, at x and y, that are in R.
Said(R, k, x, y) == Pieces(k, x \in R, y \in R)

\* The server keeps to its protocol.
Tells(P, f, n, ix, first, second) ==
    /\ P \subseteq Nat \X Nat /\ f \in [P -> Fragment]
    /\ ix \in [1..n -> Nat] /\ first \in [1..n -> P] /\ second \in [1..n -> P]
    /\ \A k, l \in 1..n : ix[k] = ix[l] => k = l
    /\ \A p \in P : \E k \in 1..n :
          /\ f[p].index = ix[k] /\ f[p].id \in {0, k}
          /\ \A l \in 1..k - 1 : \E q \in P : Precedes(q, p) /\ f[q].index = ix[l]
    /\ \A k \in 1..n :
          /\ \E p \in P : f[p].index = ix[k] /\ f[p].id = k
          /\ f[first[k]].index = ix[k] /\ f[second[k]].index = ix[k]
          /\ ~Precedes(second[k], first[k])
          /\ \A r \in P : f[r].index = ix[k] =>
                f[r].args = Said({r}, k, first[k], second[k])

\* The first b calls, and no others, have begun in the places R.
Begun(R, f, n, ix, b) ==
    b \in 0..n /\ \A l \in 1..n : l <= b <=> \E q \in R : f[q].index = ix[l]

\* What has been gathered of a call.
Part(R, f, ix, first, second, k) ==
    [index |-> ix[k],
     id |-> IF \E q \in R : f[q].index = ix[k] /\ f[q].id = k THEN k ELSE 0,
     args |-> Said(R, k, first[k], second[k])]

Parts(R, f, ix, first, second, b) == [k \in 1..b |-> Part(R, f, ix, first, second, k)]

\* What is gathered of the fragments at R, and no more.
Collected(R, f, n, ix, first, second, g) ==
    \E b : Begun(R, f, n, ix, b) /\ g = Parts(R, f, ix, first, second, b)

\* The places before p, and p as well.
Before(P, p) == {q \in P : Precedes(q, p)}
With(R, p)   == R \cup {p}

LEMMA PiecesType ==
    ASSUME NEW R, NEW k \in Nat, NEW u, NEW v
    PROVE  Said(R, k, u, v) \in Seq(Nat \X Nat)
<1>1. <<k, 1>> \in Nat \X Nat /\ <<k, 2>> \in Nat \X Nat
  OBVIOUS
<1> DEFINE a == <<k, 1>>
           b == <<k, 2>>
           T == Nat \X Nat
<1> HIDE DEF a, b, T
<1>2. <<a>> \in Seq(T) /\ <<b>> \in Seq(T) /\ <<>> \in Seq(T)
  BY <1>1 DEF a, b, T
<1>3. (IF u \in R THEN <<a>> ELSE <<>>) \in Seq(T) /\ (IF v \in R THEN <<b>> ELSE <<>>) \in Seq(T)
  BY <1>2
<1>4. (IF u \in R THEN <<a>> ELSE <<>>) \o (IF v \in R THEN <<b>> ELSE <<>>) \in Seq(T)
  BY <1>3, ConcatProperties
<1> QED
  BY <1>4 DEF Said, Pieces, a, b, T

\* Of the pieces at x and y, the first is not in Q when the second is in R.
InOrder(R, Q, S, x, y) ==
    S = R \cup Q /\ ~(x \in R /\ x \in Q) /\ ~(y \in R /\ x \in Q) /\ ~(y \in R /\ y \in Q)

Joins(R, Q, S, k, x, y) == Said(R, k, x, y) \o Said(Q, k, x, y) = Said(S, k, x, y)

\* Pieces that come in order make the call.
LEMMA PiecesJoin ==
    ASSUME NEW k \in Nat, NEW x, NEW y, NEW R, NEW Q, NEW S, InOrder(R, Q, S, x, y)
    PROVE  Joins(R, Q, S, k, x, y)
<1>0. S = R \cup Q /\ ~(x \in R /\ x \in Q) /\ ~(y \in R /\ x \in Q) /\ ~(y \in R /\ y \in Q)
  BY DEF InOrder
<1> SUFFICES Said(R, k, x, y) \o Said(Q, k, x, y) = Said(S, k, x, y)
  BY DEF Joins
<1> DEFINE a == <<<<k, 1>>>>
           b == <<<<k, 2>>>>
           T == Nat \X Nat
<1>1. <<k, 1>> \in T /\ <<k, 2>> \in T
  OBVIOUS
<1>2. a \in Seq(T) /\ b \in Seq(T) /\ <<>> \in Seq(T)
  <2> HIDE DEF T
  <2> QED
    BY <1>1
<1> HIDE DEF a, b, T
<1>3. a \o b \in Seq(T)
  BY <1>2, ConcatProperties
<1>4. /\ a \o <<>> = a /\ <<>> \o a = a /\ b \o <<>> = b /\ <<>> \o b = b
      /\ (a \o b) \o <<>> = a \o b /\ <<>> \o (a \o b) = a \o b /\ <<>> \o <<>> = <<>>
  BY <1>2, <1>3, ConcatEmptySeq
<1>5. CASE x \in Q
  <2>1. x \notin R /\ y \notin R
    BY <1>0, <1>5
  <2>2. Said(R, k, x, y) = <<>>
    BY <1>4, <2>1 DEF Said, Pieces
  <2>3. Said(S, k, x, y) = Said(Q, k, x, y)
    BY <1>0, <1>5, <2>1 DEF Said, Pieces
  <2>4. Said(Q, k, x, y) \in {a \o b, a \o <<>>}
    BY <1>5 DEF Said, Pieces, a, b
  <2> QED
    BY <1>4, <2>2, <2>3, <2>4
<1>6. CASE x \notin Q /\ y \in Q
  <2>1. Said(R, k, x, y) = IF x \in R THEN a ELSE <<>>
    BY <1>0, <1>4, <1>6 DEF Said, Pieces, a
  <2>2. Said(Q, k, x, y) = b
    BY <1>0, <1>4, <1>6 DEF Said, Pieces, b
  <2>3. Said(S, k, x, y) = (IF x \in R THEN a ELSE <<>>) \o b
    BY <1>0, <1>6 DEF Said, Pieces, a, b
  <2> QED
    BY <2>1, <2>2, <2>3
<1>7. CASE x \notin Q /\ y \notin Q
  <2>1. Said(Q, k, x, y) = <<>>
    BY <1>4, <1>7 DEF Said, Pieces
  <2>2. Said(S, k, x, y) = Said(R, k, x, y)
    BY <1>0, <1>7 DEF Said, Pieces
  <2>3. Said(R, k, x, y) \in {a \o b, a \o <<>>, <<>> \o b, <<>> \o <<>>}
    BY DEF Said, Pieces, a, b
  <2> QED
    BY <1>4, <2>1, <2>2, <2>3
<1> QED
  BY <1>5, <1>6, <1>7

LEMMA PartType ==
    ASSUME NEW P, NEW f, NEW n \in Nat, NEW ix, NEW first, NEW second,
           Tells(P, f, n, ix, first, second), NEW R \in SUBSET P, NEW k \in 1..n
    PROVE  Part(R, f, ix, first, second, k) \in Fragment
<1>1. k \in Nat /\ ix[k] \in Nat
  BY DEF Tells
<1>2. Said(R, k, first[k], second[k]) \in Seq(Nat \X Nat)
  BY <1>1, PiecesType
<1> QED
  BY <1>1, <1>2 DEF Part, Fragment

LEMMA PartsType ==
    ASSUME NEW P, NEW f, NEW n \in Nat, NEW ix, NEW first, NEW second,
           Tells(P, f, n, ix, first, second), NEW R \in SUBSET P, NEW b \in 0..n
    PROVE  /\ Parts(R, f, ix, first, second, b) \in Seq(Fragment)
           /\ Len(Parts(R, f, ix, first, second, b)) = b
<1> DEFINE s == Parts(R, f, ix, first, second, b)
<1>1. \A k \in 1..b : k \in 1..n
  OBVIOUS
<1>2. s \in [1..b -> Fragment]
  BY <1>1, PartType DEF Parts
<1>3. b \in Nat
  OBVIOUS
<1> HIDE DEF s
<1>4. s \in Seq(Fragment)
  BY <1>2, <1>3, SeqDef
<1>5. Len(s) = b
  BY <1>2, <1>3, <1>4, LenProperties
<1> QED
  BY <1>4, <1>5 DEF s

\* A fragment more.
LEMMA GatherOne ==
    ASSUME NEW P, NEW f, NEW n \in Nat, NEW ix, NEW first, NEW second,
           Tells(P, f, n, ix, first, second), NEW p \in P,
           NEW R \in SUBSET P, R = Before(P, p), NEW b, Begun(R, f, n, ix, b)
    PROVE  Collected(With(R, p), f, n, ix, first, second,
                    Gather(Parts(R, f, ix, first, second, b), f[p]))
<1> SUFFICES \E d : /\ Begun(R \cup {p}, f, n, ix, d)
                    /\ Gather(Parts(R, f, ix, first, second, b), f[p])
                         = Parts(R \cup {p}, f, ix, first, second, d)
  BY DEF Collected, With
<1>0. R = {q \in P : Precedes(q, p)}
  BY DEF Before
<1>1. PICK k \in 1..n :
         /\ f[p].index = ix[k] /\ f[p].id \in {0, k}
         /\ \A l \in 1..k - 1 : \E q \in P : Precedes(q, p) /\ f[q].index = ix[l]
  BY DEF Tells
<1>2. k - 1 <= b /\ b \in 0..n
  <2>1. CASE k = 1
    BY <2>1 DEF Begun
  <2>2. CASE k # 1
    <3>1. k - 1 \in 1..k - 1 /\ k - 1 \in 1..n
      BY <2>2
    <3>2. \E q \in R : f[q].index = ix[k - 1]
      BY <1>0, <1>1, <3>1
    <3> QED
      BY <3>1, <3>2 DEF Begun
  <2> QED
    BY <2>1, <2>2
<1>3. p \notin R
  <2>1. ~Precedes(p, p)
    <3>1. p[1] \in Nat /\ p[2] \in Nat
      BY DEF Tells
    <3> QED
      BY <3>1 DEF Precedes
  <2> QED
    BY <1>0, <2>1
<1> DEFINE S == R \cup {p}
           Old(l) == Part(R, f, ix, first, second, l)
           New(l) == Part(S, f, ix, first, second, l)
           old == Parts(R, f, ix, first, second, b)
           joined(l) == [old[l] EXCEPT !.id = IF f[p].id = 0 THEN @ ELSE f[p].id,
                                       !.args = @ \o f[p].args]
<1>4. ASSUME NEW l \in 1..n, l # k PROVE New(l) = Old(l) /\ ix[l] # ix[k]
  <2>1. ix[l] # ix[k]
    BY <1>4 DEF Tells
  <2>2. first[l] # p /\ second[l] # p
    BY <1>1, <2>1 DEF Tells
  <2>3. (\E q \in S : f[q].index = ix[l] /\ f[q].id = l) <=> (\E q \in R : f[q].index = ix[l] /\ f[q].id = l)
    BY <1>1, <2>1
  <2>4. Said(S, l, first[l], second[l]) = Said(R, l, first[l], second[l])
    BY <2>2 DEF Said, Pieces
  <2> QED
    BY <2>1, <2>3, <2>4 DEF Part
<1>5. Said(R, k, first[k], second[k]) \o f[p].args = Said(S, k, first[k], second[k])
  <2>1. f[p].args = Said({p}, k, first[k], second[k])
    BY <1>1 DEF Tells
  <2>2. ~Precedes(second[k], first[k])
    BY DEF Tells
  <2>3. ~(second[k] \in R /\ p = first[k])
    BY <1>0, <2>2
  <2>4. k \in Nat
    OBVIOUS
  <2>5. Said(R, k, first[k], second[k]) \o Said({p}, k, first[k], second[k])
          = Said(S, k, first[k], second[k])
    <3> DEFINE x == first[k]
               y == second[k]
               Q == {p}
    <3>1. InOrder(R, Q, S, x, y)
      BY <1>3, <2>3 DEF InOrder
    <3> HIDE DEF x, y, Q, S
    <3>2. Joins(R, Q, S, k, x, y)
      BY ONLY <2>4, <3>1, PiecesJoin
    <3> QED
      BY <3>2 DEF Joins, x, y, Q, S
  <2> QED
    BY <2>1, <2>5
<1>6. /\ New(k).index = ix[k]
      /\ New(k).id = IF f[p].id = 0 THEN Old(k).id ELSE f[p].id
      /\ New(k).args = Old(k).args \o f[p].args
  <2>1. New(k).index = ix[k] /\ New(k).args = Old(k).args \o f[p].args
    BY <1>5 DEF Part
  <2>2. CASE f[p].id = 0
    <3>1. k # 0
      OBVIOUS
    <3> QED
      BY <1>1, <2>1, <2>2, <3>1 DEF Part
  <2>3. CASE f[p].id # 0
    <3>1. f[p].id = k
      BY <1>1, <2>3
    <3> QED
      BY <1>1, <2>1, <2>3, <3>1 DEF Part
  <2> QED
    BY <2>1, <2>2, <2>3
<1>7. old \in Seq(Fragment) /\ Len(old) = b /\ \A l \in 1..b : old[l] = Old(l) /\ old[l].index = ix[l]
  <2>1. old \in Seq(Fragment) /\ Len(old) = b
    <3> HIDE DEF S
    <3> QED
      BY <1>2, PartsType
  <2>2. \A l \in 1..b : old[l] = Old(l)
    BY DEF Parts
  <2>3. \A l \in 1..b : Old(l).index = ix[l]
    BY DEF Part
  <2> QED
    BY <2>1, <2>2, <2>3
<1>8. CASE k <= b
  <2>1. Begun(S, f, n, ix, b)
    BY <1>1, <1>8 DEF Begun
  <2>2. ~(\A l \in 1..b : old[l].index # f[p].index)
    BY <1>1, <1>7, <1>8
  <2>3. Gather(old, f[p]) = [l \in 1..b |-> IF old[l].index # f[p].index THEN old[l] ELSE joined(l)]
    BY <1>7, <2>2 DEF Gather
  <2>4. joined(k) = New(k)
    <3> DEFINE o == old[k]
               j == IF f[p].id = 0 THEN o.id ELSE f[p].id
               h == o.args \o f[p].args
    <3>1. o = Old(k)
      BY <1>7, <1>8
    <3>2. o \in Fragment /\ New(k) \in Fragment
      <4>1. S \in SUBSET P
        OBVIOUS
      <4>2. Old(k) \in Fragment /\ New(k) \in Fragment
        <5> HIDE DEF S
        <5> QED
          BY <4>1, PartType
      <4> QED
        BY <3>1, <4>2
    <3>3. joined(k) = [[o EXCEPT !.id = j] EXCEPT !.args = h]
      OBVIOUS
    <3>4. New(k).index = o.index /\ New(k).id = j /\ New(k).args = h
      <4>1. Old(k).index = ix[k]
        BY DEF Part
      <4> HIDE DEF Old, New, old
      <4> QED
        BY <1>6, <3>1, <4>1
    <3> HIDE DEF o, j, h, Old, New, old, joined
    <3>5. New(k) = [[o EXCEPT !.id = j] EXCEPT !.args = h]
      BY <3>2, <3>4 DEF Fragment
    <3> QED
      BY <3>3, <3>5
  <2>5. ASSUME NEW l \in 1..b
        PROVE  (IF old[l].index # f[p].index THEN old[l] ELSE joined(l)) = New(l)
    <3> HIDE DEF joined, New, Old, old
    <3>1. CASE l = k
      BY <1>1, <1>7, <2>4, <3>1
    <3>2. CASE l # k
      <4>1. l \in 1..n
        BY <1>2
      <4> QED
        BY <1>1, <1>4, <1>7, <3>2, <4>1
    <3> QED
      BY <3>1, <3>2
  <2>6. Gather(old, f[p]) = [l \in 1..b |-> New(l)]
    <3> HIDE DEF joined, New, Old, old
    <3> QED
      BY <2>3, <2>5
  <2> QED
    BY <2>1, <2>6 DEF Parts
<1>9. CASE k > b
  <2>1. k = b + 1 /\ b + 1 \in 0..n
    BY <1>2, <1>9
  <2>2. \A l \in 1..n : f[p].index = ix[l] => l = k
    <3>1. \A l \in 1..n : ix[k] = ix[l] => k = l
      BY DEF Tells
    <3> QED
      BY <1>1, <3>1
  <2>3. Begun(S, f, n, ix, b + 1)
    <3>1. ASSUME NEW l \in 1..n
          PROVE  l <= b + 1 <=> \E q \in S : f[q].index = ix[l]
      <4>1. l <= b + 1 <=> (l <= b \/ l = k)
        BY <1>2, <2>1
      <4>2. l <= b <=> \E q \in R : f[q].index = ix[l]
        BY DEF Begun
      <4>3. l = k <=> f[p].index = ix[l]
        BY <1>1, <2>2
      <4> QED
        BY <4>1, <4>2, <4>3
    <3> QED
      BY <2>1, <3>1 DEF Begun
  <2>4. \A l \in 1..b : old[l].index # f[p].index
    <3>1. \A l \in 1..b : l \in 1..n /\ l # k
      BY <1>2, <2>1
    <3> HIDE DEF old
    <3> QED
      BY <1>7, <2>2, <3>1
  <2>5. Gather(old, f[p]) = Append(old, f[p])
    BY <1>7, <2>4 DEF Gather
  <2>6. f[p] = New(k)
    <3>1. ~\E q \in R : f[q].index = ix[k]
      BY <1>9 DEF Begun
    <3>2. first[k] \notin R /\ second[k] \notin R
      BY <3>1 DEF Tells
    <3>3. Old(k).id = 0 /\ Old(k).args = <<>>
      BY <3>1, <3>2 DEF Part, Said, Pieces
    <3>4. f[p] \in Fragment
      BY DEF Tells
    <3>5. New(k).id = f[p].id /\ New(k).index = f[p].index
      BY <1>1, <1>6, <3>3
    <3>6. New(k).args = f[p].args
      <4>1. f[p].args \in Seq(Nat \X Nat)
        BY <3>4 DEF Fragment
      <4>2. <<>> \o f[p].args = f[p].args
        BY <4>1, ConcatEmptySeq
      <4> QED
        BY <1>6, <3>3, <4>2
    <3>7. New(k) \in Fragment
      <4>1. S \in SUBSET P
        OBVIOUS
      <4> QED
        BY <4>1, PartType
    <3> DEFINE e == f[p]
               w == New(k)
    <3> HIDE DEF e, w
    <3>8. e \in Fragment /\ w \in Fragment
      BY <3>4, <3>7 DEF e, w
    <3>9. w.id = e.id /\ w.index = e.index /\ w.args = e.args
      BY <3>5, <3>6 DEF e, w
    <3>10. e = w
      BY ONLY <3>8, <3>9 DEF Fragment
    <3> QED
      BY <3>10 DEF e, w
  <2>7. Append(old, f[p]) = [l \in 1..b + 1 |-> New(l)]
    <3>1. \A l \in 1..b : old[l] = New(l)
      <4>1. \A l \in 1..b : l \in 1..n /\ l # k
        BY <1>2, <2>1
      <4> HIDE DEF old, New, Old
      <4> QED
        BY <1>4, <1>7, <4>1
    <3>2. f[p] \in Fragment
      BY DEF Tells
    <3>3. /\ Append(old, f[p]) \in Seq(Fragment)
          /\ Len(Append(old, f[p])) = b + 1
          /\ \A l \in 1..b : Append(old, f[p])[l] = old[l]
          /\ Append(old, f[p])[b + 1] = f[p]
      <4> HIDE DEF old
      <4> QED
        BY <1>7, <3>2, AppendProperties
    <3> DEFINE all == Append(old, f[p])
    <3> HIDE DEF old, New, Old, all
    <3>4. all = [l \in 1..b + 1 |-> all[l]]
      BY <3>3, LenProperties DEF all
    <3>5. \A l \in 1..b + 1 : all[l] = New(l)
      BY <1>2, <2>1, <2>6, <3>1, <3>3 DEF all
    <3>6. all = [l \in 1..b + 1 |-> New(l)]
      BY <3>4, <3>5
    <3> QED
      BY <3>6 DEF all
  <2> QED
    BY <2>3, <2>5, <2>7 DEF Parts
<1>10. k <= b \/ k > b
  BY <1>2
<1> QED
  BY <1>8, <1>9, <1>10

\* The places up to place j of frame i.
Upto(P, i, j) == {p \in P : p[1] < i \/ (p[1] = i /\ p[2] <= j)}

LEMMA GatheredFragment ==
    ASSUME NEW P, NEW f, NEW n \in Nat, NEW ix, NEW first, NEW second,
           Tells(P, f, n, ix, first, second), NEW i \in Nat, NEW j \in Nat, <<i, j + 1>> \in P,
           NEW g, Collected(Upto(P, i, j), f, n, ix, first, second, g)
    PROVE  Collected(Upto(P, i, j + 1), f, n, ix, first, second, Gather(g, f[<<i, j + 1>>]))
<1> DEFINE p == <<i, j + 1>>
           R == Upto(P, i, j)
<1>1. \A q \in P : q = <<q[1], q[2]>> /\ q[1] \in Nat /\ q[2] \in Nat
  <2>1. P \subseteq Nat \X Nat
    BY DEF Tells
  <2> QED
    BY <2>1
<1>2. p[1] = i /\ p[2] = j + 1
  OBVIOUS
<1>3. ASSUME NEW q \in P
      PROVE  /\ q \in R <=> Precedes(q, p)
             /\ q \in Upto(P, i, j + 1) <=> q \in R \/ q = p
  <2>1. q = p <=> q[1] = i /\ q[2] = j + 1
    BY <1>1
  <2>2. q \in R <=> q[1] < i \/ (q[1] = i /\ q[2] <= j)
    BY DEF Upto
  <2>3. q \in Upto(P, i, j + 1) <=> q[1] < i \/ (q[1] = i /\ q[2] <= j + 1)
    BY DEF Upto
  <2>4. Precedes(q, p) <=> q[1] < i \/ (q[1] = i /\ q[2] < j + 1)
    BY <1>2 DEF Precedes
  <2>5. /\ q[2] <= j <=> q[2] < j + 1
        /\ q[2] <= j + 1 <=> q[2] <= j \/ q[2] = j + 1
    BY <1>1
  <2> HIDE DEF p, R
  <2> QED
    BY <2>1, <2>2, <2>3, <2>4, <2>5
<1>4. R \subseteq P /\ Upto(P, i, j + 1) \subseteq P
  BY DEF Upto
<1> HIDE DEF p, R
<1>5. p \in P
  BY DEF p
<1>6. R = Before(P, p) /\ Upto(P, i, j + 1) = With(R, p)
  BY <1>3, <1>4, <1>5 DEF Before, With
<1>7. PICK b : Begun(R, f, n, ix, b) /\ g = Parts(R, f, ix, first, second, b)
  BY DEF Collected, R
<1>8. Collected(With(R, p), f, n, ix, first, second,
               Gather(Parts(R, f, ix, first, second, b), f[p]))
  <2>1. R \in SUBSET P
    BY <1>4
  <2> QED
    BY <1>5, <1>6, <1>7, <2>1, GatherOne
<1> QED
  BY <1>6, <1>7, <1>8 DEF p

LEMMA GatheredFrame ==
    ASSUME NEW P, NEW f, NEW n \in Nat, NEW ix, NEW first, NEW second,
           Tells(P, f, n, ix, first, second), NEW i \in Nat, NEW fs \in Seq(Fragment),
           \A j \in 1..Len(fs) : <<i, j>> \in P /\ f[<<i, j>>] = fs[j],
           NEW g \in Seq(Fragment), Collected(Upto(P, i, 0), f, n, ix, first, second, g)
    PROVE  Collected(Upto(P, i, Len(fs)), f, n, ix, first, second, GatherAll(g, fs))
<1>1. PICK c \in [0..Len(fs) -> Seq(Fragment)] :
         /\ c[0] = g
         /\ \A j \in 1..Len(fs) : c[j] = Gather(c[j - 1], fs[j])
         /\ GatherAll(g, fs) = c[Len(fs)]
  BY GatherAllChain
<1>2. Len(fs) \in Nat
  BY LenProperties
<1> DEFINE Holds(j) == Collected(Upto(P, i, j), f, n, ix, first, second, c[j])
           bad == {j \in 0..Len(fs) : ~Holds(j)}
<1>3. Holds(0)
  BY <1>1
<1>4. ASSUME NEW j \in 0..Len(fs), j + 1 \in 0..Len(fs), Holds(j) PROVE Holds(j + 1)
  <2>1. j \in Nat /\ j + 1 \in 1..Len(fs) /\ j + 1 - 1 = j
    BY <1>2, <1>4
  <2>2. c[j + 1] = Gather(c[j], f[<<i, j + 1>>]) /\ <<i, j + 1>> \in P
    BY <1>1, <2>1
  <2>3. Collected(Upto(P, i, j + 1), f, n, ix, first, second, Gather(c[j], f[<<i, j + 1>>]))
    BY <1>4, <2>1, <2>2, GatheredFragment
  <2> QED
    BY <2>2, <2>3
<1> HIDE DEF Holds
<1>5. bad = {}
  <2>1. SUFFICES ASSUME bad # {} PROVE FALSE
    OBVIOUS
  <2>2. bad \in SUBSET Nat
    BY <1>2
  <2>3. PICK m \in bad : \A k \in bad : m <= k
    <3> HIDE DEF bad
    <3> QED
      BY <2>1, <2>2, SmallestNumber
  <2>4. m # 0 /\ m \in 0..Len(fs)
    BY <1>3
  <2>5. m - 1 \in 0..Len(fs) /\ m - 1 + 1 = m /\ ~(m <= m - 1)
    BY <1>2, <2>4
  <2>6. Holds(m - 1)
    BY <2>3, <2>5
  <2> QED
    BY <1>4, <2>4, <2>5, <2>6
<1>6. Holds(Len(fs))
  BY <1>2, <1>5
<1> QED
  BY <1>1, <1>6 DEF Holds

-----------------------------------------------------------------------------
(* A stream, frame by frame *)

\* The fragments of the frames say n calls, and are heeded.
Speaks(frames, n, P, f, ix, first, second) ==
    /\ P = Spoken(frames)
    /\ f = [p \in P |-> frames[p[1]].calls[p[2]]]
    /\ Tells(P, f, n, ix, first, second)
    /\ \A i \in 1..Len(frames) :
          frames[i].type = "delta" /\ frames[i].finish = "tool_calls" => \A p \in P : p[1] <= i

\* The places in the first i frames.
Within(P, i) == {p \in P : p[1] <= i}

Done(frames, i) == \E l \in 1..i : frames[l].type = "done"

\* What was read is what was heeded, in calls that are complete or still pending.
Heeded(frames, n, P, f, ix, first, second, i, st) ==
    /\ st.over <=> Done(frames, i)
    /\ Collected(Within(P, i), f, n, ix, first, second, st.calls \o st.pending)
    /\ st.calls = <<>> \/ (st.pending = <<>> /\ Within(P, i) = P)

LEMMA SpokenPlaces ==
    ASSUME NEW frames \in Seq(Frame)
    PROVE  /\ Spoken(frames) \subseteq Nat \X Nat
           /\ \A i \in Nat, j \in Nat :
                 <<i, j>> \in Spoken(frames) <=>
                    /\ i \in 1..Len(frames) /\ frames[i].type = "delta" /\ ~Done(frames, i)
                    /\ j \in 1..Len(frames[i].calls)
<1> DEFINE M == {m \in 1..Len(frames) : /\ frames[m].type = "delta"
                                        /\ \A l \in 1..m : frames[l].type # "done"}
           row(i) == {<<i, j>> : j \in 1..Len(frames[i].calls)}
<1>1. \A p : p \in Spoken(frames) <=> \E i \in M : p \in row(i)
  BY DEF Spoken
<1>2. \A i \in M : i \in Nat
  BY LenProperties
<1>3. \A i \in M : Len(frames[i].calls) \in Nat
  <2>1. \A i \in M : frames[i] \in Frame
    BY ElementOfSeq
  <2>2. \A i \in M : frames[i].calls \in Seq(Fragment)
    BY <2>1 DEF Frame
  <2> HIDE DEF M
  <2> QED
    BY <2>2, LenProperties
<1>4. \A i \in M : \A p \in row(i) : p \in Nat \X Nat
  <2> HIDE DEF M
  <2> QED
    BY <1>2, <1>3
<1>5. ASSUME NEW i \in Nat, NEW j \in Nat
      PROVE  <<i, j>> \in Spoken(frames) <=>
                /\ i \in 1..Len(frames) /\ frames[i].type = "delta" /\ ~Done(frames, i)
                /\ j \in 1..Len(frames[i].calls)
  <2>1. i \in M <=> i \in 1..Len(frames) /\ frames[i].type = "delta" /\ ~Done(frames, i)
    BY DEF Done
  <2>2. \A m \in M : <<i, j>> \in row(m) <=> m = i /\ j \in 1..Len(frames[i].calls)
    <3> HIDE DEF M
    <3> QED
      OBVIOUS
  <2> HIDE DEF M, row
  <2> QED
    BY <1>1, <2>1, <2>2
<1>6. \A p \in Spoken(frames) : p \in Nat \X Nat
  <2> HIDE DEF M, row
  <2> QED
    BY <1>1, <1>4
<1> QED
  BY <1>5, <1>6

LEMMA FlushIs ==
    ASSUME NEW st \in StreamState
    PROVE  /\ Flush(st).calls = st.calls \o st.pending /\ Flush(st).pending = <<>>
           /\ Flush(st).over = st.over
<1> DEFINE x == st.calls \o st.pending
<1>1. Flush(st) = [[st EXCEPT !.calls = x] EXCEPT !.pending = <<>>]
  BY DEF Flush
<1> HIDE DEF x
<1>2. Flush(st).calls = x /\ Flush(st).pending = <<>> /\ Flush(st).over = st.over
  BY <1>1 DEF StreamState
<1> QED
  BY <1>2 DEF x

\* What a line does, by its kind.
LEMMA ReadIs ==
    ASSUME NEW st \in StreamState, NEW f \in Frame, NEW g, g = GatherAll(st.pending, f.calls)
    PROVE  /\ st.over \/ f.type = "bad" => Read(st, f) = st
           /\ ~st.over /\ f.type = "done" =>
                 /\ Read(st, f).over /\ Read(st, f).pending = <<>>
                 /\ Read(st, f).calls = st.calls \o st.pending
           /\ ~st.over /\ f.type = "delta" =>
                 /\ ~Read(st, f).over
                 /\ f.finish = "tool_calls" => /\ Read(st, f).pending = <<>>
                                               /\ Read(st, f).calls = st.calls \o g
                 /\ f.finish # "tool_calls" => /\ Read(st, f).pending = g
                                               /\ Read(st, f).calls = st.calls
<1> DEFINE t == st.text \/ f.text
           got == [[st EXCEPT !.text = t] EXCEPT !.pending = g]
           over == [Flush(st) EXCEPT !.over = TRUE]
<1>1. t \in BOOLEAN
  OBVIOUS
<1>2. g \in Seq(Fragment)
  BY GatherAllType DEF StreamState, Frame
<1>3. Read(st, f) = CASE st.over \/ f.type = "bad" -> st
                      [] ~st.over /\ f.type = "done" -> over
                      [] ~st.over /\ f.type = "delta" ->
                           IF f.finish = "tool_calls" THEN Flush(got) ELSE got
  BY DEF Read
<1> HIDE DEF t
<1>4. got \in StreamState /\ got.calls = st.calls /\ got.pending = g /\ got.over = st.over
  BY <1>1, <1>2 DEF StreamState
<1>5. Flush(st) \in StreamState
  BY FlushType
<1>6. over.over /\ over.calls = st.calls \o st.pending /\ over.pending = <<>>
  <2>1. over.over /\ over.calls = Flush(st).calls /\ over.pending = Flush(st).pending
    BY <1>5 DEF StreamState
  <2> HIDE DEF over
  <2> QED
    BY <2>1, FlushIs
<1> HIDE DEF got, over
<1>7. Flush(got).calls = st.calls \o g /\ Flush(got).pending = <<>> /\ Flush(got).over = st.over
  BY <1>4, FlushIs
<1>8. st.over \in BOOLEAN /\ f.type \in {"delta", "done", "bad"}
  BY DEF StreamState, Frame
<1>9. CASE st.over \/ f.type = "bad"
  BY <1>3, <1>8, <1>9
<1>10. CASE ~st.over /\ f.type = "done"
  <2>1. Read(st, f) = over
    BY <1>3, <1>10
  <2> QED
    BY <1>6, <1>10, <2>1
<1>11. CASE ~st.over /\ f.type = "delta"
  <2>1. Read(st, f) = IF f.finish = "tool_calls" THEN Flush(got) ELSE got
    BY <1>3, <1>11
  <2> QED
    BY <1>4, <1>7, <1>11, <2>1
<1> QED
  BY <1>8, <1>9, <1>10, <1>11

LEMMA HeededStart ==
    ASSUME NEW frames \in Seq(Frame), NEW n \in Nat, NEW P, NEW f, NEW ix, NEW first, NEW second,
           Speaks(frames, n, P, f, ix, first, second)
    PROVE  Heeded(frames, n, P, f, ix, first, second, 0, Unread)
<1>1. P = Spoken(frames) /\ Tells(P, f, n, ix, first, second)
  BY DEF Speaks
<1>2. \A p \in P : p[1] \in 1..Len(frames)
  <2>1. ASSUME NEW p \in P PROVE p[1] \in 1..Len(frames)
    <3>1. p = <<p[1], p[2]>> /\ p[1] \in Nat /\ p[2] \in Nat
      <4>1. p \in Nat \X Nat
        BY <1>1, SpokenPlaces
      <4> QED
        BY <4>1
    <3> QED
      BY <1>1, <3>1, SpokenPlaces
  <2> QED
    BY <2>1
<1>3. Within(P, 0) = {}
  BY <1>2 DEF Within
<1>4. ~Done(frames, 0)
  BY DEF Done
<1>5. Begun({}, f, n, ix, 0)
  BY DEF Begun
<1>6. Parts({}, f, ix, first, second, 0) = <<>>
  <2>1. Parts({}, f, ix, first, second, 0) \in Seq(Fragment)
    BY <1>1, PartsType
  <2>2. Len(Parts({}, f, ix, first, second, 0)) = 0
    BY <1>1, PartsType
  <2> QED
    BY <2>1, <2>2, EmptySeq
<1>7. <<>> \o <<>> = <<>>
  OBVIOUS
<1>8. Unread.calls \o Unread.pending = <<>> /\ Unread.calls = <<>> /\ Unread.over = FALSE
  BY <1>7 DEF Unread
<1> HIDE DEF Unread
<1> QED
  BY <1>3, <1>4, <1>5, <1>6, <1>8 DEF Heeded, Collected

\* No fragments, nothing more.
LEMMA GatherNone ==
    ASSUME NEW pending \in Seq(Fragment), NEW fs \in Seq(Fragment), Len(fs) = 0
    PROVE  GatherAll(pending, fs) = pending
<1>1. PICK c \in [0..Len(fs) -> Seq(Fragment)] :
         /\ c[0] = pending
         /\ \A i \in 1..Len(fs) : c[i] = Gather(c[i - 1], fs[i])
         /\ GatherAll(pending, fs) = c[Len(fs)]
  BY GatherAllChain
<1> QED
  BY <1>1

\* A line more.
LEMMA HeededRead ==
    ASSUME NEW frames \in Seq(Frame), NEW n \in Nat, NEW P, NEW f, NEW ix, NEW first, NEW second,
           Speaks(frames, n, P, f, ix, first, second), NEW i \in Nat, i + 1 \in 1..Len(frames),
           NEW st \in StreamState, Heeded(frames, n, P, f, ix, first, second, i, st)
    PROVE  Heeded(frames, n, P, f, ix, first, second, i + 1, Read(st, frames[i + 1]))
<1> DEFINE m == i + 1
           a == frames[m]
           fs == a.calls
           g == GatherAll(st.pending, fs)
           G(R, s) == Collected(R, f, n, ix, first, second, s)
           W(k) == Within(P, k)
           all == st.calls \o st.pending
<1>1. /\ P = Spoken(frames) /\ Tells(P, f, n, ix, first, second)
      /\ f = [p \in P |-> frames[p[1]].calls[p[2]]]
      /\ a.type = "delta" /\ a.finish = "tool_calls" => \A p \in P : p[1] <= m
  BY DEF Speaks
<1>2. a \in Frame /\ fs \in Seq(Fragment) /\ a.type \in {"delta", "done", "bad"}
  <2>1. a \in Frame
    BY ElementOfSeq
  <2> QED
    BY <2>1 DEF Frame
<1>3. /\ st.over <=> Done(frames, i)
      /\ G(W(i), all)
      /\ st.calls = <<>> \/ (st.pending = <<>> /\ W(i) = P)
  BY DEF Heeded
<1>4. Done(frames, m) <=> Done(frames, i) \/ a.type = "done"
  BY DEF Done
<1>5. st.over \in BOOLEAN /\ st.calls \in Seq(Fragment) /\ st.pending \in Seq(Fragment)
  BY DEF StreamState
<1>6. all \in Seq(Fragment) /\ g \in Seq(Fragment)
  BY <1>2, <1>5, ConcatProperties, GatherAllType
<1>7. \A p \in P : p = <<p[1], p[2]>> /\ p[1] \in Nat /\ p[2] \in Nat
  <2>1. P \subseteq Nat \X Nat
    BY <1>1, SpokenPlaces
  <2> QED
    BY <2>1
<1>8. \A p \in P : /\ p[1] \in 1..Len(frames) /\ frames[p[1]].type = "delta"
                   /\ ~Done(frames, p[1]) /\ p[2] \in 1..Len(frames[p[1]].calls)
  BY <1>1, <1>7, SpokenPlaces
<1>9. \A p \in P : p \in W(m) <=> p \in W(i) \/ p[1] = m
  BY <1>7 DEF Within
<1>10. W(m) \subseteq P /\ W(i) \subseteq P
  BY DEF Within
<1>11. Done(frames, m) => W(i) = P /\ W(m) = P
  <2>1. ASSUME Done(frames, m), NEW p \in P PROVE p[1] <= i
    <3>1. ~Done(frames, p[1]) /\ p[1] \in Nat
      BY <1>7, <1>8
    <3> QED
      BY <2>1, <3>1 DEF Done
  <2> QED
    BY <1>7, <1>9, <1>10, <2>1 DEF Within
<1>12. a.type # "delta" => W(m) = W(i)
  BY <1>8, <1>9, <1>10
<1> DEFINE next == Read(st, a)
<1> HIDE DEF a, g, G, W, all, next, m
<1>13. SUFFICES /\ next.over <=> Done(frames, m)
                /\ G(W(m), next.calls \o next.pending)
                /\ next.calls = <<>> \/ (next.pending = <<>> /\ W(m) = P)
  BY DEF Heeded, G, W, next, m, a
<1>14. \A s \in Seq(Fragment) : s \o <<>> = s /\ <<>> \o s = s
  BY ConcatEmptySeq
<1>15. CASE st.over \/ a.type = "bad"
  <2>1. next = st
    BY <1>2, <1>15, ReadIs DEF next
  <2>2. W(m) = W(i)
    BY <1>3, <1>4, <1>11, <1>12, <1>15
  <2> QED
    BY <1>3, <1>4, <1>15, <2>1, <2>2 DEF all
<1>16. CASE ~st.over /\ a.type = "done"
  <2>1. next.over /\ next.pending = <<>> /\ next.calls = all
    BY <1>2, <1>16, ReadIs DEF next, all
  <2>2. W(m) = W(i) /\ W(m) = P
    BY <1>4, <1>11, <1>16
  <2> QED
    BY <1>3, <1>4, <1>6, <1>14, <1>16, <2>1, <2>2
<1>17. CASE ~st.over /\ a.type = "delta"
  <2>1. /\ ~next.over
        /\ a.finish = "tool_calls" => next.pending = <<>> /\ next.calls = st.calls \o g
        /\ a.finish # "tool_calls" => next.pending = g /\ next.calls = st.calls
    BY <1>2, <1>17, ReadIs DEF next, g
  <2>2. ~Done(frames, m)
    BY <1>3, <1>4, <1>17
  <2>3. \A j \in 1..Len(fs) : <<m, j>> \in P /\ f[<<m, j>>] = fs[j]
    <3>1. ASSUME NEW j \in 1..Len(fs) PROVE <<m, j>> \in P /\ f[<<m, j>>] = fs[j]
      <4>1. m \in Nat /\ j \in Nat /\ m \in 1..Len(frames)
        BY <1>2, LenProperties DEF m
      <4>2. <<m, j>> \in P
        BY <1>1, <1>17, <2>2, <4>1, SpokenPlaces DEF a
      <4> QED
        BY <1>1, <4>2 DEF a
    <3> QED
      BY <3>1
  <2>4. Len(fs) \in Nat /\ m \in Nat /\ i \in Nat /\ m = i + 1
    BY <1>2, LenProperties DEF m
  <2>5. Upto(P, m, 0) = W(i) /\ Upto(P, m, Len(fs)) = W(m)
    <3>1. \A p \in P : p[2] \in Nat /\ p[2] # 0 /\ (p[1] = m => p[2] <= Len(fs))
      BY <1>7, <1>8 DEF a
    <3>2. \A p \in P : /\ p[1] < m <=> p[1] <= i
                       /\ p[1] <= m <=> p[1] <= i \/ p[1] = m
      BY <1>7, <2>4
    <3>3. \A p \in P : /\ p \in Upto(P, m, 0) <=> p \in W(i)
                       /\ p \in Upto(P, m, Len(fs)) <=> p \in W(m)
      BY <1>7, <2>4, <3>1, <3>2 DEF Upto, W, Within
    <3> QED
      BY <1>10, <3>3 DEF Upto
  <2>6. CASE st.calls = <<>>
    <3>1. all = st.pending
      BY <1>5, <1>14, <2>6 DEF all
    <3>2. Collected(Upto(P, m, 0), f, n, ix, first, second, st.pending)
      BY <1>3, <2>5, <3>1 DEF G
    <3>3. Collected(Upto(P, m, Len(fs)), f, n, ix, first, second, g)
      BY <1>1, <1>2, <1>5, <2>3, <2>4, <3>2, GatheredFrame DEF g
    <3>4. st.calls \o g = g /\ G(W(m), g)
      BY <1>6, <1>14, <2>5, <2>6, <3>3 DEF G
    <3>5. a.finish = "tool_calls" => W(m) = P
      BY <1>1, <1>10, <1>17 DEF W, Within
    <3> QED
      BY <1>6, <1>14, <2>1, <2>2, <2>6, <3>4, <3>5
  <2>7. CASE st.calls # <<>>
    <3>1. st.pending = <<>> /\ W(i) = P /\ W(m) = P
      BY <1>3, <1>9, <1>10, <2>7
    <3>2. Len(fs) = 0
      <4>1. SUFFICES ASSUME Len(fs) # 0 PROVE FALSE
        OBVIOUS
      <4>2. <<m, 1>> \in P
        BY <2>3, <2>4, <4>1
      <4>3. <<m, 1>> \in W(i)
        BY <3>1, <4>2
      <4>4. <<m, 1>>[1] <= i
        BY <4>3 DEF W, Within
      <4>5. m <= i
        BY <4>4
      <4> QED
        BY <2>4, <4>5
    <3>3. g = <<>>
      <4>1. GatherAll(st.pending, fs) = st.pending
        BY <1>2, <1>5, <3>2, GatherNone
      <4> QED
        BY <3>1, <4>1 DEF g
    <3>4. st.calls \o g = st.calls /\ G(W(m), st.calls)
      <4>1. all = st.calls /\ W(m) = W(i)
        BY <1>5, <1>14, <3>1 DEF all
      <4>2. st.calls \o g = st.calls
        BY <1>5, <1>14, <3>3
      <4> QED
        BY <1>3, <4>1, <4>2
    <3> QED
      BY <1>5, <1>14, <2>1, <2>2, <3>1, <3>3, <3>4
  <2> QED
    BY <2>6, <2>7
<1> QED
  BY <1>2, <1>5, <1>15, <1>16, <1>17

\* All lines read, the stream says the n calls.
LEMMA ToldIsRead ==
    ASSUME NEW frames \in Seq(Frame), NEW n \in Nat, NEW P, NEW f, NEW ix, NEW first, NEW second,
           Speaks(frames, n, P, f, ix, first, second)
    PROVE  streamOpenAIBody(frames).calls = Parts(P, f, ix, first, second, n)
<1> DEFINE N == Len(frames)
           Holds(i, st) == Heeded(frames, n, P, f, ix, first, second, i, st)
<1>1. PICK c \in [0..N -> StreamState] :
         /\ c[0] = Unread
         /\ \A i \in 1..N : c[i] = Read(c[i - 1], frames[i])
         /\ streamOpenAIBody(frames) = Flush(c[N])
  BY StreamChain
<1>2. N \in Nat
  BY LenProperties
<1>3. Holds(0, c[0])
  BY <1>1, HeededStart
<1>4. ASSUME NEW i \in 0..N, i + 1 \in 0..N, Holds(i, c[i]) PROVE Holds(i + 1, c[i + 1])
  <2>1. i \in Nat /\ i + 1 \in 1..N /\ i + 1 - 1 = i
    BY <1>2, <1>4
  <2>2. c[i + 1] = Read(c[i], frames[i + 1]) /\ c[i] \in StreamState
    BY <1>1, <2>1
  <2>3. Holds(i + 1, Read(c[i], frames[i + 1]))
    BY <1>4, <2>1, <2>2, HeededRead
  <2> QED
    BY <2>2, <2>3
<1> DEFINE bad == {i \in 0..N : ~Holds(i, c[i])}
<1> HIDE DEF Holds, N
<1>5. bad = {}
  <2>1. SUFFICES ASSUME bad # {} PROVE FALSE
    OBVIOUS
  <2>2. bad \in SUBSET Nat
    BY <1>2
  <2>3. PICK m \in bad : \A k \in bad : m <= k
    <3> HIDE DEF bad
    <3> QED
      BY <2>1, <2>2, SmallestNumber
  <2>4. m # 0 /\ m \in 0..N
    BY <1>3
  <2>5. m - 1 \in 0..N /\ m - 1 + 1 = m /\ ~(m <= m - 1)
    BY <1>2, <2>4
  <2>6. Holds(m - 1, c[m - 1])
    BY <2>3, <2>5
  <2> QED
    BY <1>4, <2>4, <2>5, <2>6
<1>6. N \in 0..N /\ Holds(N, c[N])
  BY <1>2, <1>5
<1>7. Within(P, N) = P
  <2>1. P = Spoken(frames)
    BY DEF Speaks
  <2>2. ASSUME NEW p \in P PROVE p[1] <= N
    <3>1. p = <<p[1], p[2]>> /\ p[1] \in Nat /\ p[2] \in Nat
      <4>1. p \in Nat \X Nat
        BY <2>1, SpokenPlaces
      <4> QED
        BY <4>1
    <3>2. p[1] \in 1..N
      BY <2>1, <3>1, SpokenPlaces DEF N
    <3> QED
      BY <1>2, <3>2
  <2> QED
    BY <2>2 DEF Within
<1>8. c[N] \in StreamState
  BY <1>6
<1>9. Collected(Within(P, N), f, n, ix, first, second, c[N].calls \o c[N].pending)
  BY <1>6 DEF Holds, Heeded
<1>10. PICK b : Begun(P, f, n, ix, b) /\ c[N].calls \o c[N].pending = Parts(P, f, ix, first, second, b)
  BY <1>7, <1>9 DEF Collected
<1>11. b = n
  <2>1. \A k \in 1..n : \E p \in P : f[p].index = ix[k]
    <3>1. Tells(P, f, n, ix, first, second)
      BY DEF Speaks
    <3>2. \A k \in 1..n : \E p \in P : f[p].index = ix[k] /\ f[p].id = k
      BY ONLY <3>1 DEF Tells
    <3> QED
      BY ONLY <3>2
  <2>2. b \in 0..n /\ \A k \in 1..n : k <= b <=> \E p \in P : f[p].index = ix[k]
    <3>1. Begun(P, f, n, ix, b)
      BY ONLY <1>10
    <3> QED
      BY ONLY <3>1 DEF Begun
  <2>3. \A k \in 1..n : k <= b
    BY ONLY <2>1, <2>2
  <2> QED
    BY <2>2, <2>3
<1>12. Flush(c[N]).calls = c[N].calls \o c[N].pending
  BY <1>8, FlushIs
<1> QED
  BY <1>1, <1>10, <1>11, <1>12

\* A whole stream is told by some places.
LEMMA WholeIsTold ==
    ASSUME NEW frames \in Seq(Frame), NEW n \in Nat, Whole(frames, n)
    PROVE  \E P, f, ix, first, second : Speaks(frames, n, P, f, ix, first, second)
<1> DEFINE P == Spoken(frames)
           at(p) == frames[p[1]].calls[p[2]]
           f == [p \in P |-> at(p)]
           Two(index, k, p, q) ==
              /\ f[p].index = index[k] /\ f[q].index = index[k]
              /\ ~Precedes(q, p)
              /\ \A r \in P : f[r].index = index[k] => f[r].args = Pieces(k, r = p, r = q)
<1>1. PICK ix \in [1..n -> {at(p).index : p \in P}] :
          /\ \A k, l \in 1..n : ix[k] = ix[l] => k = l
          /\ \A p \in P : \E k \in 1..n :
                /\ at(p).index = ix[k] /\ at(p).id \in {0, k}
                /\ \A l \in 1..k - 1 : \E q \in P : Precedes(q, p) /\ at(q).index = ix[l]
          /\ \A k \in 1..n :
                /\ \E p \in P : at(p).index = ix[k] /\ at(p).id = k
                /\ \E p, q \in P :
                      /\ at(p).index = ix[k] /\ at(q).index = ix[k]
                      /\ ~Precedes(q, p)
                      /\ \A r \in P : at(r).index = ix[k] =>
                            at(r).args = Pieces(k, r = p, r = q)
          /\ \A i \in 1..Len(frames) :
                frames[i].type = "delta" /\ frames[i].finish = "tool_calls" =>
                    \A p \in P : p[1] <= i
  BY DEF Whole
<1>2. \A p \in P : f[p] = at(p)
  OBVIOUS
<1>3. P \subseteq Nat \X Nat
  BY SpokenPlaces
<1>4. ASSUME NEW p \in P PROVE f[p] \in Fragment
  <2>1. p = <<p[1], p[2]>> /\ p[1] \in Nat /\ p[2] \in Nat
    <3>1. p \in Nat \X Nat
      BY <1>3
    <3> QED
      BY <3>1
  <2>2. p[1] \in 1..Len(frames) /\ p[2] \in 1..Len(frames[p[1]].calls)
    BY <2>1, SpokenPlaces
  <2>3. frames[p[1]] \in Frame
    BY <2>2, ElementOfSeq
  <2>4. frames[p[1]].calls \in Seq(Fragment)
    BY <2>3 DEF Frame
  <2>5. at(p) \in Fragment
    BY <2>2, <2>4, ElementOfSeq
  <2> QED
    BY <1>2, <2>5
<1> DEFINE first == [k \in 1..n |-> CHOOSE p \in P : \E q \in P : Two(ix, k, p, q)]
           second == [k \in 1..n |-> CHOOSE q \in P : Two(ix, k, first[k], q)]
<1>5. \A k \in 1..n : \E p, q \in P : Two(ix, k, p, q)
  <2>1. ASSUME NEW k \in 1..n PROVE \E p, q \in P : Two(ix, k, p, q)
    <3>1. PICK p \in P, q \in P :
             /\ at(p).index = ix[k] /\ at(q).index = ix[k]
             /\ ~Precedes(q, p)
             /\ \A r \in P : at(r).index = ix[k] => at(r).args = Pieces(k, r = p, r = q)
      BY <1>1
    <3>2. Two(ix, k, p, q)
      <4> HIDE DEF at, P
      <4> QED
        BY <1>2, <3>1
    <3> HIDE DEF Two, P
    <3> QED
      BY <3>2
  <2> QED
    BY <2>1
<1>6. \A p \in P : \E k \in 1..n :
          /\ f[p].index = ix[k] /\ f[p].id \in {0, k}
          /\ \A l \in 1..k - 1 : \E q \in P : Precedes(q, p) /\ f[q].index = ix[l]
  <2>1. \A p \in P : \E k \in 1..n :
            /\ at(p).index = ix[k] /\ at(p).id \in {0, k}
            /\ \A l \in 1..k - 1 : \E q \in P : Precedes(q, p) /\ at(q).index = ix[l]
    BY <1>1
  <2> HIDE DEF at, P, f
  <2>2. ASSUME NEW p \in P
        PROVE  \E k \in 1..n :
                  /\ f[p].index = ix[k] /\ f[p].id \in {0, k}
                  /\ \A l \in 1..k - 1 : \E q \in P : Precedes(q, p) /\ f[q].index = ix[l]
    <3>1. PICK k \in 1..n :
             /\ at(p).index = ix[k] /\ at(p).id \in {0, k}
             /\ \A l \in 1..k - 1 : \E q \in P : Precedes(q, p) /\ at(q).index = ix[l]
      BY ONLY <2>1
    <3>2. \A l \in 1..k - 1 : \E q \in P : Precedes(q, p) /\ f[q].index = ix[l]
      <4>1. ASSUME NEW l \in 1..k - 1
            PROVE  \E q \in P : Precedes(q, p) /\ f[q].index = ix[l]
        <5>1. PICK q \in P : Precedes(q, p) /\ at(q).index = ix[l]
          BY ONLY <3>1
        <5>2. f[q].index = ix[l]
          BY ONLY <1>2, <5>1
        <5> QED
          BY <5>1, <5>2
      <4> QED
        BY <4>1
    <3>3. f[p].index = ix[k] /\ f[p].id \in {0, k}
      BY ONLY <1>2, <3>1
    <3> QED
      BY <3>2, <3>3
  <2> QED
    BY <2>2
<1>7. \A k \in 1..n : \E p \in P : f[p].index = ix[k] /\ f[p].id = k
  <2>1. \A k \in 1..n : \E p \in P : at(p).index = ix[k] /\ at(p).id = k
    BY <1>1
  <2> HIDE DEF at, P, f
  <2> QED
    BY ONLY <1>2, <2>1
<1>8. ix \in [1..n -> Nat]
  <2>1. \A p \in P : at(p).index \in Nat
    BY <1>2, <1>4 DEF Fragment
  <2>2. ix \in [1..n -> {at(p).index : p \in P}]
    OBVIOUS
  <2> HIDE DEF at, P
  <2> QED
    BY ONLY <2>1, <2>2
<1> HIDE DEF Two, P, f, at
<1>9. first \in [1..n -> P] /\ \A k \in 1..n : \E q \in P : Two(ix, k, first[k], q)
  <2>1. \A k \in 1..n : first[k] \in P /\ \E q \in P : Two(ix, k, first[k], q)
    BY <1>5
  <2> QED
    BY <2>1
<1> HIDE DEF first
<1>10. second \in [1..n -> P] /\ \A k \in 1..n : Two(ix, k, first[k], second[k])
  <2>1. \A k \in 1..n : second[k] \in P /\ Two(ix, k, first[k], second[k])
    BY <1>9
  <2> QED
    BY <2>1
<1> HIDE DEF second
<1>11. ASSUME NEW k \in 1..n
       PROVE  /\ f[first[k]].index = ix[k] /\ f[second[k]].index = ix[k]
              /\ ~Precedes(second[k], first[k])
              /\ \A r \in P : f[r].index = ix[k] => f[r].args = Said({r}, k, first[k], second[k])
  <2>1. Two(ix, k, first[k], second[k])
    BY <1>10
  <2>2. ASSUME NEW r \in P, f[r].index = ix[k]
        PROVE  f[r].args = Said({r}, k, first[k], second[k])
    <3>1. f[r].args = Pieces(k, r = first[k], r = second[k])
      BY <2>1, <2>2 DEF Two
    <3>2. r = first[k] <=> first[k] \in {r}
      OBVIOUS
    <3>3. r = second[k] <=> second[k] \in {r}
      OBVIOUS
    <3>4. Pieces(k, r = first[k], r = second[k]) = Said({r}, k, first[k], second[k])
      BY <3>2, <3>3 DEF Said, Pieces
    <3> QED
      BY <3>1, <3>4
  <2> QED
    BY <2>1, <2>2 DEF Two
<1>12. f \in [P -> Fragment]
  <2>1. DOMAIN f = P /\ f = [p \in P |-> f[p]]
    BY DEF f
  <2> QED
    BY <1>4, <2>1
<1>13. Tells(P, f, n, ix, first, second)
  <2>1. \A k, l \in 1..n : ix[k] = ix[l] => k = l
    BY <1>1
  <2>2. P \subseteq Nat \X Nat
    BY <1>3 DEF P
  <2> QED
    BY <1>6, <1>7, <1>8, <1>9, <1>10, <1>11, <1>12, <2>1, <2>2 DEF Tells
<1>14. Speaks(frames, n, P, f, ix, first, second)
  <2>1. \A i \in 1..Len(frames) :
            frames[i].type = "delta" /\ frames[i].finish = "tool_calls" => \A p \in P : p[1] <= i
    BY <1>1
  <2>2. P = Spoken(frames) /\ f = [p \in P |-> frames[p[1]].calls[p[2]]]
    BY DEF P, f, at
  <2> QED
    BY <1>13, <2>1, <2>2 DEF Speaks
<1> QED
  BY <1>14

\* A whole stream says each call whole, and in order.
LEMMA WholeIsRead ==
    ASSUME NEW frames \in Seq(Frame), NEW n \in Nat, Whole(frames, n)
    PROVE  /\ Len(streamOpenAIBody(frames).calls) = n
           /\ \A k \in 1..n : /\ streamOpenAIBody(frames).calls[k].id = k
                              /\ streamOpenAIBody(frames).calls[k].args = <<<<k, 1>>, <<k, 2>>>>
<1>1. PICK P, f, ix, first, second : Speaks(frames, n, P, f, ix, first, second)
  BY WholeIsTold
<1> DEFINE calls == streamOpenAIBody(frames).calls
<1>2. calls = Parts(P, f, ix, first, second, n)
  BY <1>1, ToldIsRead
<1>3. Tells(P, f, n, ix, first, second)
  BY <1>1 DEF Speaks
<1>4. Len(calls) = n
  <2>1. P \in SUBSET P /\ n \in 0..n
    OBVIOUS
  <2> HIDE DEF calls
  <2> QED
    BY <1>2, <1>3, <2>1, PartsType
<1>5. ASSUME NEW k \in 1..n PROVE calls[k].id = k /\ calls[k].args = <<<<k, 1>>, <<k, 2>>>>
  <2>1. calls[k] = Part(P, f, ix, first, second, k)
    <3> HIDE DEF calls
    <3> QED
      BY <1>2 DEF Parts
  <2>2. first[k] \in P /\ second[k] \in P /\ \E p \in P : f[p].index = ix[k] /\ f[p].id = k
    BY <1>3 DEF Tells
  <2>3. Said(P, k, first[k], second[k]) = <<<<k, 1>>>> \o <<<<k, 2>>>>
    BY <2>2 DEF Said, Pieces
  <2> DEFINE a == <<k, 1>>
             b == <<k, 2>>
  <2>4. <<a>> \o <<b>> = <<a, b>>
    <3> HIDE DEF a, b
    <3>1. <<a>> \in Seq({a, b}) /\ <<b>> \in Seq({a, b}) /\ <<a, b>> \in Seq({a, b})
      OBVIOUS
    <3>2. /\ <<a>> \o <<b>> \in Seq({a, b}) /\ Len(<<a>> \o <<b>>) = 2
          /\ \A i \in 1..2 : (<<a>> \o <<b>>)[i] = <<a, b>>[i]
      BY <3>1, ConcatProperties
    <3>3. Len(<<a, b>>) = 2
      OBVIOUS
    <3> QED
      BY <3>1, <3>2, <3>3, SeqEqual
  <2>5. calls[k].args = <<a, b>>
    <3> DEFINE w == Said(P, k, first[k], second[k])
    <3>1. w = <<a, b>>
      BY <2>3, <2>4
    <3>2. calls[k].args = w
      <4> HIDE DEF w, calls, a, b
      <4> QED
        BY <2>1 DEF Part, w
    <3> QED
      BY <3>1, <3>2
  <2>6. calls[k].id = k
    <3> HIDE DEF calls
    <3> QED
      BY <2>1, <2>2 DEF Part
  <2> QED
    BY <2>5, <2>6
<1> QED
  BY <1>4, <1>5

\* Unless it is cut, a stream is heard as it was meant.
LEMMA HeardAsMeant ==
    ASSUME AgentAssumption, WholeAssumption, NEW i \in 1..MaxIterations, NEW s \in Streams[i],
           ~s.cut
    PROVE  Heard(s).calls = s.meant
<1>1. s \in Stream
  BY DEF AgentAssumption
<1> DEFINE n == Len(s.meant)
           calls == streamOpenAIBody(s.frames).calls
<1>2. s.frames \in Seq(Frame) /\ s.meant \in Seq(Call) /\ n \in Nat
  <2>1. s.frames \in Seq(Frame) /\ s.meant \in Seq(Call)
    BY <1>1 DEF Stream
  <2> QED
    BY <2>1, LenProperties
<1>3. Whole(s.frames, n)
  BY DEF WholeAssumption
<1>4. /\ Len(calls) = n
      /\ \A k \in 1..n : calls[k].id = k /\ calls[k].args = <<<<k, 1>>, <<k, 2>>>>
  <2> HIDE DEF n
  <2> QED
    BY <1>2, <1>3, WholeIsRead
<1>5. Heard(s).calls = [k \in 1..Len(calls) |-> CallOf(s.meant, calls[k])]
  BY DEF Heard
<1>6. \A k \in 1..n : CallOf(s.meant, calls[k]) = s.meant[k]
  <2> HIDE DEF calls
  <2> QED
    BY <1>4 DEF CallOf
<1>7. s.meant = [k \in 1..n |-> s.meant[k]]
  <2>1. DOMAIN s.meant = 1..n /\ s.meant = [k \in DOMAIN s.meant |-> s.meant[k]]
    BY <1>2, LenProperties
  <2> QED
    BY <2>1
<1> HIDE DEF n, calls
<1> QED
  BY <1>4, <1>5, <1>6, <1>7

-----------------------------------------------------------------------------
(* The calls of a run *)

\* Those of the answer that are still to be executed.
Left == IF run.pc \in {"execute", "end"} THEN Tail(run.todo) ELSE run.todo

\* What was executed and what is left is what was meant, unless a stream was cut.
MeantInv ==
    /\ run.pc = "model" => run.todo = <<>>
    /\ ~run.cut => run.executed \o Left = run.meant

LEMMA SameMeant ==
    ASSUME MeantInv, UNCHANGED <<Left, run.executed, run.meant, run.cut>>,
           run'.pc = "model" => run'.todo = <<>>
    PROVE  MeantInv'
BY DEF MeantInv

LEMMA NewMeant ==
    ASSUME run' = NoRun \/ run' = [NoRun EXCEPT !.pc = "model", !.iteration = 1]
    PROVE  MeantInv'
<1>1. /\ run'.executed = <<>> /\ run'.meant = <<>> /\ run'.todo = <<>>
      /\ run'.pc \in {"idle", "model"}
  <2>1. CASE run' = NoRun
    BY <2>1 DEF NoRun
  <2>2. CASE run' = [NoRun EXCEPT !.pc = "model", !.iteration = 1]
    BY <2>2 DEF NoRun
  <2> QED
    BY <2>1, <2>2
<1>2. <<>> \o <<>> = <<>>
  OBVIOUS
<1> QED
  BY <1>1, <1>2 DEF MeantInv, Left

LEMMA AnswerMeant ==
    ASSUME RunInv, MeantInv, Answer
    PROVE  MeantInv'
<1>1. run.pc = "model" /\ run.iteration \in 1..MaxIterations /\ run \in RunRecord
  BY DEF RunInv, Answer, RunAt
<1>2. PICK r \in Answers[run.iteration] :
        LET heard == [run EXCEPT !.texts = KeepText(r.text),
                             !.meant = @ \o r.meant, !.cut = @ \/ r.cut] IN
        run' = IF r.calls = <<>>
               THEN [heard EXCEPT !.pc = "returned", !.outcome = "answered"]
               ELSE [heard EXCEPT !.pc = "call", !.todo = r.calls,
                        !.messages = Append(@, [role |-> "assistant",
                            ids |-> {Current + i : i \in 1..Len(r.calls)}])]
  BY DEF Answer
<1>3. r.meant \in Seq(Call) /\ r.cut \in BOOLEAN /\ r.calls \in Seq(Call)
  BY <1>1, AnswerType
<1>4. ~r.cut => r.calls = r.meant
  <2>1. PICK s \in Streams[run.iteration] : r = Heard(s)
    BY <1>1 DEF Answers
  <2>2. r.cut = s.cut /\ r.meant = s.meant /\ r.calls = Heard(s).calls
    BY <2>1 DEF Heard
  <2> QED
    BY <1>1, <2>2, HeardAsMeant, AgentAssumption, WholeAssumption
<1> DEFINE texts == KeepText(r.text)
           meant == run.meant \o r.meant
           cut == run.cut \/ r.cut
           messages == Append(run.messages, [role |-> "assistant",
                               ids |-> {Current + i : i \in 1..Len(r.calls)}])
           heard == [[[run EXCEPT !.texts = texts] EXCEPT !.meant = meant] EXCEPT !.cut = cut]
<1>5. run' = IF r.calls = <<>>
             THEN [heard EXCEPT !.pc = "returned", !.outcome = "answered"]
             ELSE [heard EXCEPT !.pc = "call", !.todo = r.calls, !.messages = messages]
  BY <1>2
<1>6. run.todo = <<>> /\ run.executed \in Seq(Call) /\ run.meant \in Seq(Call)
  BY <1>1 DEF MeantInv, RunRecord
<1>7. cut \in BOOLEAN /\ (cut <=> run.cut \/ r.cut)
  OBVIOUS
<1>8. run.executed \o <<>> = run.executed
  BY <1>6, ConcatEmptySeq
<1>9. ~cut => run.executed \o r.calls = meant
  <2>1. ~run.cut => run.executed = run.meant
    BY <1>1, <1>6, <1>8 DEF MeantInv, Left
  <2> QED
    BY <1>4, <2>1
<1> HIDE DEF texts, meant, cut, messages
<1>10. /\ run'.executed = run.executed /\ run'.meant = meant /\ run'.cut = cut
       /\ run'.pc \in {"returned", "call"} /\ run'.todo = r.calls
  BY <1>1, <1>5, <1>6 DEF RunRecord
<1> QED
  BY <1>9, <1>10 DEF MeantInv, Left

LEMMA HeadMoves ==
    ASSUME NEW S, NEW s \in Seq(S), NEW t \in Seq(S), t # <<>>
    PROVE  Append(s, Head(t)) \o Tail(t) = s \o t
<1> DEFINE h == Head(t)
           r == Tail(t)
<1>1. h \in S /\ r \in Seq(S)
  BY HeadTailProperties
<1>2. t = <<h>> \o r
  <2>1. Len(t) \in Nat /\ Len(t) # 0 /\ Len(r) = Len(t) - 1 /\ t[1] = h
        /\ \A i \in 1..Len(r) : r[i] = t[i + 1]
    BY HeadTailProperties, EmptySeq, LenProperties
  <2> HIDE DEF h, r
  <2>2. <<h>> \in Seq(S) /\ Len(<<h>>) = 1 /\ <<h>>[1] = h
    BY <1>1
  <2>3. /\ <<h>> \o r \in Seq(S) /\ Len(<<h>> \o r) = 1 + Len(r)
        /\ \A i \in 1..1 + Len(r) : (<<h>> \o r)[i] = IF i <= 1 THEN <<h>>[i] ELSE r[i - 1]
    BY <1>1, <2>2, ConcatProperties
  <2> DEFINE u == <<h>> \o r
  <2>4. u \in Seq(S) /\ Len(u) = Len(t) /\ \A i \in 1..Len(t) : t[i] = u[i]
    BY <2>1, <2>2, <2>3
  <2> HIDE DEF u
  <2>5. t = u
    BY <2>4, SeqEqual
  <2> QED
    BY <2>5 DEF u
<1> HIDE DEF h, r
<1>3. Append(s, h) = s \o <<h>> /\ <<h>> \in Seq(S)
  BY <1>1, AppendIsConcat
<1>4. (s \o <<h>>) \o r = s \o (<<h>> \o r)
  BY <1>1, <1>3, ConcatAssociative
<1>5. Append(s, h) \o r = s \o t
  BY <1>2, <1>3, <1>4
<1> QED
  BY <1>5 DEF h, r

LEMMA LoopMeant ==
    ASSUME RunInv, MeantInv, Loop
    PROVE  MeantInv'
<1>1. run \in RunRecord
  BY DEF RunInv
<1>2. CASE Iterate \/ AnswerFails
  <2>1. /\ run'.executed = run.executed /\ run'.todo = run.todo
        /\ run'.meant = run.meant /\ run'.cut = run.cut
        /\ run'.pc \in {"returned", "model"} /\ (run'.pc = "model" => run.todo = <<>>)
    BY <1>1, <1>2, LoopGoes
  <2>2. run.pc \in {"model", "call"}
    BY <1>2 DEF Iterate, AnswerFails, RunAt
  <2> QED
    BY <2>1, <2>2, SameMeant DEF Left
<1>3. CASE BeginTurn \/ EndTurn
  BY <1>3, NewMeant DEF BeginTurn, EndTurn
<1>4. CASE StartCall
  <2>1. run.pc = "call" /\ run.todo # <<>>
    BY <1>4 DEF StartCall, RunAt
  <2>2. CASE expired
    <3>1. run' = [run EXCEPT !.pc = "returned", !.outcome = "cancelled"]
      BY <1>4, <2>2 DEF StartCall, Returns
    <3>2. /\ run'.executed = run.executed /\ run'.todo = run.todo
          /\ run'.meant = run.meant /\ run'.cut = run.cut /\ run'.pc = "returned"
      BY <1>1, <3>1 DEF RunRecord
    <3> QED
      BY <2>1, <3>2, SameMeant DEF Left
  <2>3. CASE ~expired
    <3> DEFINE x == Append(run.executed, Head(run.todo))
    <3>1. run' = [run EXCEPT !.pc = "execute", !.executed = x]
      BY <1>4, <2>3 DEF StartCall
    <3>2. run.executed \in Seq(Call) /\ run.todo \in Seq(Call)
      BY <1>1 DEF RunRecord
    <3>3. x \o Tail(run.todo) = run.executed \o run.todo
      BY <2>1, <3>2, HeadMoves
    <3> HIDE DEF x
    <3>4. /\ run'.executed = x /\ run'.todo = run.todo
          /\ run'.meant = run.meant /\ run'.cut = run.cut /\ run'.pc = "execute"
      BY <1>1, <3>1 DEF RunRecord
    <3> QED
      BY <2>1, <3>3, <3>4 DEF MeantInv, Left
  <2> QED
    BY <2>2, <2>3
<1>5. CASE EndCall
  <2>1. run.pc = "end"
    BY <1>5 DEF EndCall, RunAt
  <2> DEFINE todo == Tail(run.todo)
  <2>2. \E results, messages : run' = [run EXCEPT !.pc = "call", !.todo = todo, !.content = None,
                                          !.results = results, !.messages = messages]
    BY <1>5 DEF EndCall
  <2> HIDE DEF todo
  <2>3. /\ run'.executed = run.executed /\ run'.todo = todo
        /\ run'.meant = run.meant /\ run'.cut = run.cut /\ run'.pc = "call"
    BY <1>1, <2>2 DEF RunRecord
  <2> QED
    BY <2>1, <2>3, SameMeant DEF Left, todo
<1> QED
  BY <1>2, <1>3, <1>4, <1>5, AnswerMeant DEF Loop

LEMMA ToolsMeant ==
    ASSUME RunInv, MeantInv, Tools, run' # run
    PROVE  MeantInv'
<1>1. run.pc = "execute" /\ run \in RunRecord
  BY ToolRun DEF RunInv
<1>2. run.executed[Current].src \in Nat
  <2>1. Current \in 1..Len(run.executed) /\ run.executed \in Seq(Call)
    BY <1>1, LenProperties, EmptySeq DEF RunInv, RunRecord, Current
  <2>2. run.executed[Current] \in Call
    BY <2>1, ElementOfSeq
  <2> QED
    BY <2>2 DEF Call
<1>3. \/ \E c \in Contents : Says(c) /\ sent' = sent
      \/ \E src \in Nat : Emit(src) /\ (src = 0 \/ ResolveResult(src))
  BY <1>2, ToolSays
<1>4. \E c, w : run' = [run EXCEPT !.pc = "end", !.content = c, !.widgets = w]
  <2>1. CASE \E c \in Contents : Says(c)
    <3>1. PICK c \in Contents : run' = [run EXCEPT !.pc = "end", !.content = c]
      BY <2>1 DEF Says
    <3>2. run' = [run EXCEPT !.pc = "end", !.content = c, !.widgets = run.widgets]
      BY <1>1, <3>1 DEF RunRecord
    <3> QED
      BY <3>2
  <2>2. CASE \E src \in Nat : Emit(src)
    BY <2>2 DEF Emit
  <2> QED
    BY <1>3, <2>1, <2>2
<1>5. /\ run'.executed = run.executed /\ run'.todo = run.todo
      /\ run'.meant = run.meant /\ run'.cut = run.cut /\ run'.pc = "end"
  BY <1>1, <1>4 DEF RunRecord
<1> QED
  BY <1>1, <1>5, SameMeant DEF Left

LEMMA MeantStep == RunInv /\ MeantInv /\ [Next]_vars => MeantInv'
<1> SUFFICES ASSUME RunInv, MeantInv, [Next]_vars PROVE MeantInv'
  OBVIOUS
<1>1. CASE UNCHANGED run
  BY <1>1 DEF MeantInv, Left
<1>2. CASE Panic \/ Restart
  BY <1>2, NewMeant DEF Panic, Restart
<1> QED
  BY <1>1, <1>2, LoopMeant, ToolsMeant DEF Next, Deadline, vars, agentVars

LEMMA MeantStart == Init => MeantInv
<1> SUFFICES ASSUME Init PROVE MeantInv
  OBVIOUS
<1>1. run.executed = <<>> /\ run.meant = <<>> /\ run.todo = <<>> /\ run.pc = "idle"
  BY DEF Init, NoRun
<1>2. <<>> \o <<>> = <<>>
  OBVIOUS
<1> QED
  BY <1>1, <1>2 DEF MeantInv, Left

-----------------------------------------------------------------------------
(* Theorems *)

\* The inductive invariant of drafts, plans and the tool.
THEOREM DraftsInvariant == Spec => []DraftsInv
BY DraftsStart, DraftsStep, PTL DEF Spec

\* Drafts and plans agree whatever generations, adoptions, archivings and deletions
\* overlap: of the drafts that no failure hit, whatever failures hit the others, each
\* whose plan nobody is adopting any more is adopted, or superseded meanwhile, and its
\* conversation is closed.  Whatever fails, an adopted draft has its plan, a plan
\* deleted after its adoption stays deleted, and the draft the tool announces is the
\* one it was asked for.
THEOREM PlansAgree == Spec => []PlansFollowDrafts
<1>1. ASSUME DraftsInv PROVE PlansFollowDrafts
  <2>1. ASSUME NEW d \in 1..Len(drafts)
        PROVE  /\ drafts[d].status = "adopted" => plans[d] # "none"
               /\ plans[d] # "none" /\ Adopting(d) = {} /\ d \notin hurt =>
                    /\ conversation # "active"
                    /\ drafts[d].status = "adopted" \/ d \in crossed
    <3>1. drafts[d].status \in Statuses
      <4>1. PICK I : drafts \in Seq(RowOf(I))
        BY <1>1 DEF DraftsInv, Typed, Recorded
      <4>2. drafts[d] \in RowOf(I)
        BY <4>1, LenProperties
      <4>3. QED
        BY <4>2 DEF RowOf
    <3>2. ASSUME plans[d] # "none", Adopting(d) = {}, d \notin hurt
          PROVE  conversation # "active" /\ (drafts[d].status = "adopted" \/ d \in crossed)
      <4>1. Sound(d)
        BY <1>1, <3>2 DEF DraftsInv, Faultless
      <4>2. ~InHand(d, {"mark"}) /\ ~InHand(d, {"mark", "archive"}) /\ ~Unused(d)
        BY <3>2 DEF InHand, Adopting, Unused
      <4>3. QED
        BY <3>1, <3>2, <4>1, <4>2 DEF Sound, Statuses
    <3>3. QED
      BY <1>1, <3>2 DEF DraftsInv, Backed
  <2>2. PlansAreAdopted
    BY <2>1 DEF PlansAreAdopted
  <2>3. DeletedStaysDeleted /\ AnnouncedIsAsked
    BY <1>1 DEF DraftsInv, Buried, Announced, DeletedStaysDeleted, AnnouncedIsAsked
  <2>4. QED
    BY <2>2, <2>3 DEF PlansFollowDrafts
<1>2. QED
  BY <1>1, DraftsInvariant, PTL

\* What keeps drafts few: the types, the run, and how many drafts there are.
THEOREM FewInvariant == Spec => [](RunInv /\ FewInv /\ TypeInv)
<1>1. Init => RunInv /\ FewInv /\ TypeInv
  BY RunStart, FewStart, TypeStart
<1>2. DraftsInv /\ (RunInv /\ FewInv /\ TypeInv) /\ [Next]_vars => (RunInv /\ FewInv /\ TypeInv)'
  BY RunStep, FewStep, TypeStep
<1>3. QED
  BY <1>1, <1>2, DraftsInvariant, PTL DEF Spec

LEMMA TypesAreRight ==
    ASSUME DraftsInv, RunInv, TypeInv
    PROVE  TypeOK
<1>1. drafts \in Seq(Draft) /\ Len(drafts) <= MaxDrafts
  <2>1. RowOf(Inputs) = Draft
    BY DEF RowOf, Draft, Statuses
  <2>2. QED
    BY <2>1 DEF TypeInv, RowsTyped, DraftsInv, Typed
<1>2. plans \in [Ids -> {"none", "live", "deleted"}] /\ faults \in 0..MaxFaults
  BY DEF DraftsInv, Typed
<1>3. tool \in [pc : {"idle", "conversation", "list", "supersede", "create",
                      "recommend", "ready", "failed", "done"},
                input : Inputs \cup {None}, draft : 0..MaxDrafts,
                result : {None, "refused", "generating", "reused", "ready", "failed"}]
  <2>1. tool \in ToolOf(Inputs \cup {None}) /\ tool.draft \in 0..MaxDrafts
    BY BoundTyped DEF TypeInv, ToolTyped, ToolOf
  <2>2. QED
    BY <2>1 DEF ToolOf, Results
<1>4. req \in [Procs -> [pc : {"idle", "read", "insert", "restore", "lookup",
                               "mark", "archive"},
                         draft : 0..MaxDrafts, cut : BOOLEAN]]
  <2>1. req \in [Procs -> Request] /\ \A p \in Procs : req[p].draft \in 0..MaxDrafts
    BY BoundTyped DEF DraftsInv, Typed, TypeInv, RestTyped, Request
  <2>2. \A p \in Procs : req[p] \in [pc : {"idle", "read", "insert", "restore", "lookup",
                                          "mark", "archive"},
                                     draft : 0..MaxDrafts, cut : BOOLEAN]
    BY <2>1 DEF Request
  <2>3. QED
    BY <2>1, <2>2
<1>5. /\ conversation \in {"active", "archived", "deleted"} /\ expired \in BOOLEAN
      /\ budget \in 0..MaxRequests /\ crossed \in SUBSET Ids
  BY DEF TypeInv, RestTyped
<1>6. buried \in SUBSET Ids /\ hurt \in SUBSET Ids
  BY RowsAreIds DEF DraftsInv, Typed
<1>7. DraftsTypeOK
  BY <1>1, <1>2, <1>3, <1>4, <1>5, <1>6 DEF DraftsTypeOK
<1>8. QED
  BY <1>7 DEF TypeOK, RunInv, RunRecord, RunStates, Result, Widget, Message, Event,
              Contents, Outcome

LEMMA FewAreFew ==
    ASSUME DraftsInv, FewInv
    PROVE  OneOpenDraft /\ OneLateDraft /\ StuckNeedsFault
<1> DEFINE n == Len(drafts)
<1>1. n \in Nat /\ faults \in 0..MaxFaults /\ MaxFaults \in Nat /\ Spent \in Nat
  <2>1. n \in Nat /\ faults \in 0..MaxFaults /\ MaxFaults \in Nat
    BY RowsAreIds, DraftsAssumption DEF DraftsInv, Typed, DraftsAssumption
  <2>2. QED
    BY <2>1, TakenIsSpent DEF Spent
<1>2. OneOpenDraft
  <2>1. Cardinality(OpenIn(drafts, n - 1)) <= Spent
    BY DEF FewInv, Paid
  <2>2. Cardinality(OpenIn(drafts, n)) <= Cardinality(OpenIn(drafts, n - 1)) + 1
    BY <1>1, OpenGrows
  <2>3. Cardinality(OpenIn(drafts, n)) \in Nat /\ Cardinality(OpenIn(drafts, n - 1)) \in Nat
    BY <1>1, OpenType
  <2>4. Cardinality(OpenIn(drafts, n)) <= 1 + Spent
    BY <1>1, <2>1, <2>2, <2>3
  <2>5. QED
    BY <2>4 DEF OneOpenDraft, OpenIn, Open
<1>3. OneLateDraft
  <2> DEFINE L == {d \in 1..n : drafts[d].late}
  <2>1. \A d, e \in L : d = e
    BY DEF FewInv, LateOnce
  <2>2. L = {} \/ \E d : L = {d}
    BY <2>1
  <2> HIDE DEF L
  <2>3. Cardinality(L) = 0 \/ Cardinality(L) = 1
    BY <2>2, FS_EmptySet, FS_Singleton, Zenon
  <2>4. Cardinality(L) <= 1
    BY <2>3
  <2>5. QED
    BY <2>4 DEF L, OneLateDraft
<1>4. StuckNeedsFault
  BY DEF FewInv, Attended, Refused, StuckNeedsFault
<1>5. QED
  BY <1>2, <1>3, <1>4

\* Variables and rows keep their types: rows, tool, requests, run and events.
THEOREM TypesKept == Spec => []TypeOK
BY TypesAreRight, DraftsInvariant, FewInvariant, PTL

\* A conversation keeps one open draft, ready or being generated, and one more for
\* each failure, and sees at most one draft after it is archived or deleted.  Each
\* draft that stays generating was hit by a failure itself, and only for such a one
\* does the tool refuse, whatever generations, adoptions and deletions overlap.
THEOREM FewDrafts == Spec => []DraftsAreFew
<1>1. ASSUME DraftsInv, RunInv, FewInv, TypeInv PROVE DraftsAreFew
  BY <1>1, TypesAreRight, FewAreFew DEF DraftsAreFew, TypeOK
<1>2. QED
  BY <1>1, DraftsInvariant, FewInvariant, PTL

\* What is streamed, what the run keeps and what a client may rely on, at every step.
THEOREM ReplyInvariant == Spec => []ReplyInv
<1>1. Init => RunInv /\ ReplyInv
  BY RunStart, ReplyStart
<1>2. RunInv /\ ReplyInv /\ [Next]_vars => (RunInv /\ ReplyInv)'
  BY RunStep, ReplyStep
<1>3. QED
  BY <1>1, <1>2, PTL DEF Spec

\* What a client sees of each call is a start, its widgets and its end, in order; a run
\* that ended well returns what it streamed; and a chart has the rows it was drawn from.
THEOREM CompleteReplies == Spec => []RepliesAreComplete
<1>1. ASSUME ReplyInv PROVE RepliesAreComplete
  BY <1>1, DraftsAssumption
     DEF ReplyInv, RepliesAreComplete, Told, ReturnsWhatItStreamed, DraftsAssumption
<1>2. QED
  BY <1>1, ReplyInvariant, PTL

\* What the model was sent, and what of it has results, at every step.
THEOREM MessageInvariant == Spec => []MessageInv
<1>1. RunInv /\ (ReplyInv /\ MessageInv) /\ [Next]_vars => MessageInv'
  BY MessageStep DEF ReplyInv
<1>2. RunInv /\ ReplyInv /\ MessageInv /\ [Next]_vars => (RunInv /\ ReplyInv /\ MessageInv)'
  BY <1>1, RunStep, ReplyStep
<1>3. Init => RunInv /\ ReplyInv /\ MessageInv
  BY RunStart, ReplyStart, MessageStart
<1>4. QED
  BY <1>2, <1>3, PTL DEF Spec

\* The model is asked again only with one result, in order, for each call of each of its
\* answers, and Anthropic's API finds the results of an answer together behind it.
THEOREM PairedMessages == Spec => []MessagesArePaired
<1>1. ASSUME TypeOK, RunInv, MessageInv PROVE MessagesArePaired
  BY <1>1, PairedMessagesAreTaken DEF MessagesArePaired
<1>2. QED
  BY <1>1, TypesKept, FewInvariant, MessageInvariant, PTL

\* What is executed, what is left of an answer and what was meant, at every step.
THEOREM MeantInvariant == Spec => []MeantInv
<1>1. Init => RunInv /\ MeantInv
  BY RunStart, MeantStart
<1>2. RunInv /\ MeantInv /\ [Next]_vars => (RunInv /\ MeantInv)'
  BY RunStep, MeantStep
<1> QED
  BY <1>1, <1>2, PTL DEF Spec

\* The calls executed and to be executed are those the model meant, each with all its
\* arguments and in order, unless a stream was cut short.
THEOREM MeantCalls == Spec => []CallsAreMeant
<1>1. ASSUME MeantInv PROVE CallsAreMeant
  BY <1>1 DEF MeantInv, Left, CallsAreMeant, RunAt
<1> QED
  BY <1>1, MeantInvariant, PTL

===============================================================================
