-------------------------------- MODULE Fetch -------------------------------
(***************************************************************************)
(* One call of a provider's function, from the first request to the row    *)
(* its caller writes (scheduler.go:run, prober.go:probeSite and            *)
(* runListFetcher, facts.go:runFactTask).  Which function is called is     *)
(* chosen at the start, what the cloud answers is chosen request by        *)
(* request: things, of which there may be more on a next page, or a        *)
(* refusal.                                                                *)
(***************************************************************************)
EXTENDS Fetcher, Integers

CONSTANTS
  Functions,   \* the functions a call may be of
  MaxThings,   \* bound: the things on one page
  BatchSize,   \* the things of one batched request (50 to 900 in the source)
  MaxCalls,    \* bound: later requests are answered with nothing
  FirstPages,  \* the uses <<operation, call>> that read one page of what may be more
  Overlooked   \* the operations whose outermost refusal nobody is told of

(* The calls a function makes below others, the calls it starts with (a    *)
(* list it has anyway is none), and all it may come to.                    *)
Within(nodes) == UNION {ToSet(node.then) : node \in nodes}

Below(f) ==
  LET two == Within(ToSet(f.reads)) three == Within(two) IN two \cup three \cup Within(three)

Requested(node) == node.read \notin {"each", "found"}

OutermostOf(f) == UNION {
  {node.call : node \in IF Requested(outer) THEN {outer} ELSE ToSet(outer.then)} :
    outer \in ToSet(f.reads)}

Reached(f) == {node \in ToSet(f.reads) \cup Below(f) : Requested(node)}

(* What the functions of the source keep to.  A collector of facts drops   *)
(* its count ("fail") in its first call only, before anything is counted,  *)
(* and takes no refusal for a thing.                                       *)
DropsNothing(f) ==
  f.table = "facts" =>
    /\ \A node \in ToSet(f.reads) \cup Below(f) : node.onError # "take"
    /\ \A node \in Below(f) \cup ToSet(Tail(f.reads)) : node.onError # "fail"
    /\ Head(f.reads).onError = "fail" =>
         \/ Head(f.reads).read \in {"once", "first"}
         \/ Head(f.reads).read = "all" /\ Head(f.reads).yields # "record"

WellFormed(node) ==
  /\ node.onError \in OnError /\ node.yields \in {"record", "lookup", "none"}
  /\ node.then \in Seq(ToSet(node.then))

ASSUME FetchAssumption ==
  /\ MaxThings \in Nat /\ BatchSize \in Nat \ {0} /\ MaxCalls \in Nat
  /\ \A f \in Functions :
       /\ f.reads # <<>> /\ f.reads \in Seq(ToSet(f.reads))
       /\ Within(Below(f)) \subseteq Below(f)
       /\ \A node \in ToSet(f.reads) \cup Below(f) : WellFormed(node)
       /\ \A node \in Reached(f) : node.read = "first" => <<f.op, node.call>> \in FirstPages
       /\ DropsNothing(f)

VARIABLES
  function,  \* the function called
  stack,     \* its loops, the outermost first
  things,    \* how many results it holds, the number it will return
  found,     \* how many things its lookups have found
  noted,     \* whether an error is kept for the end
  row,       \* the row of the ledger: "running", "ok", "empty", "error"
  lines,     \* lines in the bundle
  requests,  \* the requests made, up to MaxCalls
  refused,   \* history: the calls that were refused
  unread     \* history: the uses of which a page the API offered was left

fetchVars == <<function, stack, things, found, noted, row, lines, requests, refused, unread>>

(* A loop: the things on its page that are not begun, whether there is a   *)
(* request to make, whether the API has offered another page, and which    *)
(* inner call comes next for the thing it is at (0: it is at none).        *)
Loop(node, left, more) ==
  [node |-> node, left |-> left, more |-> more, offered |-> FALSE, at |-> 0]

FetchInit ==
  /\ function \in Functions
  /\ stack = <<Loop(Under(Each, function.reads), 1, FALSE)>>
  /\ things = 0 /\ found = 0 /\ noted = FALSE
  /\ row = "running" /\ lines = 0
  /\ requests = 0 /\ refused = {} /\ unread = {}

Top == Last(stack)
AtThing == Top.at \in DOMAIN Top.node.then

Becomes(loop) == stack' = [stack EXCEPT ![Len(stack)] = loop]

(* The things an inner node has without a call, or Calls.                  *)
Calls == -1
Given(node) == CASE node.read = "each" -> MaxThings [] node.read = "found" -> found [] OTHER -> Calls

(* n results: the collectors of facts write them down as they come.        *)
Yields(node, n) ==
  /\ things' = IF node.yields = "record" THEN things + n ELSE things
  /\ lines' = IF node.yields = "record" /\ function.table = "facts" THEN lines + n ELSE lines
  /\ found' = IF node.yields = "lookup" THEN found + n ELSE found

(* A faulty variant: the loop over batches does not move on.               *)
SameBatch(loop) == IF loop.node.then[1].read = "batches" THEN 0 ELSE 1

(* The things of the outer loop an inner call takes: one, but for a batch. *)
Taken(loop) == IF loop.node.then[1].read = "batches" THEN Min({loop.left, BatchSize}) ELSE 1

(* The next thing, or the next inner call for the same.                    *)
Enter ==
  LET at == IF AtThing THEN Top.at ELSE 1
      left == IF AtThing THEN Top.left ELSE Top.left - Taken(Top)
      node == Top.node.then[at]
      given == Given(node)
  IN /\ row = "running" /\ Top.node.then # <<>>
     /\ \/ AtThing
        \/ ~AtThing /\ Top.left > 0 /\ (Top.node.read = "all" => ~Top.more)
     /\ stack' = Append(Front(stack) \o <<[Top EXCEPT !.at = at + 1, !.left = left]>>,
                        Loop(node, IF given = Calls \/ node.then = <<>> THEN 0 ELSE given,
                             given = Calls))
     /\ Yields(node, IF given = Calls THEN 0 ELSE given)
     /\ UNCHANGED <<function, noted, row, requests, refused, unread>>

(* A request is due when nothing of the page is left to go through.        *)
Due == row = "running" /\ Top.more /\ ~AtThing /\ (Top.left = 0 \/ Top.node.read = "all")

Paged(node) == node.read \in {"pages", "all", "first"}

(* A faulty variant: an empty page is taken for the last.                  *)
AnswerUntilEmpty(n, next) ==
  /\ Due /\ (next => Paged(Top.node)) /\ (n > 0 \/ next => requests < MaxCalls)
  /\ requests' = Min({requests + 1, MaxCalls})
  /\ Becomes([Top EXCEPT !.more = next /\ n > 0 /\ Top.node.read # "first",
                         !.offered = next, !.at = 0,
                         !.left = IF Top.node.then = <<>> THEN 0 ELSE @ + n])
  /\ Yields(Top.node, n)
  /\ UNCHANGED <<function, noted, row, refused, unread>>

(* A page of n things, and whether the API offers a next one.  A page may  *)
(* be empty and not the last.                                              *)
Answer(n, next) ==
  /\ Due /\ (next => Paged(Top.node)) /\ (n > 0 \/ next => requests < MaxCalls)
  /\ requests' = Min({requests + 1, MaxCalls})
  /\ Becomes([Top EXCEPT !.more = next /\ Top.node.read # "first",
                         !.offered = next, !.at = 0,
                         !.left = IF Top.node.then = <<>> THEN 0 ELSE @ + n])
  /\ Yields(Top.node, n)
  /\ UNCHANGED <<function, noted, row, refused, unread>>

(* The row the caller writes, and what becomes of the results.  The        *)
(* callers other than those of facts drop the results that come with an    *)
(* error: the scheduler's run returns, the prober turns to its next target.*)
(* A faulty variant: the scheduler keeps what came before the error.       *)
RowSettledKeeping(failed, n) ==
  /\ row' = IF failed THEN "error" ELSE IF n = 0 THEN "empty" ELSE "ok"
  /\ things' = n
  /\ lines' = IF function.table = "facts" THEN lines ELSE n

RowSettled(failed, n) ==
  /\ row' = IF failed THEN "error" ELSE IF n = 0 THEN "empty" ELSE "ok"
  /\ things' = n
  /\ lines' = IF function.table = "facts" THEN lines ELSE IF failed THEN 0 ELSE n

(* What is kept for the end.  Faulty variants: the error of a list breaks  *)
(* its loop and no more; that of anything is kept.                         *)
NotedNever(onError) == noted
NotedAlways(onError) == TRUE

Noted(onError) == noted \/ onError = "note"

(* A request that is answered with an HTTP status, or not at all.          *)
Reactions(node) == IF node.onError = "take" THEN {"take", "fail"} ELSE {node.onError}

(* A refusal: AccessDenied, a throttling the SDK gave up on, anything.     *)
Refused(onError) ==
  \/ /\ onError \in {"fail", "keep"}
     /\ stack' = <<>>
     /\ RowSettled(TRUE, IF onError = "fail" THEN 0 ELSE things)
     /\ UNCHANGED <<noted, found>>
  \/ /\ onError \in {"skip", "note", "take"}
     /\ Becomes([Top EXCEPT !.more = FALSE])
     /\ noted' = Noted(onError)
     /\ Yields(Top.node, IF onError = "take" THEN 1 ELSE 0)
     /\ UNCHANGED row

Refuse ==
  /\ Due
  /\ requests' = Min({requests + 1, MaxCalls}) /\ refused' = refused \cup {Top.node.call}
  /\ \E onError \in Reactions(Top.node) : Refused(onError)
  /\ UNCHANGED <<function, unread>>

(* The end of a loop, and of the function with the outermost.              *)
LeaveLoop ==
  /\ row = "running" /\ ~AtThing /\ Top.left = 0 /\ ~Top.more
  /\ stack' = Front(stack)
  /\ unread' = IF Top.offered THEN unread \cup {<<function.op, Top.node.call>>} ELSE unread
  /\ IF Len(stack) > 1 THEN UNCHANGED <<row, things, lines>> ELSE RowSettled(noted, things)
  /\ UNCHANGED <<function, found, noted, requests, refused>>

Ask == Refuse \/ \E n \in 0..MaxThings, next \in BOOLEAN : Answer(n, next)

FetchNext == Enter \/ Ask \/ LeaveLoop

FetchSpec == FetchInit /\ [][FetchNext]_fetchVars

-----------------------------------------------------------------------------
(* Whatever ends a collector of facts, a denial half way through included, *)
(* the count in its row of the ledger is the number of lines it has        *)
(* written, and of an operation or a probe that failed nothing is kept.    *)
CountIsOnDisk == row # "running" =>
  /\ function.table = "facts" => things = lines
  /\ function.table # "facts" => lines = IF row = "error" THEN 0 ELSE things

(* Under a row without an error a page the cloud offered was left for two  *)
(* reasons only, however the pages, empty ones among them, and the inner   *)
(* calls fell: the function reads one page of that call, or that call was  *)
(* refused at a later page - a list inside, cut short and reported nowhere.*)
NothingLeftUnread ==
  row \in {"ok", "empty"} =>
    \A use \in unread : use \in FirstPages \/ use[2] \in refused

Outermost == OutermostOf(function)

(* A list that was refused is never an empty list, nor a whole one: when a *)
(* row has no error, none of the calls the function starts with was        *)
(* refused - but for the functions that overlook it.                       *)
RefusedIsNotEmpty ==
  row \in {"ok", "empty"} /\ function.op \notin Overlooked => refused \cap Outermost = {}

(* The bulkhead within a function: of a probe that lists its own targets,  *)
(* or a collector of facts, only its outermost lists can fail it; a thing  *)
(* that cannot be read costs that thing.  The managed policies are the     *)
(* exception, where one lost document is an error of the whole.            *)
OneThingFailsNothing ==
  row = "error" /\ function.table \in {"list", "facts"} /\ function.op # "iam-resource-policy"
    => refused \cap Outermost # {}

=============================================================================
