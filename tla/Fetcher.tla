------------------------------- MODULE Fetcher ------------------------------
(***************************************************************************)
(* What a provider's functions are made of.  An operation of the           *)
(* inventory, an exposure probe or a collector of facts reads the cloud    *)
(* by a tree of calls: the outer calls list things, the inner ones are     *)
(* made for each thing listed.  The functions differ in the calls, in      *)
(* whether they follow the pages, and in what they do about an error; this *)
(* module names these differences, and the modules of the catalog          *)
(* (AwsOperations, AwsItemProbes, AwsListProbes, AwsFacts, GcpFetchers,    *)
(* AzureFetchers) write down each function of the source with them.        *)
(*                                                                         *)
(* Not kept: which field of a response goes where, and the checks that     *)
(* skip a listed thing without the key the next call needs - such a thing  *)
(* counts as not listed.                                                   *)
(***************************************************************************)
EXTENDS Naturals, SequencesExt

(* What a call's error does to the function it happens in:                 *)
(*   "fail"  return nil, err         what was read is dropped (a collector *)
(*           return 0, err           of facts returns that it has none)    *)
(*   "keep"  return out, err         what was read is handed over too      *)
(*   "skip"  continue, break, or a   the rest of this call is given up,    *)
(*           return of a helper      and nobody is told                    *)
(*   "note"  listErr, dropped        as "skip", and the function returns   *)
(*                                   what it read with an error            *)
(*   "take"  resp without a look     a refusal is an HTTP status, and what *)
(*           at its StatusCode       it says is taken for a thing; only no *)
(*                                   answer at all is an error ("fail")    *)
OnError == {"fail", "keep", "skip", "note", "take"}

(* How a call is read:                                                     *)
(*   "pages"    page by page, the inner calls made for one page before the *)
(*              next is read                                               *)
(*   "all"      every page before the first inner call                     *)
(*   "once"     one request, of an API that does not page, or that is      *)
(*              asked for one thing by its name                            *)
(*   "first"    one request of an API whose answer can be several pages    *)
(*   "batches"  one request for a batch of the things listed outside       *)
(*   "each"     no call: a list the function has from elsewhere            *)
(*   "found"    no call: what the calls before it have looked up           *)
(* and what becomes of the things it yields:                               *)
(*   "record"   they are results   "lookup"  they are what "found" means   *)
(*   "none"     only the inner calls are for them                          *)
Call(read, call, onError) ==
  [read |-> read, call |-> call, onError |-> onError, yields |-> "record", then |-> <<>>]

Pages(call, onError) == Call("pages", call, onError)
All(call, onError) == Call("all", call, onError)
Once(call, onError) == Call("once", call, onError)
First(call, onError) == Call("first", call, onError)
Batches(call, onError) == Call("batches", call, onError)
Each == Call("each", "-", "skip")
Found == Call("found", "-", "skip")

Lookup(node) == [node EXCEPT !.yields = "lookup"]

(* The inner calls made for each thing of an outer one, which is a result  *)
(* itself (Also) or not (Under).                                           *)
Also(node, inner) == [node EXCEPT !.then = inner]
Under(node, inner) == [node EXCEPT !.then = inner, !.yields = "none"]

(* Calls each made for the things of the one before.                       *)
Chain(nodes) == FoldRight(LAMBDA node, inner :
  <<IF inner = <<>> THEN node ELSE Under(node, inner)>>, nodes, <<>>)

(* A function: the table it is registered in, its key there, the resource  *)
(* type or the scope it is for, and its calls, in order.                   *)
Function(table, op, resource, reads) ==
  [table |-> table, op |-> op, resource |-> resource, reads |-> reads]

(* The tables: the inventory's operations, the probes of collected items,  *)
(* the probes that list their own targets, the collectors of facts; and    *)
(* "scopes", the lists of accounts and places made before a run.           *)
Operation(op, nodes) == Function("operation", op, "-", Chain(nodes))
Item(op, resource, nodes) == Function("item", op, resource, Chain(nodes))
List(op, service, nodes) == Function("list", op, service, Chain(nodes))
Facts(op, scope, reads) == Function("facts", op, scope, reads)

(* The table of a provider: a map by operation, so that of two functions   *)
(* registered for one operation the later is the one that is called.       *)
TableOf(registrations) ==
  {registrations[i] : i \in {j \in DOMAIN registrations :
     \A k \in DOMAIN registrations : k > j => registrations[k].op # registrations[j].op}}

(* The usual operation lists one thing to its end; the usual probe of an   *)
(* item makes the one call it is registered for (Samples: of an API that   *)
(* pages).                                                                 *)
Lists(op, call) == <<Operation(op, <<Pages(call, "fail")>>)>>
Reads(resource, ops) ==
  [i \in DOMAIN ops |-> Item(ops[i], resource, <<Once(ops[i], "fail")>>)]
Samples(resource, ops) ==
  [i \in DOMAIN ops |-> Item(ops[i], resource, <<First(ops[i], "fail")>>)]

(* The usual collector of facts lists resources and asks each for its policy. *)
Policies(op, scope, list, policy) ==
  <<Facts(op, scope, Chain(<<Pages(list, "keep"), Once(policy, "skip")>>))>>

=============================================================================
