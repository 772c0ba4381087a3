----------------------------- MODULE RequestRepeats -----------------------------
(***************************************************************************)
(* POST requests with an Idempotency-Key (platform/httpx/idempotency.go):   *)
(* one key of one user.  A client sends a request, again when its answer is *)
(* late, or by mistake another one under the same key.  Lookup, handler and *)
(* storing of the answer are three transactions; the server may die between *)
(* them, and the client has the answer before it is stored.  A key is kept  *)
(* for 24 hours and removed by an hourly job after that.                    *)
(***************************************************************************)
EXTENDS Integers, Sequences

CONSTANTS
    Posts,       \* requests in flight
    Bodies,      \* what may be sent under the key
    MaxEffects   \* bound: handlers that commit

ASSUME PostAssumption == MaxEffects \in Nat

NoBody == 0
ASSUME BodyAssumption == NoBody \notin Bodies

VARIABLES
    post,       \* post[q]: at, body, answer (the number of the effect it tells)
    kept,       \* the row of idempotency_keys: body, answer, valid
    effects,    \* history: the bodies of the handlers that committed, in order
    replies,    \* history: the answers clients got, with the body they sent
    broken      \* history: requests overlapped, the server died, the key expired

repeatVars == <<post, kept, effects, replies, broken>>

NoPost == [at |-> "idle", body |-> NoBody, answer |-> 0]
NoKey  == [body |-> NoBody, answer |-> 0, valid |-> FALSE]

(* Mutant of SameRequest: the key alone identifies a request.               *)
SameKey(body) == TRUE

(* request_hash.                                                            *)
SameRequest(body) == kept.body = body

(* The first transaction: replay, refusal (422), or on to the handler.      *)
Lookup(q, body) ==
    /\ post[q].at = "idle"
    /\ broken' = (broken \/ \E p \in Posts : post[p].at # "idle")
    /\ CASE kept.valid /\ SameRequest(body) ->
              replies' = replies \cup {[body |-> body, answer |-> kept.answer]} /\ UNCHANGED post
         [] kept.valid /\ ~SameRequest(body) -> UNCHANGED <<replies, post>>
         [] OTHER -> post' = [post EXCEPT ![q] = [at |-> "run", body |-> body, answer |-> 0]]
                     /\ UNCHANGED replies
    /\ UNCHANGED <<kept, effects>>

(* Only an answer of 200 to 299 is stored.                                  *)
Storable(answer) == answer # 0

(* The handler commits and answers with what it did, or fails.              *)
Run(q) ==
    /\ post[q].at = "run"
    /\ \/ /\ Len(effects) < MaxEffects
          /\ effects' = Append(effects, post[q].body)
          /\ post' = [post EXCEPT ![q].at = "store", ![q].answer = Len(effects) + 1]
          /\ replies' = replies \cup {[body |-> post[q].body, answer |-> Len(effects) + 1]}
       \/ /\ post' = [post EXCEPT ![q] = IF Storable(0) THEN [@ EXCEPT !.at = "store"] ELSE NoPost]
          /\ UNCHANGED <<effects, replies>>
    /\ UNCHANGED <<kept, broken>>

(* ON CONFLICT DO NOTHING, an expired row included.                         *)
StoreAnswer(q) ==
    /\ post[q].at = "store"
    /\ post' = [post EXCEPT ![q] = NoPost]
    /\ kept' = IF kept = NoKey THEN [body |-> post[q].body, answer |-> post[q].answer, valid |-> TRUE]
               ELSE kept
    /\ UNCHANGED <<effects, replies, broken>>

ServerDies(q) ==
    /\ post[q].at # "idle"
    /\ post' = [post EXCEPT ![q] = NoPost] /\ broken' = TRUE
    /\ UNCHANGED <<kept, effects, replies>>

KeyExpires ==
    /\ kept.valid
    /\ kept' = [kept EXCEPT !.valid = FALSE] /\ broken' = TRUE
    /\ UNCHANGED <<post, effects, replies>>

(* idempotency.cleanup.                                                     *)
Cleanup ==
    /\ kept # NoKey /\ ~kept.valid
    /\ kept' = NoKey
    /\ UNCHANGED <<post, effects, replies, broken>>

RepeatInit ==
    /\ post = [q \in Posts |-> NoPost] /\ kept = NoKey
    /\ effects = <<>> /\ replies = {} /\ broken = FALSE

RepeatNext ==
    \/ KeyExpires \/ Cleanup
    \/ \E q \in Posts : \/ \E body \in Bodies : Lookup(q, body)
                        \/ Run(q) \/ StoreAnswer(q) \/ ServerDies(q)

RepeatSpec == RepeatInit /\ [][RepeatNext]_repeatVars

-----------------------------------------------------------------------------
(* Every row keeps its type.                                                *)
RepeatTypeOK ==
    /\ post \in [Posts -> [at : {"idle", "run", "store"}, body : Bodies \cup {NoBody}, answer : Nat]]
    /\ kept \in [body : Bodies \cup {NoBody}, answer : Nat, valid : BOOLEAN]
    /\ effects \in Seq(Bodies)
    /\ replies \subseteq [body : Bodies, answer : Nat]
    /\ broken \in BOOLEAN

(* A success told to a client, first or replayed, is an effect that         *)
(* committed for the very request it sent; and while requests of a key come *)
(* one after the other, the server lives and the key is kept, there is one  *)
(* effect, however often they are repeated.                                 *)
RepliesAgree ==
    /\ \A r \in replies : r.answer \in DOMAIN effects /\ effects[r.answer] = r.body
    /\ ~broken => Len(effects) <= 1
=============================================================================
