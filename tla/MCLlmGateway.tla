---------------------------- MODULE MCLlmGateway -----------------------------
(* The LLM gateway for TLC: a conversation message and, once it is accepted,
   the conversation's outcome. *)
EXTENDS LlmGateway

CONSTANTS bob, conversations

Conversation ==
  << [agent |-> bob, module |-> conversations, tier |-> 3, after |-> 0],
     [agent |-> bob, module |-> conversations, tier |-> 2, after |-> 1] >>

(* One answer is dear, the other long. *)
DearOrLong == {[cost |-> 4, tokens |-> 2], [cost |-> 1, tokens |-> 4]}
=============================================================================
