--------------------------- MODULE MCConversations ---------------------------
(* One founder with two companies and two partners: the talks share the     *)
(* founder, and the cooldown decides which partner the second one meets.    *)
EXTENDS Conversations

MCFounderOf == [c \in Companies |-> "bob"]
MCPartners == <<"pam", "quin">>
tie(type, strength) == [type |-> type, strength |-> strength, last |-> 0]
MCTies ==
  [d \in {"bob", "pam", "quin"} \X {"bob", "pam", "quin"} |->
     CASE d = <<"bob", "pam">> -> tie("adversary", -1)
       [] d = <<"pam", "bob">> -> tie("friend", 100)
       [] d = <<"bob", "quin">> -> tie("business", 0)
       [] OTHER -> NoTie]
=============================================================================
