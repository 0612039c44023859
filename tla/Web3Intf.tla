------------------------------ MODULE Web3Intf ------------------------------
(***************************************************************************)
(* The JSON-RPC requests of web3intf.c, the buffer they are built in, and  *)
(* what the parsers of the protocols make of an answer.                    *)
(*                                                                         *)
(* Every web3_* function does the same: it counts the message, prints the  *)
(* request into the JSON buffer, which it enlarges until the text fits,    *)
(* sends it and hands back the whole answer.  Only the request differs, so *)
(* each function is the record of what it asks for.                        *)
(***************************************************************************)
EXTENDS Integers

CONSTANT NoHash      \* a transaction hash of length 0

web3_getTransactionCount(address)         == [method |-> "count", address |-> address]
web3_gasPrice                             == [method |-> "price"]
web3_getBalance(address)                  == [method |-> "balance", address |-> address]
web3_call(to)                             == [method |-> "call", to |-> to]
platon_web3_call(to)                      == [method |-> "call", to |-> to]
web3_sendRawTransaction(raw)              == [method |-> "send", raw |-> raw]
web3_getTransactionReceiptStatus(hash)    == [method |-> "receipt", hash |-> hash]
web3_fillTransaction(to, data)            == [method |-> "fill", to |-> to, data |-> data]
web3_sendRawPrivateTransaction(raw)       == [method |-> "send", raw |-> raw]

web3_fiscobcos_call(to)                          == [method |-> "call", to |-> to]
web3_fiscobcos_sendRawTransaction(raw)           == [method |-> "send", raw |-> raw]
web3_fiscobcos_getTransactionReceiptStatus(hash) == [method |-> "receipt", hash |-> hash]
web3_fiscobcos_getBlockNumber                    == [method |-> "block"]

web3_cita_call(to)                          == [method |-> "call", to |-> to]
web3_cita_sendRawTransaction(raw)           == [method |-> "send", raw |-> raw]
web3_cita_getTransactionReceiptStatus(hash) == [method |-> "receipt", hash |-> hash]
web3_cita_getBlockNumber                    == [method |-> "block"]

----------------------------------------------------------------------------
(* Lengths of a buffer are counted in steps of WEB3_STRING_BUF_STEP_SIZE.  *)

\* A request that carries a transaction or a payload needs a second step.
Steps(req) == IF req.method \in {"send", "fill", "call"} THEN 2 ELSE 1

\* Mutant: the buffer grows although the text fits.
MutantBoatFieldVariable_malloc_size_expand(len, steps) == len + steps

\* The buffer after enough rounds of "free, add a step, allocate".
BoatFieldVariable_malloc_size_expand(len, steps) == IF len >= steps THEN len ELSE steps

----------------------------------------------------------------------------
(* Answers.  "none" is the NULL a failed request returns, with the code it  *)
(* leaves in result_out; "garbage" is not                                  *)
(* JSON; "error" has no item "result"; "nonstring" is an object whose      *)
(* child is there but no string, as the JSON null.                         *)

AnsNone(code) == [kind |-> "none", code |-> code]
AnsGarbage == [kind |-> "garbage"]
AnsError   == [kind |-> "error"]
AnsNull    == [kind |-> "null"]
AnsString(x)               == [kind |-> "string", val |-> x]
AnsObject(child, grand, x) == [kind |-> "object", child |-> child, grand |-> grand, val |-> x]
AnsNonString(child)        == [kind |-> "nonstring", child |-> child]

Parsed(x)  == [code |-> "SUCCESS", val |-> x]
Refused(c) == [code |-> c, val |-> 0]

\* What the parsers have in common; dflt is what the result buffer holds
\* after a child that is no string.
ParseResult(ans, child, dflt) ==
  CASE ans.kind = "none"    -> Refused("INVALID_ARGUMENT")
    [] ans.kind = "garbage" -> Refused("JSON_PARSE_FAIL")
    [] ans.kind = "error"   -> Refused("JSON_GETOBJ_FAIL")
    [] ans.kind = "null"    -> Refused("JSON_OBJ_IS_NULL")
    [] ans.kind = "string"  -> Parsed(ans.val)
    [] ans.kind \in {"object", "nonstring"} /\ ans.child # child -> Refused("JSON_GETOBJ_FAIL")
    [] ans.kind = "object" /\ ans.child = child    -> Parsed(ans.val)
    [] ans.kind = "nonstring" /\ ans.child = child -> Parsed(dflt)

\* The result buffer keeps its old text.
eth_parse_json_result(ans, child, old)       == ParseResult(ans, child, old)
platon_parse_json_result(ans, child, old)    == ParseResult(ans, child, old)
platone_parse_json_result(ans, child, old)   == ParseResult(ans, child, old)
venachain_parse_json_result(ans, child, old) == ParseResult(ans, child, old)
fiscobcos_parse_json_result(ans, child, old) == ParseResult(ans, child, old)

\* A child that is an object itself is searched for the grandchild.
quorum_parse_json_result(ans, child, grand, old) ==
  IF ans.kind = "object" /\ ans.child = child /\ ans.grand \notin {"", grand}
  THEN Refused("JSON_GETOBJ_FAIL")
  ELSE ParseResult(ans, child, old)

\* The result buffer gets the text "null".
NullText == 0
cita_parse_json_result(ans, child) == ParseResult(ans, child, NullText)
=============================================================================
