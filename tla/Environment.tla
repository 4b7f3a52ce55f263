---------------------------- MODULE Environment ----------------------------
(***************************************************************************)
(* The environment a command is started with (internal/server/handler.go): *)
(* that of the service, and over it what the request asks for unless the   *)
(* key is invalid or blocked.  A key is a name in capitals, whether it is  *)
(* written so, and what follows the name: nothing, or an "=" or a NUL and  *)
(* more.                                                                   *)
(***************************************************************************)

CONSTANTS Names,           \* names of variables, in capitals
          blockedEnvVars,  \* those that are blocked
          blockedByPrefix  \* those that begin with LD_ or BASH_FUNC_

ASSUME NamesAssumption == blockedEnvVars \subseteq Names /\ blockedByPrefix \subseteq Names

Keys == [name : Names, capitals : BOOLEAN, rest : {"none", "equals", "NUL"}]

(* What is looked up and compared is the whole key in capitals. *)
isBlockedEnvVar(key) == \/ key.rest = "none" /\ key.name \in blockedEnvVars
                        \/ key.name \in blockedByPrefix

(* Fault: a key with an "=" is not rejected. *)
AcceptedWithEquals(keys) == {k \in keys : k.rest # "NUL" /\ ~isBlockedEnvVar(k)}

Accepted(keys) == {k \in keys : k.rest = "none" /\ ~isBlockedEnvVar(k)}

(* The variable an entry "key=value" sets: what precedes the first "=". *)
Variable(key) == [name |-> key.name, capitals |-> key.capitals]
Variables     == [name : Names, capitals : BOOLEAN]

(* os/exec keeps the last entry of a variable, and the request's come last.*)
Merge(parent, keys) ==
  LET asked == {Variable(k) : k \in Accepted(keys)}
  IN  [v \in parent \cup asked |-> IF v \in asked THEN "request" ELSE "service"]

(* Every variable whose name is blocked, in whatever letters, is what the  *)
(* service has it be: set by it, or not set.                               *)
Guarded(parent, env) ==
  \A v \in Variables : v.name \in blockedEnvVars \cup blockedByPrefix =>
    /\ v \in DOMAIN env <=> v \in parent
    /\ v \in DOMAIN env => env[v] = "service"
=============================================================================
