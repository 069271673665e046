----------------------------- MODULE TenantConfig -----------------------------
(***************************************************************************)
(* The configuration of one tenant's models (tenant-config.service.js):    *)
(* the two files in its volume, settings.yaml with the override of the     *)
(* official endpoint and the custom providers, .credentials.yaml with      *)
(* their keys, and the signed requests that change them through scripts    *)
(* in a helper container, one file at a time.                              *)
(*                                                                         *)
(* Abstractions: a provider is its route, and its profile is the number of *)
(* the request that wrote it; a key is the number of the request that set  *)
(* it, 0 is none; one request at a time; a script that fails or is killed  *)
(* by its timeout has changed its file or not.                             *)
(***************************************************************************)
EXTENDS Naturals, Sequences, SequencesExt

CONSTANTS Route,     \* routes of custom providers
          Official,  \* stands for DEEPSEEK_API_KEY
          RefOf,     \* credentialRefFor: the key of a route
          MaxRequest \* bound on the requests of a behaviour

VARIABLES override, \* llm-deepseek of settings.yaml
          listed,   \* llm-pi-ai.providers: the profile of each route
          keys,     \* .credentials.yaml
          todo,     \* the scripts of the request under way, in order
          asked,    \* the request: kind, scope or list of providers
          answer,   \* of the last request
          fault,    \* a script, or a reading, failed so far; the last did
          count     \* requests so far

files == <<override, listed, keys>>
vars == <<files, todo, asked, answer, fault, count>>

Ref == {RefOf[r] : r \in Route} \cup {Official}
NoRequest == [kind |-> "none", list |-> [r \in Route |-> FALSE], keyed |-> {}]

Init == /\ override = FALSE
        /\ listed = [r \in Route |-> 0]
        /\ keys = [k \in Ref |-> 0]
        /\ todo = <<>>
        /\ asked = NoRequest
        /\ answer = "none" /\ count = 0
        /\ fault = [script |-> FALSE, missed |-> FALSE, read |-> FALSE]

-----------------------------------------------------------------------------
(* Scripts.                                                                *)

SetKey(k) == [do |-> "key", ref |-> k, value |-> TRUE]
DelKey(k) == [do |-> "key", ref |-> k, value |-> FALSE]
SetOverride(v) == [do |-> "override", value |-> v]
SetList(f) == [do |-> "list", value |-> f]
Read == [do |-> "read"]

(* merge-credentials.mjs and merge-settings.mjs.                           *)
Run(c) ==
  /\ keys' = IF c.do = "key" THEN [keys EXCEPT ![c.ref] = IF c.value THEN count ELSE 0]
             ELSE keys
  /\ override' = IF c.do = "override" THEN c.value ELSE override
  /\ listed' = IF c.do = "list"
               THEN [r \in Route |-> CASE c.value[r] = "set" -> count
                                       [] c.value[r] = "null" -> 0
                                       [] OTHER -> listed[r]]
               ELSE listed

-----------------------------------------------------------------------------
(* configure: the official key, the override, then the list.               *)

Request(kind, list, keyed, scripts) ==
  /\ todo = <<>> /\ count < MaxRequest
  /\ count' = count + 1
  /\ asked' = [kind |-> kind, list |-> list, keyed |-> keyed]
  /\ todo' = scripts /\ answer' = "none"
  /\ UNCHANGED <<files, fault>>

Nothing == NoRequest.list
Configure(key, over, list, keyed) ==
  LET first == IF key THEN <<SetKey(Official)>> ELSE <<>>
      second == IF over # "absent" THEN <<SetOverride(over = "set")>> ELSE <<>>
      third == IF list THEN <<Read>> ELSE <<>>
  IN /\ first \o second \o third # <<>>
     /\ \E S \in IF list THEN SUBSET Route ELSE {{}} :
          /\ keyed \subseteq S
          /\ Request(IF list THEN "list" ELSE "base", [r \in Route |-> r \in S],
                     keyed, first \o second \o third)

(* clear: of all, or of the official key.  With no section named, the      *)
(* script deletes llm-deepseek.                                            *)
Clear == Request("clear", Nothing, {}, <<Read>>)
ClearKey == Request("clearKey", Nothing, {}, <<DelKey(Official)>>)

(* Mutant: a provider that has left the list stays in the settings.        *)
AfterReadMerging(current) ==
  LET gone == {r \in current : ~asked.list[r]} IN
  <<SetList([r \in Route |-> IF asked.list[r] THEN "set" ELSE "keep"])>>
    \o SetToSeq({SetKey(RefOf[r]) : r \in asked.keyed})
    \o SetToSeq({DelKey(RefOf[r]) : r \in gone})

(* Mutant: only the providers that are replaced lose their keys.           *)
AfterReadKeeping(current) ==
  IF asked.kind = "list"
  THEN <<SetList([r \in Route |-> IF asked.list[r] THEN "set" ELSE "null"])>>
         \o SetToSeq({SetKey(RefOf[r]) : r \in asked.keyed})
  ELSE <<DelKey(Official), SetOverride(FALSE)>> \o SetToSeq({DelKey(RefOf[r]) : r \in current})

(* setProviders, and the rest of clear, when the routes have been read.    *)
AfterRead(current) ==
  LET gone == {r \in current : ~asked.list[r]} IN
  IF asked.kind = "list"
  THEN <<SetList([r \in Route |-> IF asked.list[r] THEN "set"
                                  ELSE IF r \in current THEN "null" ELSE "keep"])>>
         \o SetToSeq({SetKey(RefOf[r]) : r \in asked.keyed})
         \o SetToSeq({DelKey(RefOf[r]) : r \in gone})
  ELSE <<DelKey(Official), SetOverride(FALSE)>> \o SetToSeq({DelKey(RefOf[r]) : r \in current})

Finish(s) == /\ todo' = s
             /\ answer' = IF s = <<>> THEN "ok" ELSE answer

(* readProvidersMap: a failure reads as no provider.                       *)
ReadDone ==
  /\ todo # <<>> /\ Head(todo).do = "read"
  /\ \/ /\ Finish(AfterRead({r \in Route : listed[r] # 0}) \o Tail(todo))
        /\ fault' = [fault EXCEPT !.read = FALSE]
     \/ Finish(AfterRead({}) \o Tail(todo)) /\ fault' = [fault EXCEPT !.read = TRUE, !.missed = TRUE]
  /\ UNCHANGED <<files, asked, count>>

ScriptDone ==
  /\ todo # <<>> /\ Head(todo).do # "read"
  /\ Run(Head(todo))
  /\ Finish(Tail(todo))
  /\ UNCHANGED <<asked, fault, count>>

(* The error ends the request.                                             *)
ScriptFailed ==
  /\ todo # <<>> /\ Head(todo).do # "read"
  /\ Run(Head(todo)) \/ UNCHANGED files
  /\ todo' = <<>> /\ answer' = "error" /\ fault' = [fault EXCEPT !.script = TRUE]
  /\ UNCHANGED <<asked, count>>

Next == \/ \E key \in BOOLEAN, over \in {"absent", "set", "delete"}, list \in BOOLEAN, K \in SUBSET Route :
             Configure(key, over, list, K)
        \/ Clear \/ ClearKey \/ ReadDone \/ ScriptDone \/ ScriptFailed

Spec == Init /\ [][Next]_vars

-----------------------------------------------------------------------------
TypeOK ==
  /\ override \in BOOLEAN
  /\ listed \in [Route -> 0 .. MaxRequest] /\ keys \in [Ref -> 0 .. MaxRequest]
  /\ answer \in {"none", "ok", "error"} /\ (todo # <<>> => answer = "none")

Listed == {r \in Route : listed[r] # 0}

(* When a list of providers is answered as saved, it is the final state,   *)
(* with the keys that came with it, whatever requests that failed half way *)
(* had left; only a list that could not be read before is not replaced     *)
(* (tenant-config.service.js:484).                                         *)
ListFinal ==
  answer = "ok" /\ asked.kind = "list" /\ ~fault.read =>
    /\ Listed = {r \in Route : asked.list[r]}
    /\ \A r \in asked.keyed : keys[RefOf[r]] = count

(* Keys of providers that are gone are only left by a script or a reading  *)
(* that failed: no sequence of lists, clearings and keys leaves one        *)
(* (tenant-config.service.js:530).                                         *)
NoOrphans ==
  todo = <<>> /\ ~fault.script /\ ~fault.missed =>
    \A r \in Route : keys[RefOf[r]] # 0 => r \in Listed

(* Clearing all leaves no key, no endpoint and no custom provider          *)
(* (tenant-config.service.js:651).                                         *)
ClearedAll ==
  answer = "ok" /\ asked.kind = "clear" /\ ~fault.read =>
    keys = [k \in Ref |-> 0] /\ ~override /\ Listed = {}
=============================================================================
