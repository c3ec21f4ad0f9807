--------------------------- MODULE MCExitOOrigin ---------------------------
(* Institutions 1 and 2, each an attester with one key of its own number.  *)
(* Key 1 lives over the instants 2..4, key 2 over 3..6.  The holder of     *)
(* either key seals a receipt in either name; it is verified at 3 or later *)
(* against either institution's binding.                                   *)
EXTENDS ExitOOrigin

At(i) == 10 * i

Lifetime == [a \in {1, 2} |-> IF a = 1 THEN 2 .. 4 ELSE 3 .. 6]

Scope(a) ==
  [present_attester |-> a, historical_actor |-> 7, semantic_issuer |-> 8, authority_profile |-> 20 + a,
   domain |-> InstitutionalAdmission]

Layer(d) == [object |-> TRUE, binding_digest |-> d]

\* Sealed by the holder of key `by' in the name of attester a, naming key_id.
MCReceipt(by, a, key_id, issued) ==
  [form |-> "object", profile |-> TRUE, conforms |-> TRUE, disposition_ref |-> 30, disposition_digest |-> 31,
   historical_act_time |-> At(1), present_attestation_time |-> At(issued), issued_at |-> At(issued),
   scope |-> Scope(a),
   historical_scope_authorization |->
     [object |-> TRUE, scope |-> Scope(a), binding_ref |-> 40,
      interval |-> [object |-> TRUE, not_before |-> At(2), not_after |-> 0]],
   signature |-> [object |-> TRUE, members |-> TRUE, key_id |-> key_id, encoded |-> TRUE, canonical |-> TRUE,
                  by |-> by, sealed |-> TRUE],
   key_authentication |-> Layer(51), act_principal |-> Layer(52),
   semantic_authority |-> [object |-> TRUE, binding_digest |-> 53,
                           scope |-> [semantic_issuer |-> 8, authority_profile |-> 20 + a,
                                      domain |-> InstitutionalAdmission]],
   semantic_act |-> [object |-> TRUE, binding_digest |-> 31, binding_ref |-> 30]]

MCEntry(a) ==
  [object |-> TRUE, key_id |-> a, revocation |-> "none", not_before |-> At(IF a = 1 THEN 2 ELSE 3),
   not_after |-> At(IF a = 1 THEN 5 ELSE 7), allows_profile |-> TRUE, public_key |-> a]

MCTrust == [form |-> "object", keys_is_list |-> TRUE, keys |-> <<MCEntry(1), MCEntry(2)>>]

MCBinding(a) ==
  [form |-> "object", fingerprint |-> a, key_id |-> a, domain |-> InstitutionalAdmission, purpose |-> TRUE,
   actor |-> a, authority_profile |-> 20 + a, genesis |-> 60 + a]

MCGenesis(a) == [form |-> "object", actor |-> a, authority_profile |-> 20 + a, genesis |-> 60 + a]

NoEvidence == [l \in {Layers[j] : j \in DOMAIN Layers} |-> 0]

OwnEvidence ==
  [l \in {Layers[j] : j \in DOMAIN Layers} |->
     CASE l = "key_authentication" -> 51 [] l = "act_principal" -> 52 [] l = "semantic_authority" -> 53
       [] l = "semantic_act" -> 31]

Omit(x) == [x EXCEPT !.form = "omitted"]

MCInput(caller, require, by, a, key_id, issued, now, b, genesis) ==
  [caller |-> caller, require_key_authentication |-> require, schema |-> "pinned", time |-> now, now |-> now,
   owner |-> [x \in {1, 2} |-> x], lifetime |-> Lifetime,
   consistent |-> /\ by = a /\ key_id = a /\ b = a /\ genesis \in {0, a}
                  /\ {issued, now} \subseteq Lifetime[a] /\ caller = "cli",
   receipt |-> MCReceipt(by, a, key_id, issued),
   trust |-> IF caller = "module" THEN Omit(MCTrust) ELSE MCTrust,
   binding |-> IF caller = "module" \/ b = 0 THEN Omit(MCBinding(1)) ELSE MCBinding(b),
   genesis |-> IF caller = "module" \/ genesis = 0 THEN Omit(MCGenesis(1)) ELSE MCGenesis(genesis),
   evidence |-> IF caller = "library" THEN OwnEvidence ELSE NoEvidence]

\* The CLI requires trust bundle and binding, and supplies no evidence bytes.
MCInputs ==
  {MCInput("cli", require, by, a, key_id, issued, now, b, g) :
     require \in BOOLEAN, by \in {1, 2}, a \in {1, 2}, key_id \in {1, 2}, issued \in {2, 3, 5}, now \in {3, 4, 5},
     b \in {1, 2}, g \in 0 .. 2}
  \cup {MCInput("library", FALSE, by, 1, by, 3, 3, b, 0) : by \in {1, 2}, b \in 0 .. 2}
  \cup {MCInput("module", FALSE, 1, 1, 1, 3, 3, 1, 0)}

----------------------------------------------------------------------------
Times == {-1, 0} \cup {At(i) : i \in {1, 3, 4}} \cup {At(3) + 1}
Digests == {-1, 0, 31, 51, 99}

AlteredScope(s) ==
  {[s EXCEPT !.present_attester = x] : x \in 0 .. 2} \cup {[s EXCEPT !.domain = x] : x \in 0 .. 2}
  \cup {[s EXCEPT !.authority_profile = x] : x \in {0, 21, 22}} \cup {[s EXCEPT !.semantic_issuer = 0]}

AlteredSignature(s) ==
  {[s EXCEPT !.object = FALSE], [s EXCEPT !.members = FALSE], [s EXCEPT !.encoded = FALSE],
   [s EXCEPT !.canonical = FALSE]} \cup {[s EXCEPT !.key_id = x] : x \in 0 .. 3}

\* The body of the receipt; whoever alters it may seal it again or not.
AlteredBody(r) ==
  {[r EXCEPT !.profile = FALSE], [r EXCEPT !.conforms = FALSE], [r EXCEPT !.disposition_ref = 0],
   [r EXCEPT !.historical_scope_authorization.object = FALSE],
   [r EXCEPT !.historical_scope_authorization.interval.object = FALSE],
   [r EXCEPT !.historical_scope_authorization.binding_ref = 7],
   [r EXCEPT !.semantic_act.object = FALSE], [r EXCEPT !.act_principal.object = FALSE]}
  \cup {[r EXCEPT !.disposition_digest = d] : d \in Digests}
  \cup {[r EXCEPT !.semantic_act.binding_digest = d] : d \in Digests}
  \cup {[r EXCEPT !.key_authentication.binding_digest = d] : d \in Digests}
  \cup {[r EXCEPT !.historical_act_time = t] : t \in Times}
  \cup {[r EXCEPT !.present_attestation_time = t] : t \in Times}
  \cup {[r EXCEPT !.present_attestation_time = t, !.issued_at = t] : t \in Times}
  \cup {[r EXCEPT !.historical_scope_authorization.interval.not_before = t] : t \in Times}
  \cup {[r EXCEPT !.historical_scope_authorization.interval.not_after = t] : t \in Times}
  \cup {[r EXCEPT !.scope = x] : x \in AlteredScope(r.scope)}
  \cup {[r EXCEPT !.scope = x, !.historical_scope_authorization.scope = x] : x \in AlteredScope(r.scope)}
  \cup {[r EXCEPT !.semantic_authority.scope.domain = x] : x \in 0 .. 1}

AlteredTrust(t) ==
  {[t EXCEPT !.form = f] : f \in {"unusable"}} \cup {[t EXCEPT !.keys_is_list = FALSE]}
  \cup {[t EXCEPT !.keys = <<t.keys[2], t.keys[1]>>], [t EXCEPT !.keys[2].key_id = 1],
        [t EXCEPT !.keys[1].object = FALSE], [t EXCEPT !.keys[1].allows_profile = FALSE],
        [t EXCEPT !.keys[1].public_key = 0]}
  \cup {[t EXCEPT !.keys[1].revocation = x] : x \in {"malformed", "revoked", "compromise"}}
  \cup {[t EXCEPT !.keys[1].not_before = x] : x \in Times} \cup {[t EXCEPT !.keys[1].not_after = x] : x \in Times}

AlteredBinding(b) ==
  {[b EXCEPT !.form = "unusable"], [b EXCEPT !.purpose = FALSE], [b EXCEPT !.genesis = 0]}
  \cup {[b EXCEPT !.fingerprint = x] : x \in 0 .. 2} \cup {[b EXCEPT !.key_id = x] : x \in 0 .. 2}
  \cup {[b EXCEPT !.actor = x] : x \in 0 .. 2} \cup {[b EXCEPT !.domain = x] : x \in 0 .. 2}
  \cup {[b EXCEPT !.authority_profile = x] : x \in {0, 21, 22}}

\* The library may be handed anything; the module's main only a receipt.
AlteredByCaller(x) ==
  CASE x.caller = "cli" ->
         {[x EXCEPT !.time = -1], [x EXCEPT !.receipt.form = "unusable"], [x EXCEPT !.genesis.form = "unusable"]}
    [] x.caller = "library" ->
         {[x EXCEPT !.receipt.form = "not_mapping"], [x EXCEPT !.trust.form = "not_mapping"],
          [x EXCEPT !.trust.form = "omitted"], [x EXCEPT !.binding.form = "not_mapping"],
          [x EXCEPT !.genesis.form = "not_mapping"], [x EXCEPT !.now = -1]}
         \cup {[x EXCEPT !.evidence[l] = d] : l \in DOMAIN x.evidence, d \in {-1, 0, 99}}
    [] x.caller = "module" ->
         {[x EXCEPT !.receipt.form = "unusable"], [x EXCEPT !.receipt.form = "not_mapping"]}

MCAltered(x) ==
  {[x EXCEPT !.schema = s] : s \in {"drifted", "unreadable"}}
  \cup AlteredByCaller(x)
  \cup {[x EXCEPT !.receipt = r] : r \in AlteredBody(x.receipt)}
  \cup {[x EXCEPT !.receipt = [r EXCEPT !.signature.sealed = FALSE]] : r \in AlteredBody(x.receipt)}
  \cup {[x EXCEPT !.receipt.signature = s] : s \in AlteredSignature(x.receipt.signature)}
  \cup (IF x.caller = "module" THEN {}
        ELSE {[x EXCEPT !.trust = t] : t \in AlteredTrust(x.trust)}
             \cup {[x EXCEPT !.binding = b] : b \in AlteredBinding(x.binding)})
=============================================================================
