-------------------------- MODULE MCAdmissionEvent --------------------------
(* Issuers 1 and 2 with keys 1 and 2, and key 3, which issuer 1 no longer  *)
(* trusts.  Key 1 lives over the instants 2..4, key 2 over 3..5.  Records  *)
(* 10 and 20 have editions 11, 12 and 21; events are 31..33.  The holder   *)
(* of any key seals an admission or a supersession in either issuer's      *)
(* name, for any version of the profile, and shows it to any verifier.     *)
EXTENDS AdmissionEvent

NoSupersession ==
  [form |-> "absent", required |-> TRUE, predecessor |-> 0, successor |-> 0, successor_record |-> 0,
   successor_edition |-> 0, owner_binding |-> 0, predecessor_digest |-> 0, successor_digest |-> 0,
   predecessor_source |-> 0, successor_source |-> 0]

MCSupersession(d, e, p, q) ==
  [NoSupersession EXCEPT !.form = "object", !.predecessor = 31, !.successor = 32, !.successor_record = 10,
     !.successor_edition = 12, !.owner_binding = 33, !.predecessor_digest = d, !.successor_digest = e,
     !.predecessor_source = p, !.successor_source = q]

MCReceipt(profile, by, key_id, issuer, issued, act, s) ==
  [profile_version |-> profile, defects |-> {}, standing_act |-> act, subject_ref |-> 11,
   subject_edition_ref |-> 11, subject_record_ref |-> 10, basis |-> {31, 32, 33}, supersession |-> s,
   authority |-> "none", prohibited_value |-> FALSE,
   raw_members |-> {[suffix |-> "ref", value |-> "reference"], [suffix |-> "digest", value |-> "digest"]},
   limits |-> IF act = "SUPERSEDED" THEN {1, 2} ELSE {1}, limits_well_formed |-> TRUE,
   issuer_id |-> issuer, issued_at |-> issued, canonical |-> TRUE,
   signature |-> [well_formed |-> TRUE, key_id |-> key_id, encoding |-> "ok", by |-> by, sealed |-> TRUE]]

Lifetime == [key \in 1 .. 3 |-> CASE key = 1 -> 2 .. 4 [] key = 2 -> 3 .. 5 [] key = 3 -> {}]

MCEntry(key, issuer, trusted, algorithm) ==
  [object |-> TRUE, key_id |-> key, public_key |-> key, trusted |-> trusted, issuer_id |-> issuer,
   algorithm |-> algorithm, not_before |-> IF key = 2 THEN 3 ELSE 2, not_after |-> IF key = 2 THEN 5 ELSE 4]

MCKeyring == <<MCEntry(3, 1, FALSE, "Ed25519"), MCEntry(1, 1, TRUE, "Ed25519"), MCEntry(2, 2, TRUE, "none")>>

MCInput(version, profile, by, key_id, issuer, issued, act, s) ==
  [version |-> version, receipt_file |-> "object", keyring_file |-> "object", envelope_schema |-> "pinned",
   profile_schema |-> "pinned", issuers |-> "list", keyring |-> MCKeyring,
   owner |-> <<1, 2, 1>>, lifetime |-> Lifetime,
   receipt |-> MCReceipt(profile, by, key_id, issuer, issued, act, s)]

\* Digests of the captured bytes: none, alike, different, half known.
Supersessions(profile) ==
  CASE profile = 1 -> {NoSupersession}
    [] profile = 2 -> {MCSupersession(0, 0, 0, 0)}
    [] profile = 3 -> {MCSupersession(0, 0, 0, 0), MCSupersession(51, 51, 1, 2), MCSupersession(51, 52, 1, 1),
                       MCSupersession(51, 51, 1, 0)}

MCInputs ==
  UNION {{MCInput(version, profile, by, key_id, issuer, issued, "SUPERSEDED", s) : s \in Supersessions(profile)}
           \cup {MCInput(version, profile, by, key_id, issuer, issued, "ADMITTED", NoSupersession)} :
         version \in 1 .. 3, profile \in 1 .. 3, by \in 1 .. 3, key_id \in 1 .. 3, issuer \in {1, 2},
         issued \in {2, 4, 5}}

----------------------------------------------------------------------------
AlteredSupersession(s) ==
  {[s EXCEPT !.form = f] : f \in {"absent", "other"}} \cup {[s EXCEPT !.required = FALSE]}
  \cup {[s EXCEPT !.predecessor = 32], [s EXCEPT !.successor = 31], [s EXCEPT !.successor_record = 20],
        [s EXCEPT !.successor_edition = 11], [s EXCEPT !.owner_binding = 34]}
  \cup {[s EXCEPT !.predecessor_digest = x] : x \in {-1, 0, 51, 52}}
  \cup {[s EXCEPT !.successor_digest = x] : x \in {-1, 0, 51, 52}}
  \cup {[s EXCEPT !.predecessor_source = x] : x \in {-1, 0, 1}}
  \cup {[s EXCEPT !.successor_source = x] : x \in {-1, 0, 1}}

Members ==
  [suffix : {"plain", "digest", "ref", "refs", "id", "ids"},
   value : {"text", "digest", "reference", "identifier", "references", "identifiers", "empty_list"}]

\* The body of the receipt; whoever alters it may seal it again or not.
AlteredBody(r) ==
  {[r EXCEPT !.defects = {d}] : d \in CommonDefects \cup {"envelope"}}
  \cup {[r EXCEPT !.profile_version = v] : v \in 0 .. 3}
  \cup {[r EXCEPT !.standing_act = a] : a \in StandingActs \cup {"other"}}
  \cup {[r EXCEPT !.supersession = s] : s \in AlteredSupersession(r.supersession)}
  \cup {[r EXCEPT !.subject_ref = 12], [r EXCEPT !.subject_ref = 12, !.subject_edition_ref = 12],
        [r EXCEPT !.subject_record_ref = 20], [r EXCEPT !.basis = {31, 32}], [r EXCEPT !.prohibited_value = TRUE],
        [r EXCEPT !.limits = {1}], [r EXCEPT !.limits = {2}], [r EXCEPT !.limits_well_formed = FALSE],
        [r EXCEPT !.canonical = FALSE]}
  \cup {[r EXCEPT !.authority = a] : a \in {"aggregate", "root", "nested"}}
  \cup {[r EXCEPT !.raw_members = {m}] : m \in Members}
  \cup {[r EXCEPT !.issuer_id = i] : i \in 0 .. 2} \cup {[r EXCEPT !.issued_at = t] : t \in -1 .. 6}

AlteredSignature(g) ==
  {[g EXCEPT !.well_formed = FALSE], [g EXCEPT !.sealed = FALSE]}
  \cup {[g EXCEPT !.encoding = x] : x \in {"undecodable", "short"}} \cup {[g EXCEPT !.key_id = x] : x \in 0 .. 3}

AlteredKeyring(ring) ==
  {<<>>, <<ring[2], ring[1], ring[3]>>, [ring EXCEPT ![1].key_id = 1], [ring EXCEPT ![2].object = FALSE],
   [ring EXCEPT ![2].trusted = FALSE], [ring EXCEPT ![2].algorithm = "other"]}
  \cup {[ring EXCEPT ![2].public_key = x] : x \in {-1, 0, 2}}
  \cup {[ring EXCEPT ![2].issuer_id = x] : x \in 0 .. 2}
  \cup {[ring EXCEPT ![2].not_before = x] : x \in -1 .. 5} \cup {[ring EXCEPT ![2].not_after = x] : x \in -1 .. 5}

MCAltered(x) ==
  {[x EXCEPT !.receipt_file = "unusable"], [x EXCEPT !.keyring_file = "unusable"]}
  \cup {[x EXCEPT !.issuers = i] : i \in {"text", "scalar"}}
  \cup {[x EXCEPT !.envelope_schema = s] : s \in {"drifted", "unreadable", "missing"}}
  \cup {[x EXCEPT !.profile_schema = s] : s \in {"drifted", "missing"}}
  \cup {[x EXCEPT !.receipt = [r EXCEPT !.signature.sealed = FALSE]] : r \in AlteredBody(x.receipt)}
  \cup {[x EXCEPT !.receipt = r] : r \in AlteredBody(x.receipt)}
  \cup {[x EXCEPT !.receipt.signature = g] : g \in AlteredSignature(x.receipt.signature)}
  \cup {[x EXCEPT !.keyring = ring] : ring \in AlteredKeyring(x.keyring)}
=============================================================================
