-------------------------- MODULE MCVerifyReceipt --------------------------
(* A small instance of VerifyReceipt: three profiles, three schemas, two   *)
(* signing keys, and every invocation at most two deviations away from a   *)
(* good one, the receipt re-signed after the deviations or not.            *)
EXTENDS VerifyReceipt, TLC

CONSTANTS MCP, ACPS, PUB, V020, OtherSchema, K1, K2, I1, I2, D1, D2

MCRegistry == {MCP, ACPS, PUB}
MCAccepted == {V020, V021}

Entry(id, key, issuer) ==
  [key_id |-> id, public_key |-> key, encoding |-> "ok", trusted |-> TRUE,
   issuer_id |-> issuer, not_before |-> 1, not_after |-> 2]

GoodContent(profile) ==
  [profile |-> profile, version_current |-> TRUE, conforms |-> TRUE,
   mistyped |-> FALSE, raw_clean |-> TRUE, limits_present |-> TRUE,
   validates_under |-> MCAccepted, canonicalizable |-> TRUE,
   issuer_id |-> I1, issued_at |-> 1,
   caller_resolution_failed |-> FALSE, principal_binding |-> None]

\* The receipt signed by its issuer over what it now says.
Resigned(in) ==
  [in EXCEPT !.sig.over = Preimage(in.content, in.sig.key_id)]

Good(profile, schema) ==
  Resigned([unusable |-> {}, content |-> GoodContent(profile),
            sig |-> [form |-> "object", key_id |-> "k1", encoding |-> "ok",
                     made_by |-> K1, over |-> None],
            keyring |-> <<Entry("k1", K1, I1)>>,
            schema |-> schema, schema_evaluates |-> TRUE,
            selected |-> profile, companion |-> None])

\* caller_resolution_failed, with the binding the companion is checked against.
GoodCallerResolutionFailed ==
  Resigned([Good(ACPS, V020) EXCEPT
              !.content.caller_resolution_failed = TRUE,
              !.content.principal_binding =
                 [unresolved_digest |-> D1, unresolved_reason |-> "r1"]])

Bases ==
  {Good(MCP, V020), Good(ACPS, V020), GoodCallerResolutionFailed, Good(PUB, V021)}

In(part, fields) == [part |-> part, fields |-> fields]

Deviations ==
  { In("content", [profile |-> MCP]), In("content", [version_current |-> FALSE]),
    In("content", [conforms |-> FALSE]),
    In("content", [conforms |-> FALSE, mistyped |-> TRUE]),
    In("content", [raw_clean |-> FALSE]), In("content", [limits_present |-> FALSE]),
    In("content", [validates_under |-> {OtherSchema}]),
    In("content", [canonicalizable |-> FALSE]), In("content", [issuer_id |-> I2]),
    In("content", [issued_at |-> None]), In("content", [issued_at |-> 0]),
    In("content", [issued_at |-> 2]), In("content", [issued_at |-> 3]),
    In("content", [principal_binding |-> None]),
    In("sig", [form |-> "string"]), In("sig", [form |-> "invalid_object"]),
    In("sig", [key_id |-> "k2"]), In("sig", [encoding |-> "malformed"]),
    In("sig", [encoding |-> "wrong_length"]), In("sig", [made_by |-> K2]),
    In("invocation", [unusable |-> {"keyring"}]),
    In("invocation", [schema |-> V020, schema_evaluates |-> TRUE]),
    In("invocation", [schema |-> OtherSchema, schema_evaluates |-> TRUE]),
    In("invocation", [schema |-> OtherSchema, schema_evaluates |-> FALSE]),
    In("invocation", [selected |-> MCP]), In("invocation", [selected |-> "unregistered"]),
    In("invocation", [companion |-> [digest |-> D1, reason |-> "r1"]]),
    In("invocation", [companion |-> [digest |-> D2, reason |-> "r1"]]),
    In("invocation", [companion |-> [digest |-> D1, reason |-> "r2"]]),
    In("invocation", [companion |-> [digest |-> None, reason |-> "r1"]]) }
  \cup
  { In("invocation", [keyring |-> k]) :
      k \in { None, <<>>,
              <<Entry("k1", K2, I1), Entry("k1", K1, I1)>>,
              <<Entry("k2", K2, I2), Entry("k1", K1, I1)>>,
              <<Entry("k1", K1, I1), Entry("k1", K1, I2)>>,
              <<[Entry("k1", K1, I1) EXCEPT !.trusted = FALSE]>>,
              <<[Entry("k1", K1, I1) EXCEPT !.encoding = "wrong_length"]>>,
              <<[Entry("k1", K1, I1) EXCEPT !.encoding = "malformed"]>>,
              <<[Entry("k1", K1, I1) EXCEPT !.not_after = None]>>,
              <<[Entry("k1", K1, I1) EXCEPT !.not_before = 2]>> } }

Deviate(in, d) ==
  IF d.part = "invocation" THEN d.fields @@ in
  ELSE [in EXCEPT ![d.part] = d.fields @@ in[d.part]]

MCInputs ==
  { LET deviated == Deviate(Deviate(in, d), e)
    IN IF resign THEN Resigned(deviated) ELSE deviated :
      in \in Bases, d \in Deviations, e \in Deviations, resign \in BOOLEAN }
=============================================================================
