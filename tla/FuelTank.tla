-------------------------------- MODULE FuelTank --------------------------------
(***************************************************************************)
(* sign_dispatch and what it is made of (src/src/transaction/fuel_tank.rs: *)
(* 11-263), and RawPayload::from_bytes (src/src/transaction.rs:232-250),   *)
(* as functions of an encoded call and of the runtime's metadata.          *)
(*                                                                         *)
(* A call is a sequence of tokens.  A token is one byte, or a value of a   *)
(* fixed width that is never looked into: an account, a u32, a compact     *)
(* length, the 64 bytes of a signature.  The metadata differ in what the   *)
(* code has fixtures and tests for: the legacy layout, the current one,    *)
(* one with a further settings field, and one with a signature field that  *)
(* cannot be filled.  A layout without any signature field, which the code *)
(* refuses with an error of its own (72-75), is not among them.            *)
(***************************************************************************)
EXTENDS Naturals, Sequences

CONSTANT MAX_NESTING    \* 128 in the code

\* Enough for the settings: an option of a struct with an option of a struct.
ASSUME NestingAssumption == MAX_NESTING \in Nat /\ MAX_NESTING >= 4

Legacy   == 1       \* rule_set_id: u32; no create_account
Current  == 2       \* rule_set_id: Option<u32>; create_account
Extended == 3       \* a settings field without a zero default
Retyped  == 4       \* the settings' signature field is a bool

\* Tokens.  A signature is 4 when the Platform sent it, and 5 when made here.
PublicKey == 6
Expiry    == 7
Signature == 5
Tokens    == 0 .. 7

\* Where a walk is: before the at-th token, or at no position for an error.
Positions(tx) == 1 .. Len(tx) + 1
Refused == 0

-----------------------------------------------------------------------------
(* The metadata (external).                                                *)

Args == <<"tank_id", "rule_set_id", "call", "settings">>

\* extrinsic_call_info_by_index, of calls in use here.
CallName(spec, tx) ==
    IF Len(tx) < 2 THEN "none"
    ELSE CASE tx[1] = 0 /\ tx[2] = 0 -> "remark"
           [] tx[1] = 1 /\ tx[2] = 0 -> "batch"
           [] tx[1] = 2 /\ tx[2] = 0 -> "dispatch"
           [] tx[1] = 2 /\ tx[2] = 1 /\ spec = Legacy -> "dispatch_and_touch"
           [] OTHER -> "none"

SettingsFields(spec) ==
    CASE spec = Legacy   -> <<"use_none_origin", "signature">>
      [] spec = Extended -> <<"use_none_origin", "signature", "create_account", "added">>
      [] OTHER           -> <<"use_none_origin", "signature", "create_account">>

Token(n)        == [kind |-> "token", below |-> n]
Composite(ids)  == [kind |-> "composite", fields |-> ids]
Variant(cases)  == [kind |-> "variant", cases |-> cases]
Sequence(id)    == [kind |-> "sequence", item |-> id]
OptionOf(id)    == Variant(<< <<>>, <<id>> >>)

\* The type registry, by the name of a field or of a type.
TypeOf(spec, id) ==
    CASE id \in {"tank_id", "u32", "added", "byte", "bytes64"} -> Token(8)
      [] id \in {"bool", "use_none_origin", "create_account"}  -> Token(2)
      [] id = "rule_set_id" -> IF spec = Legacy THEN Token(8) ELSE OptionOf("u32")
      [] id = "call"        -> Variant(<< <<"system">>, <<"utility">> >>)
      [] id = "system"      -> Variant(<< <<"bytes">> >>)
      [] id = "utility"     -> Variant(<< <<"calls">> >>)
      [] id = "bytes"       -> Sequence("byte")
      [] id = "calls"       -> Sequence("call")
      [] id = "settings"    -> OptionOf("dispatch_settings")
      [] id = "dispatch_settings" -> Composite(SettingsFields(spec))
      [] id = "signature"   -> IF spec = Retyped THEN Token(2) ELSE OptionOf("expirable")
      [] id = "expirable"   -> Composite(<<"bytes64", "u32">>)

TypeIds ==
    {"tank_id", "rule_set_id", "u32", "call", "system", "utility", "bytes", "byte",
     "calls", "settings", "dispatch_settings", "use_none_origin", "bool", "signature",
     "expirable", "bytes64", "create_account", "added"}

-----------------------------------------------------------------------------
(* Measure: where a value ends.                                            *)

\* The positions before, between and after values of these types, each of which
\* ends where ends says.
Through(ends, ids, from) ==
    LET at[n \in 0 .. Len(ids)] ==
            IF n = 0 THEN from
            ELSE IF at[n - 1] = Refused THEN Refused ELSE ends[ids[n]][at[n - 1]]
    IN  at

\* One step of the visitor: where a value ends, given where the values in it do.
\* A sequence's length is believed only as far as there are items.
Visit(spec, tx, nested, id, at) ==
    LET type == TypeOf(spec, id)
        Items(ids, from) == Through(nested, ids, from)[Len(ids)]
    IN  IF type.kind = "composite" THEN Items(type.fields, at)
        ELSE IF at > Len(tx) THEN Refused
        ELSE IF type.kind = "token" THEN IF tx[at] < type.below THEN at + 1 ELSE Refused
        ELSE IF type.kind = "variant"
             THEN IF tx[at] < Len(type.cases) THEN Items(type.cases[tx[at] + 1], at + 1)
                  ELSE Refused
        ELSE Items([i \in 1 .. tx[at] |-> type.item], at + 1)

\* One level of nesting.
VisitItems(spec, tx, nested) ==
    [id \in TypeIds |-> [at \in Positions(tx) |-> Visit(spec, tx, nested, id, at)]]

\* Where a value ends that has so many levels left to nest in, by its type and
\* by where it starts.
Measure(spec, tx) ==
    LET ends[levels \in 0 .. MAX_NESTING + 1] ==
            IF levels = 0 THEN [id \in TypeIds |-> [at \in Positions(tx) |-> Refused]]
            ELSE VisitItems(spec, tx, ends[levels - 1])
    IN  ends

\* decode_with_visitor for each of these types in turn.
Decoded(spec, tx, ids, from) ==
    Through(Measure(spec, tx)[MAX_NESTING + 1], ids, from)

-----------------------------------------------------------------------------
(* Signing.                                                                *)

\* Some, followed by zeroes: 256 bytes in the code.
DEFAULT_SETTINGS == [i \in 1 .. 9 |-> IF i = 1 THEN 1 ELSE 0]

\* is_zero, for a field decoded from a zero byte.
HasZeroDefault(spec, field) ==
    \/ TypeOf(spec, field) = Token(2)
    \/ TypeOf(spec, field).kind = "variant"

\* An error: no fields, no bytes.
NoValues == <<>>

\* dispatch_settings: the encoded values of the settings' fields, the runtime's
\* defaults if there are no settings, or NoValues.
dispatch_settings(spec, tx, start) ==
    LET fields     == SettingsFields(spec)
        is_default == tx[start] = 0
        encoded    == IF is_default THEN DEFAULT_SETTINGS ELSE tx
        at         == Decoded(spec, encoded, fields, IF is_default THEN 2 ELSE start + 1)
    IN  IF \/ at[Len(fields)] = Refused
           \/ /\ is_default
              /\ \E i \in 1 .. Len(fields) :
                     fields[i] # "signature" /\ ~HasZeroDefault(spec, fields[i])
        THEN NoValues
        ELSE [i \in 1 .. Len(fields) |-> SubSeq(encoded, at[i - 1], at[i] - 1)]

\* One after the other.
Concatenated(values) ==
    LET first[n \in 0 .. Len(values)] ==
            IF n = 0 THEN <<>> ELSE first[n - 1] \o values[n]
    IN  first[Len(values)]

\* encode_settings, with the signature and its expiry block in place, or <<>> if
\* the field has no room for them.
encode_settings(spec, values, signature) ==
    LET signature_index == CHOOSE i \in 1 .. Len(SettingsFields(spec)) :
                               SettingsFields(spec)[i] = "signature"
    IN  IF TypeOf(spec, "signature") # OptionOf("expirable") THEN <<>>
        ELSE <<1>> \o Concatenated([values EXCEPT ![signature_index] =
                                        <<1, signature, Expiry>>])

RefusedCall == [message |-> <<>>, payload |-> <<>>]

\* The checks before anything is signed.
Refuses(spec, tx, at, values) ==
    \/ CallName(spec, tx) \notin {"dispatch", "dispatch_and_touch"}
    \/ at[4] # Len(tx) + 1
    \/ values = NoValues

\* Mutant: the settings are taken for the single byte of None.
sign_dispatch_popping(spec, tx) ==
    LET at      == Decoded(spec, tx, Args, 3)
        values  == dispatch_settings(spec, <<0>>, 1)
        message == SubSeq(tx, at[2], at[3] - 1) \o <<PublicKey, Expiry>>
    IN  IF \/ Refuses(spec, tx, at, values)
           \/ encode_settings(spec, values, 0) = <<>>
        THEN RefusedCall
        ELSE [message |-> message,
              payload |-> SubSeq(tx, 1, Len(tx) - 1) \o encode_settings(spec, values, Signature)]

\* Mutant: the settings are encoded only once there is a signature.
sign_dispatch_early(spec, tx) ==
    LET at      == Decoded(spec, tx, Args, 3)
        values  == dispatch_settings(spec, tx, at[3])
        message == SubSeq(tx, at[2], at[3] - 1) \o <<PublicKey, Expiry>>
        encoded == encode_settings(spec, values, Signature)
    IN  IF Refuses(spec, tx, at, values) THEN RefusedCall
        ELSE [message |-> message,
              payload |-> IF encoded = <<>> THEN <<>>
                          ELSE SubSeq(tx, 1, at[3] - 1) \o encoded]

\* The message that was signed and the payload with its signature.  RefusedCall
\* is an error before anything was signed.
sign_dispatch(spec, tx) ==
    LET at      == Decoded(spec, tx, Args, 3)
        values  == dispatch_settings(spec, tx, at[3])
        message == SubSeq(tx, at[2], at[3] - 1) \o <<PublicKey, Expiry>>
    IN  IF \/ Refuses(spec, tx, at, values)
           \/ encode_settings(spec, values, 0) = <<>>
        THEN RefusedCall
        ELSE [message |-> message,
              payload |-> SubSeq(tx, 1, at[3] - 1)
                              \o encode_settings(spec, values, Signature)]

\* RawPayload::from_bytes finds the call in the metadata.
IsCall(spec, tx) == Len(tx) >= 2 /\ CallName(spec, tx) # "none"
=================================================================================
