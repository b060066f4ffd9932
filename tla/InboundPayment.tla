--------------------------- MODULE InboundPayment ---------------------------
(***************************************************************************)
(* Stateless inbound-payment authentication (lightning/src/ln/            *)
(* inbound_payment.rs).  create and create_from_hash pack a metadata      *)
(* block (payment method in the top 3 bits of the amount word, minimum    *)
(* amount, expiry) into a 32-byte payment secret: a 16-byte iv followed   *)
(* by the metadata XOR a ChaCha20 block keyed by (metadata_key, iv).      *)
(* verify decrypts, authenticates by HMAC, then checks amount and expiry. *)
(*                                                                         *)
(* Cryptography is symbolic: an HMAC or SHA-256 output is the term that   *)
(* names its inputs, so two outputs are equal only when their inputs are  *)
(* (no collisions, no forgery).  The stream cipher is modelled by what an *)
(* attacker can do with it: the ciphertext of a secret is represented by  *)
(* the plaintext it decrypts to under that secret's iv, and flipping a    *)
(* ciphertext bit flips the same plaintext bit.                           *)
(*                                                                         *)
(* The environment is the node (creating payments, seeing blocks) and an  *)
(* attacker who presents any known payment hash with any known secret,    *)
(* tampered or not, and any total amount.                                 *)
(***************************************************************************)
EXTENDS Naturals, FiniteSets, Bitwise, TLC

CONSTANTS
    AmtBits,        \* bits of the amount word below the method bits (61)
    MaxValueMsat,   \* MAX_VALUE_MSAT
    Slack,          \* the two-hour buffer added to every expiry (7200)
    RandomIvs,      \* get_secure_random_bytes outputs (model values)
    UserHashes,     \* payment hashes a user passes to create_from_hash
    MinValues,      \* min_value_msat arguments tried, None included
    ExpiryDeltas,   \* invoice_expiry_delta_secs arguments tried
    Totals,         \* total_msat values presented to verify
    WordFlips,      \* XOR masks an attacker applies to the amount word
    ExpiryFlips,    \* XOR masks an attacker applies to the expiry word
    MaxTime,        \* bound on highest_seen_timestamp
    MaxIssued,      \* bound on the number of payments created
    None

LdkPaymentHash == 0
UserPaymentHash == 1
MethodShift == 2^AmtBits               \* << METHOD_TYPE_OFFSET in the top byte
AmtMask == MethodShift - 1             \* amt_msat_bytes[0] &= 0b00011111
MethodMask == 7 * MethodShift          \* metadata_bytes[0] & 0b1110_0000

ASSUME /\ MaxValueMsat < MethodShift
       /\ None \notin Nat

VARIABLES
    hst,           \* highest_seen_timestamp as the node passes it in
    issued,        \* payments created: [method, hash, secret, min, expiry] as requested
    usedIvs,       \* random ivs already drawn
    last           \* the latest create / verify / get_payment_preimage call
                   \* and what it returned

vars == <<hst, issued, usedIvs, last>>

-----------------------------------------------------------------------------
(* Symbolic hashing *)
Sha256(x) == <<"sha256", x>>
HmacLdk(iv, meta) == <<"hmac", "ldk_pmt_hash_key", iv, meta>>
HmacUser(meta, h) == <<"hmac", "user_pmt_hash_key", meta, h>>
Truncate16(x) == <<"first16", x>>

\* construct_metadata_bytes
ConstructMetadata(minValue, method, delta, now) ==
    LET amt == IF minValue = None THEN 0 ELSE minValue
    IN  [word0  |-> amt | (method * MethodShift),
         expiry |-> now + delta + Slack]

\* The floor the caller asked for (None is no floor).
FloorOf(minValue) == IF minValue = None THEN 0 ELSE minValue

\* Mutant: the MAX_VALUE_MSAT check is dropped.
MutMetadataOk(minValue) == minValue = None \/ minValue \in Nat

MetadataOk(minValue) == minValue = None \/ minValue <= MaxValueMsat

\* construct_payment_secret: iv || (metadata XOR chacha(metadata_key, iv))
ConstructPaymentSecret(iv, meta) == [iv |-> iv, enc |-> meta]

\* decrypt_metadata
DecryptMetadata(secret) == secret.enc

MethodBits(meta) == (meta.word0 & MethodMask) \div MethodShift
\* Mutant: the mask keeps the lowest method bit in the amount.
MutMinAmt(meta) == meta.word0 & (2 * MethodShift - 1)
MinAmt(meta) == meta.word0 & AmtMask

\* Mutant: the derived preimage is not compared against payment_hash.
MutDeriveLdkPreimage(h, iv, meta) == HmacLdk(iv, meta)

\* derive_ldk_payment_preimage: the preimage, or None when its hash does not
\* match payment_hash.
DeriveLdkPreimage(h, iv, meta) ==
    IF Sha256(HmacLdk(iv, meta)) = h THEN HmacLdk(iv, meta) ELSE None

\* Mutant: user-hash payments skip the iv comparison.
MutAuthentic(h, secret) ==
    LET meta == DecryptMetadata(secret)
        m    == MethodBits(meta)
    IN  \/ m = UserPaymentHash
        \/ m = LdkPaymentHash  /\ DeriveLdkPreimage(h, secret.iv, meta) # None

\* The method-specific HMAC check of verify.
Authentic(h, secret) ==
    LET meta == DecryptMetadata(secret)
        m    == MethodBits(meta)
    IN  \/ m = UserPaymentHash /\ secret.iv = Truncate16(HmacUser(meta, h))
        \/ m = LdkPaymentHash  /\ DeriveLdkPreimage(h, secret.iv, meta) # None

\* Mutant: the amount floor is checked before the HMAC.
MutVerifyResult(h, secret, total, now) ==
    LET meta == DecryptMetadata(secret)
    IN  IF total < MinAmt(meta) THEN [ok |-> FALSE, reason |-> "amount", preimage |-> None]
        ELSE IF ~Authentic(h, secret) THEN [ok |-> FALSE, reason |-> "auth", preimage |-> None]
        ELSE IF meta.expiry < now THEN [ok |-> FALSE, reason |-> "expired", preimage |-> None]
        ELSE [ok |-> TRUE, reason |-> "none",
              preimage |-> IF MethodBits(meta) = LdkPaymentHash
                           THEN HmacLdk(secret.iv, meta) ELSE None]

\* verify: authentication first, then amount floor, then expiry.
VerifyResult(h, secret, total, now) ==
    LET meta == DecryptMetadata(secret)
    IN  IF ~Authentic(h, secret) THEN [ok |-> FALSE, reason |-> "auth", preimage |-> None]
        ELSE IF total < MinAmt(meta) THEN [ok |-> FALSE, reason |-> "amount", preimage |-> None]
        ELSE IF meta.expiry < now THEN [ok |-> FALSE, reason |-> "expired", preimage |-> None]
        ELSE [ok |-> TRUE, reason |-> "none",
              preimage |-> IF MethodBits(meta) = LdkPaymentHash
                           THEN HmacLdk(secret.iv, meta) ELSE None]

\* get_payment_preimage: only LdkPaymentHash payments have a preimage; every
\* other outcome is an APIMisuseError.
GetPreimageResult(h, secret) ==
    LET meta == DecryptMetadata(secret)
        pre  == DeriveLdkPreimage(h, secret.iv, meta)
    IN  IF MethodBits(meta) = LdkPaymentHash /\ pre # None
        THEN [ok |-> TRUE, preimage |-> pre]
        ELSE [ok |-> FALSE, preimage |-> None]

-----------------------------------------------------------------------------
(* What the attacker can present *)
KnownSecrets == {p.secret : p \in issued}
Tampered(s, d, e) ==
    [iv |-> s.iv, enc |-> [word0 |-> s.enc.word0 ^^ d, expiry |-> s.enc.expiry ^^ e]]
PresentableSecrets ==
    {Tampered(s, d, e) : s \in KnownSecrets, d \in WordFlips, e \in ExpiryFlips}
PresentableHashes == {p.hash : p \in issued} \cup UserHashes

-----------------------------------------------------------------------------
Init ==
    /\ hst = 0
    /\ issued = {}
    /\ usedIvs = {}
    /\ last = [op |-> "none"]

\* create: random iv, preimage = HMAC(ldk key, iv || metadata), hash = its SHA256.
Create(minValue, delta) ==
    /\ Cardinality(issued) < MaxIssued
    /\ IF ~MetadataOk(minValue)
       THEN /\ last' = [op |-> "create", ok |-> FALSE]
            /\ UNCHANGED <<issued, usedIvs>>
       ELSE \E iv \in RandomIvs \ usedIvs :
              LET meta == ConstructMetadata(minValue, LdkPaymentHash, delta, hst)
              IN  /\ issued' = issued \cup
                        {[method |-> LdkPaymentHash,
                          hash   |-> Sha256(HmacLdk(iv, meta)),
                          secret |-> ConstructPaymentSecret(iv, meta),
                          min    |-> FloorOf(minValue),
                          expiry |-> meta.expiry]}
                  /\ usedIvs' = usedIvs \cup {iv}
                  /\ last' = [op |-> "create", ok |-> TRUE]
    /\ UNCHANGED hst

\* create_from_hash: iv = first 16 bytes of HMAC(user key, metadata || hash).
CreateFromHash(minValue, h, delta) ==
    /\ Cardinality(issued) < MaxIssued
    /\ IF ~MetadataOk(minValue)
       THEN /\ last' = [op |-> "create", ok |-> FALSE]
            /\ UNCHANGED issued
       ELSE LET meta == ConstructMetadata(minValue, UserPaymentHash, delta, hst)
                iv   == Truncate16(HmacUser(meta, h))
            IN  /\ issued' = issued \cup
                        {[method |-> UserPaymentHash,
                          hash   |-> h,
                          secret |-> ConstructPaymentSecret(iv, meta),
                          min    |-> FloorOf(minValue),
                          expiry |-> meta.expiry]}
                /\ last' = [op |-> "create", ok |-> TRUE]
    /\ UNCHANGED <<hst, usedIvs>>

\* A block with a later header time raises highest_seen_timestamp.
NewBlock ==
    /\ hst < MaxTime
    /\ hst' = hst + 1
    /\ UNCHANGED <<issued, usedIvs, last>>

\* An HTLC arrives carrying payment_hash and payment_data.
Verify(h, s, total) ==
    /\ last' = [op |-> "verify", hash |-> h, secret |-> s, total |-> total, hst |-> hst]
               @@ VerifyResult(h, s, total, hst)
    /\ UNCHANGED <<hst, issued, usedIvs>>

\* The user asks for the preimage of a payment it was paid.
GetPaymentPreimage(h, s) ==
    /\ last' = [op |-> "preimage", hash |-> h, secret |-> s] @@ GetPreimageResult(h, s)
    /\ UNCHANGED <<hst, issued, usedIvs>>

Next ==
    \/ \E m \in MinValues, d \in ExpiryDeltas : Create(m, d)
    \/ \E m \in MinValues, h \in PresentableHashes, d \in ExpiryDeltas :
            CreateFromHash(m, h, d)
    \/ NewBlock
    \/ \E h \in PresentableHashes, s \in PresentableSecrets, t \in Totals :
            Verify(h, s, t)
    \/ \E h \in PresentableHashes, s \in PresentableSecrets :
            GetPaymentPreimage(h, s)

Spec == Init /\ [][Next]_vars

-----------------------------------------------------------------------------
(* Properties                                                              *)

Metas == [word0 : 0..(8 * MethodShift - 1), expiry : Nat]
Secrets == [iv : RandomIvs \cup {Truncate16(HmacUser(m, h)) : m \in Metas, h \in UserHashes}, enc : Metas]

TypeOK ==
    /\ hst \in 0..MaxTime
    /\ usedIvs \subseteq RandomIvs
    /\ last.op \in {"none", "create", "verify", "preimage"}
    /\ \A p \in issued :
          /\ p.method \in {LdkPaymentHash, UserPaymentHash}
          /\ p.min \in 0..MaxValueMsat
          /\ p.expiry \in Nat
    /\ last.op = "verify" => last.reason \in {"auth", "amount", "expired", "none"}

IssuedWith(h, s) == {p \in issued : p.hash = h /\ p.secret = s}

\* verify accepts only a (payment_hash, payment_secret) pair the node issued,
\* paid at least the embedded floor before the embedded expiry, and the
\* preimage it returns hashes to payment_hash (LDK hashes) or is None (user
\* hashes) -- whatever tampering the attacker applied to the secret.
VerifySound ==
    (last.op = "verify" /\ last.ok) =>
        \E p \in IssuedWith(last.hash, last.secret) :
            /\ last.total >= p.min
            /\ p.expiry >= last.hst
            /\ IF p.method = LdkPaymentHash
               THEN Sha256(last.preimage) = last.hash
               ELSE last.preimage = None

\* verify accepts every issued pair paid at least its floor before expiry,
\* for both payment methods (the method bits and the amount share a word).
VerifyComplete ==
    (last.op = "verify" /\ ~last.ok) =>
        \A p \in IssuedWith(last.hash, last.secret) :
            last.total < p.min \/ p.expiry < last.hst

\* The HMAC is checked before the amount and the expiry: an amount or expiry
\* rejection is only ever reached by a pair that authenticates, so a forged
\* secret cannot probe which of those checks it would fail.
AuthBeforeLimits ==
    (last.op = "verify" /\ last.reason \in {"amount", "expired"}) =>
        IssuedWith(last.hash, last.secret) # {}

\* get_payment_preimage returns a preimage only for an LDK-generated payment
\* the node issued, and the preimage hashes to the payment hash; a user-hash
\* payment always gets the misuse error.
PreimageSound ==
    last.op = "preimage" =>
        /\ last.ok =>
              \E p \in IssuedWith(last.hash, last.secret) :
                  /\ p.method = LdkPaymentHash
                  /\ Sha256(last.preimage) = last.hash
        /\ (\E p \in IssuedWith(last.hash, last.secret) :
                p.method = LdkPaymentHash) => last.ok

=============================================================================
