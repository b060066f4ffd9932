------------------------------ MODULE Features ------------------------------
(***************************************************************************)
(* Feature flags (lightning/src/ln/features.rs).  A Features value is a   *)
(* byte vector, little-endian in memory (flags[1] holds bits 0..7) and    *)
(* big-endian on the wire behind a u16 length.  Even bits are required,   *)
(* odd bits optional.  The context (Init, Node, Channel) is a Rust type   *)
(* parameter; here the functions over flags are written once and the      *)
(* context-specific ones are named after their context.                   *)
(*                                                                         *)
(* The state is one InitFeatures value as the node builds it: it starts   *)
(* from any bounded byte vector (ours or a peer's) and is changed by the  *)
(* mutating operations.  The invariants check the query and conversion    *)
(* functions against a reference definition over the set of bits set.    *)
(***************************************************************************)
EXTENDS Naturals, Sequences, Bitwise
LOCAL INSTANCE SequencesExt

CONSTANTS
    Bytes,      \* byte values the initial vectors are built from
    MaxLen,     \* longest initial vector
    OrArgs      \* InitFeatures values or'ed into the state

Byte == 0..255

VARIABLE flags

vars == <<flags>>

-----------------------------------------------------------------------------
(* Vec helpers: resize(n, fill) as Vec::resize does (truncating or padding). *)
Resize(f, n, fill) == [i \in 1..n |-> IF i <= Len(f) THEN f[i] ELSE fill]
MaxOf(a, b) == IF a >= b THEN a ELSE b
MinOf(a, b) == IF a <= b THEN a ELSE b
BitSet(byte, b) == (byte \div 2^b) % 2 = 1

\* InitFeatures::supported: vec![2 | 1 << 5, 1 << (9-8)]
Supported == <<2 + 32, 2>>

\* NodeFeatures::supported (both cfg variants): vec![2 | 1 << 5, 1 << (9-8)]
NodeSupported == <<2 + 32, 2>>

\* ChannelFeatures::supported (both cfg variants): Vec::new()
ChannelSupported == <<>>

\* Mutant: byte 1's mask misses bit 10 (0b01010000).
MutRequiredUnknownMask(idx) ==
    CASE idx = 0 -> 68 [] idx = 1 -> 80 [] OTHER -> 85

\* requires_unknown_bits: even bits we do not understand, per byte index.
RequiredUnknownMask(idx) ==
    CASE idx = 0 -> 68         \* 0b01000100
      [] idx = 1 -> 84         \* 0b01010100
      [] OTHER   -> 85         \* 0b01010101
RequiresUnknownBits(f) ==
    \E i \in 1..Len(f) : (f[i] & RequiredUnknownMask(i - 1)) # 0

\* supports_unknown_bits: any bit we do not understand.
SupportedUnknownMask(idx) ==
    CASE idx = 0 -> 196        \* 0b11000100
      [] idx = 1 -> 252        \* 0b11111100
      [] OTHER   -> 255
SupportsUnknownBits(f) ==
    \E i \in 1..Len(f) : (f[i] & SupportedUnknownMask(i - 1)) # 0

SupportsDataLossProtect(f) == Len(f) > 0 /\ (f[1] & 3) # 0
SupportsUpfrontShutdownScript(f) == Len(f) > 0 /\ (f[1] & 48) # 0
SupportsVariableLengthOnion(f) == Len(f) > 1 /\ (f[2] & 3) # 0
InitialRoutingSync(f) == Len(f) > 0 /\ (f[1] & 8) # 0

\* Mutant: byte 0 keeps initial_routing_sync (0b00111011).
MutNodeKnownMask(idx) == IF idx = 0 THEN 59 ELSE 3

\* NodeFeatures::with_known_relevant_init_flags: keep bytes 0 and 1, masked
\* with 0b00110011 and 0b00000011; drop the rest.
NodeKnownMask(idx) == IF idx = 0 THEN 51 ELSE 3
NodeWithKnownRelevantInitFlags(f) ==
    [i \in 1..MinOf(2, Len(f)) |-> f[i] & NodeKnownMask(i - 1)]

\* ChannelFeatures::with_known_relevant_init_flags: no channel flags are known.
ChannelWithKnownRelevantInitFlags(f) == <<>>

\* u16 big-endian length prefix.
LengthPrefix(n) == <<n \div 256, n % 256>>

\* Mutant: the bytes are written without the swap to big-endian.
MutWrite(f) == LengthPrefix(Len(f)) \o f

\* Writeable: u16 length, then the bytes swapped back to big-endian.
Write(f) == LengthPrefix(Len(f)) \o Reverse(f)

\* Readable: read the length-prefixed Vec<u8>, then swap to little-endian.
Read(w) ==
    LET n == w[1] * 256 + w[2]
    IN  Reverse(SubSeq(w, 3, 2 + n))

\* Mutant: byte 1 masked to bits 8..14.
MutUpTo13Byte(f, i) == IF i = 1 THEN f[1] ELSE f[2] & 127

\* write_up_to_13: at most two bytes, byte 1 masked to bits 8..13.
UpTo13Byte(f, i) == IF i = 1 THEN f[1] ELSE f[2] & 63
WriteUpTo13(f) ==
    LET len == MinOf(2, Len(f))
    IN  LengthPrefix(len) \o Reverse([i \in 1..len |-> UpTo13Byte(f, i)])

\* Mutant: or without the resize; zip stops at self's length.
MutOrInit(f, o) == [i \in 1..Len(f) |-> IF i <= Len(o) THEN f[i] | o[i] ELSE f[i]]

\* InitFeatures::or: resize self to the longer length, or in o byte by byte.
OrInit(f, o) ==
    LET n == MaxOf(Len(f), Len(o))
        g == Resize(f, n, 0)
    IN  [i \in 1..n |-> IF i <= Len(o) THEN g[i] | o[i] ELSE g[i]]

-----------------------------------------------------------------------------
Init == flags \in BoundedSeq(Bytes, MaxLen)

\* Mutant: the bit is added instead of or'ed in.
MutSetInitialRoutingSync ==
    flags' = IF Len(flags) = 0 THEN <<8>>
             ELSE [flags EXCEPT ![1] = @ + 8]

\* set_initial_routing_sync
SetInitialRoutingSync ==
    flags' = IF Len(flags) = 0 THEN <<8>>
             ELSE [flags EXCEPT ![1] = @ | 8]

\* set_require_unknown_bits (test builds)
SetRequireUnknownBits ==
    LET g == Resize(flags, MaxOf(2, Len(flags)), 0)
    IN  flags' = [g EXCEPT ![2] = @ | 64]

\* clear_require_unknown_bits (test builds): clear bit 14, and drop byte 1
\* when that leaves a two-byte vector with an empty top byte.
ClearRequireUnknownBits ==
    LET g == Resize(flags, MaxOf(2, Len(flags)), 0)
        h == [g EXCEPT ![2] = @ & 191]
    IN  flags' = IF Len(h) = 2 /\ h[2] = 0 THEN Resize(h, 1, 0) ELSE h

\* unset_upfront_shutdown_script (test builds): flags[0] ^= 1 << 5, which
\* panics on an empty vector.
UnsetUpfrontShutdownScript ==
    /\ Len(flags) > 0
    /\ flags' = [flags EXCEPT ![1] = @ ^^ 32]

\* or another InitFeatures into this one.
OrWith(o) == flags' = OrInit(flags, o)

Next ==
    \/ SetInitialRoutingSync
    \/ SetRequireUnknownBits
    \/ ClearRequireUnknownBits
    \/ UnsetUpfrontShutdownScript
    \/ \E o \in OrArgs : OrWith(o)

Spec == Init /\ [][Next]_vars

-----------------------------------------------------------------------------
(* Reference definition: the set of feature bit numbers a vector sets.    *)
Bits(f) == {x \in 0..(8 * Len(f) - 1) : BitSet(f[x \div 8 + 1], x % 8)}

\* Bits this version understands (data_loss_protect 0/1, initial_routing_sync
\* 3, upfront_shutdown_script 4/5, var_onion_optin 8/9).
KnownBits == {0, 1, 3, 4, 5, 8, 9}
KnownRequiredBits == {x \in KnownBits : x % 2 = 0}
NodeRelevantBits == {0, 1, 4, 5, 8, 9}

TypeOK == flags \in Seq(Byte)

\* Writeable then Readable gives back the same flags: the byte swap on the
\* way out and the one on the way in undo each other, for every length.
RoundTrip == Read(Write(flags)) = flags

\* write_up_to_13 sends exactly the bits 0..13 the node has set, so an old
\* peer is never sent bit 14 or above.
UpTo13 == Bits(Read(WriteUpTo13(flags))) = {x \in Bits(flags) : x <= 13}

\* The NodeFeatures built from our InitFeatures carries exactly the bits
\* relevant to a node announcement, so it never advertises a bit that the
\* node context would itself call unknown.  The node and channel vectors
\* of the supported() constructors, written out separately in the code,
\* are the projections of InitFeatures::supported.
NodeProjection ==
    LET nf == NodeWithKnownRelevantInitFlags(flags)
    IN  /\ Bits(nf) = Bits(flags) \cap NodeRelevantBits
        /\ ~RequiresUnknownBits(nf)
        /\ ~SupportsUnknownBits(nf)
        /\ NodeSupported = NodeWithKnownRelevantInitFlags(Supported)
        /\ ChannelSupported = ChannelWithKnownRelevantInitFlags(Supported)

\* The per-byte masks of requires_unknown_bits and supports_unknown_bits
\* agree with the bit-level definition: an unknown even bit is required,
\* any unknown bit is supported.
UnknownBitsMatchReference ==
    /\ RequiresUnknownBits(flags) <=>
           \E x \in Bits(flags) : x % 2 = 0 /\ x \notin KnownRequiredBits
    /\ SupportsUnknownBits(flags) <=> \E x \in Bits(flags) : x \notin KnownBits

\* or keeps every bit of both sides, whichever vector is longer.
OrIsUnion ==
    \A o \in OrArgs : Bits(OrInit(flags, o)) = Bits(flags) \cup Bits(o)

=============================================================================
