---------------------------- MODULE InvoiceUtils ----------------------------
(***************************************************************************)
(* Invoice construction helpers (lightning-invoice/src/utils.rs).         *)
(*                                                                         *)
(* create_invoice_from_channelmanager_and_duration_since_epoch takes the *)
(* node's usable channels, turns them into route hints by filter_channels *)
(* and registers an inbound payment; create_phantom_invoice turns the     *)
(* channels of every phantom node into two-hop hints ending at the        *)
(* phantom scid.  A channel is abstracted to what these functions read:   *)
(* counterparty, inbound capacity, whether it is public, and whether it   *)
(* has both an inbound-payment scid and the counterparty's forwarding     *)
(* info ("routable": both are tested together and skipped together).      *)
(* Invoice fields that are copied unchanged (description, hash, secret,   *)
(* expiry, cltv) are left out; build_raw and sign_invoice may fail.       *)
(***************************************************************************)
EXTENDS Naturals, Sequences, FiniteSets
LOCAL INSTANCE SequencesExt

CONSTANTS
    Nodes,          \* counterparty node ids
    Caps,           \* inbound_capacity_msat values
    MaxChannels,    \* longest list_usable_channels()
    Amounts,        \* amt_msat arguments (None or a value)
    MaxValueMsat,   \* create_inbound_payment's amount limit
    None

Channel == [node : Nodes, cap : Caps, public : BOOLEAN, routable : BOOLEAN]

VARIABLES
    channels,       \* channelmanager.list_usable_channels()
    amt,            \* amt_msat
    result          \* None, or the outcome of the last invoice call

vars == <<channels, amt, result>>

-----------------------------------------------------------------------------
(* filter_channels.  The scan keeps, per counterparty, the index of the    *)
(* best channel so far (or None), whether any channel met the minimum,     *)
(* and stops at the first public routable channel.                        *)

\* Mutant: a channel with less capacity than the entry still replaces it.
MutKeepEntry(chs, best, i) == FALSE

\* `if channel.inbound_capacity_msat < current_max_capacity { continue; }`
KeepEntry(chs, best, i) ==
    best[chs[i].node] # None /\ chs[i].cap < chs[best[chs[i].node]].cap

\* Mutant: channels without scid or forwarding info are scanned too.
MutSkipChannel(ch) == FALSE

\* get_inbound_payment_scid().is_none() || forwarding_info.is_none()
SkipChannel(ch) == ~ch.routable

RECURSIVE Scan(_, _, _, _, _)
Scan(chs, i, minCap, best, exists) ==
    IF i > Len(chs)
    THEN [best |-> best, exists |-> exists, public |-> FALSE]
    ELSE LET ch == chs[i] IN
         IF SkipChannel(ch) THEN Scan(chs, i + 1, minCap, best, exists)
         ELSE IF ch.public
         THEN [best |-> best, exists |-> exists, public |-> TRUE]
         ELSE LET ex == exists \/ ch.cap >= minCap
              IN  IF KeepEntry(chs, best, i)
                  THEN Scan(chs, i + 1, minCap, best, ex)
                  ELSE Scan(chs, i + 1, minCap, [best EXCEPT ![ch.node] = i], ex)

\* Mutant: the minimum is applied even when no channel meets it.
MutKeepHint(ch, minCap, exists) == ch.cap >= minCap

\* The closing .filter(): min_capacity_channel_exists && cap >= min || !exists
KeepHint(ch, minCap, exists) == (exists /\ ch.cap >= minCap) \/ ~exists

\* The route hints, as the set of channel indices they are built from.
FilterChannels(chs, minMsat) ==
    LET minCap == IF minMsat = None THEN 0 ELSE minMsat
        r == Scan(chs, 1, minCap, [n \in Nodes |-> None], FALSE)
    IN  IF r.public THEN {}
        ELSE {r.best[n] : n \in {m \in Nodes : r.best[m] # None
                                 /\ KeepHint(chs[r.best[m]], minCap, r.exists)}}

\* create_phantom_invoice's hints: one per routable channel of each phantom
\* node, as <<channel index, phantom node>>.
PhantomHints(hints) ==
    UNION {{<<i, h.phantom>> : i \in {j \in DOMAIN h.channels : h.channels[j].routable}}
           : h \in ToSet(hints)}

-----------------------------------------------------------------------------
Init ==
    /\ channels \in BoundedSeq(Channel, MaxChannels)
    /\ amt \in Amounts
    /\ result = None

\* create_invoice_from_channelmanager_and_duration_since_epoch: filter the
\* hints, create the inbound payment (InvalidAmount above the limit), then
\* build_raw and sign_invoice, either of which may fail.
CreateInvoice ==
    /\ result = None
    /\ IF amt # None /\ amt > MaxValueMsat
       THEN result' = [kind |-> "creation_error", hints |-> {}]
       ELSE \E k \in {"ok", "creation_error", "sign_error"} :
               result' = [kind |-> k,
                          hints |-> IF k = "ok" THEN FilterChannels(channels, amt) ELSE {}]
    /\ UNCHANGED <<channels, amt>>

\* create_phantom_invoice with the usable channels of one phantom node, or
\* with no PhantomRouteHints at all (MissingRouteHints); build_raw and
\* sign_invoice may fail as above.
CreatePhantomInvoice ==
    /\ result = None
    /\ \E hints \in {<<>>, <<[phantom |-> "p1", channels |-> channels]>>},
          k \in {"phantom", "creation_error", "sign_error"} :
          result' = IF hints = <<>>
                    THEN [kind |-> "creation_error", hints |-> {}]
                    ELSE [kind |-> k,
                          hints |-> IF k = "phantom" THEN PhantomHints(hints) ELSE {}]
    /\ UNCHANGED <<channels, amt>>

Next == CreateInvoice \/ CreatePhantomInvoice

Spec == Init /\ [][Next]_vars

-----------------------------------------------------------------------------
(* Properties, stated over the usable channels the invoice was built from. *)

MinCap == IF amt = None THEN 0 ELSE amt

\* Channels filter_channels may turn into a hint for counterparty n.
Candidates(n) ==
    {i \in DOMAIN channels : channels[i].node = n /\ channels[i].routable
                            /\ ~channels[i].public}

RoutablePublic == \E i \in DOMAIN channels : channels[i].routable /\ channels[i].public

MinCapacityChannelExists ==
    \E n \in Nodes : \E i \in Candidates(n) : channels[i].cap >= MinCap

TypeOK ==
    /\ channels \in Seq(Channel)
    /\ amt \in Amounts
    /\ result = None \/ result.kind \in {"ok", "phantom", "creation_error", "sign_error"}
    \* a RouteHint needs the channel's scid and forwarding info (unwrapped)
    /\ result # None /\ result.kind = "ok" =>
           result.hints \subseteq {i \in DOMAIN channels : channels[i].routable}

\* (doc of filter_channels) Each hint is a channel of highest inbound
\* capacity among its counterparty's channels, whatever their order.
HighestCapacity ==
    (result # None /\ result.kind = "ok") =>
        \A i \in result.hints : \A j \in Candidates(channels[i].node) :
            channels[j].cap <= channels[i].cap

\* (doc of filter_channels) With only private channels, every counterparty
\* gets a hint, except that once some channel meets the minimum inbound
\* capacity, counterparties whose channels all fall below it are dropped.
HintCoverage ==
    (result # None /\ result.kind = "ok" /\ ~RoutablePublic) =>
        \A n \in Nodes :
            (\E i \in result.hints : channels[i].node = n) <=>
                (/\ Candidates(n) # {}
                 /\ MinCapacityChannelExists =>
                        \E i \in Candidates(n) : channels[i].cap >= MinCap)

\* (doc of filter_channels) "If any public channel exists, the returned
\* RouteHints will be empty."
PublicMeansNoHints ==
    (result # None /\ result.kind = "ok" /\ \E i \in DOMAIN channels : channels[i].public) =>
        result.hints = {}

=============================================================================
