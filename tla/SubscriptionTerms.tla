------------------------- MODULE SubscriptionTerms --------------------------
(***************************************************************************)
(* What the sell subscription of a shop promises, stated of the shop's row, *)
(* its billing rows and the gateway's payment links alone: the months are   *)
(* paid for, paid months are not forgotten, and a running plan keeps its    *)
(* date.  Subscription has the requests that are to keep these terms.       *)
(***************************************************************************)
EXTENDS Integers, Sequences, FiniteSets, FiniteSetsExt

CONSTANTS
  Months,      \* months a plan lasts, by cadence
  MaxLinks,    \* bound: payment links made
  MaxNow       \* bound: the clock

ASSUME PlanAssumption == Months \in [{"monthly", "yearly"} -> Nat \ {0}]
ASSUME BoundsAssumption == MaxLinks \in Nat /\ MaxNow \in Nat \ {0}

VARIABLES
  shop,        \* the columns of retailer_profiles
  billing,     \* payment notifications: the link of each
  links,       \* the gateway's links: [cadence, paid, sent]
  now,
  comps,       \* history: months granted by the admin
  dropped,     \* history: links replaced by a newer one or cleared by the admin
  overlap      \* whether requests overlap in this behaviour; never changes

-----------------------------------------------------------------------------
Activated == Range(billing)
\* Months the shop paid for, each link once.
Bought == MapThenSumSet(LAMBDA l : Months[links[l].cadence],
                        {l \in Activated : links[l].paid})

\* However requests overlap and repeat, a shop never gets more time than the
\* links it paid and the months the admin gave, although a link that is
\* confirmed twice is applied twice: the second time from the same stale date.
NeverOvergranted == shop.expires <= now + Bought + comps

\* One request at a time, money is not forgotten: a paid link was applied or
\* waits to be, unless a newer link or the admin took its place.
PaidAccounted ==
  ~ overlap =>
    \A l \in DOMAIN links :
      links[l].paid => l \in Activated \/ shop.pending = l \/ l \in dropped

\* One request at a time, a running subscription never gets shorter.
PaidTimeKept ==
  [][~ overlap /\ shop.status = "approved" /\ shop.expires > now
       => shop'.expires >= shop.expires]_shop
=============================================================================
