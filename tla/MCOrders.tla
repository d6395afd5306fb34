------------------------------- MODULE MCOrders -------------------------------
\* Orders of one hour, for TLC.
EXTENDS Orders, TLC

CONSTANTS o1, o2, o3

MCCreated == [o \in Orders |-> (o1 :> 0 @@ o2 :> 1 @@ o3 :> 1)[o]]
MCExpires == [o \in Orders |-> (o1 :> 5 @@ o2 :> 6 @@ o3 :> 6)[o]]
MCAction == [o \in Orders |-> (o1 :> "get" @@ o2 :> "put" @@ o3 :> "get")[o]]
=============================================================================
