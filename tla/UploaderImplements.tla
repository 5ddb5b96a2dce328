-------------------------- MODULE UploaderImplements --------------------------
(* The uploader, without changes from outside, implements BundleLifecycle: a  *)
(* bundle is in a place while that place shows its completion marker, so the  *)
(* steps that count are the ones that add or remove a marker.                 *)
EXTENDS Uploader

Places == [b \in Bundles |-> (IF b \in ready THEN {"outbox"} ELSE {})
                             \cup (IF Has(b, Marker) THEN {"drive"} ELSE {})]
Published == {b \in Bundles : stage[b] = "published"}
Finished == [b \in Bundles |-> IF b \in Published THEN born[b] ELSE 0]
ReviewedBundles == {r[1] : r \in reviewed}

Lifecycle == INSTANCE BundleLifecycle
               WITH places <- Places, finished <- Finished, published <- Published,
                    reviewed <- ReviewedBundles, day <- clock

\* Every step of the uploader, the collector and the reviewer is one the bundle
\* lifecycle allows, or changes nothing it tells apart.
ImplementsLifecycle == Lifecycle!Spec

=============================================================================
