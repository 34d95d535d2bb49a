--------------------------- MODULE MCProfileDial ---------------------------
(***************************************************************************)
(* Bundles for TLC: profiles of up to two nodes with every kind of path    *)
(* and protocol, pools at the edges of the port range, bundles of two      *)
(* profiles, and envelopes whose header was rewritten after sealing.       *)
(***************************************************************************)
EXTENDS ProfileDial

Pool(ip, min, max) == [ip |-> ip, min |-> min, max |-> max]
Proto(type, pool) == [type |-> type, ok |-> TRUE, pool |-> pool]
Broken(type) == [type |-> type, ok |-> FALSE, pool |-> <<>>]
NodeOf(id, ips, protocols) ==
    [id |-> id, name |-> id, endpoints |-> ips, protocols |-> protocols]
ProfileOf(id, name, protocol, path, mtu, nodes) ==
    [id |-> id, name |-> name, protocol |-> protocol, path |-> path, mtu |-> mtu,
     nodes |-> nodes]

\* Node a offers AmneziaWG, from its flat list; node b both, from a pool.
A == NodeOf("a", <<Empty, "a1">>, <<Proto("amneziawg", <<>>)>>)
B == NodeOf("b", <<"b1">>,
            <<Proto("xray-reality", <<Pool(Empty, 1, 2), Pool("b2", 2, 3)>>),
              Proto("amneziawg", <<Pool("b2", 6, 7), Pool("b3", 0, 0)>>)>>)

Hop(id, role) == [id |-> id, role |-> role]
Paths == {<<>>, <<Hop("a", "entry"), Hop("b", "exit")>>,
          <<Hop("a", "exit"), Hop("b", "entry")>>, <<Hop("b", "mid")>>,
          <<Hop("z", "entry")>>}

Cascades == {<<ProfileOf("p1", "home", protocol, path, IF path = <<>> THEN 0 ELSE 9, nodes)>> :
               protocol \in {"amneziawg", "xray-reality", "both"}, path \in Paths,
               nodes \in {<<>>, <<A>>, <<A, B>>, <<B, A>>}}

\* One node, one pool entry; no endpoint; params that do not decode.
Edges == {<<ProfileOf("p1", "home", "amneziawg", <<>>, 0,
              <<NodeOf("a", <<"a1">>, <<Proto("amneziawg", <<Pool("a2", min, max)>>)>>)>>)>> :
            min \in {-1, 0, 1, 4, 5, 8}, max \in {0, 3, 4, 6, 8}}
         \cup {<<ProfileOf("p1", "home", "amneziawg", <<>>, 0,
                  <<NodeOf("a", <<Empty>>, <<pr>>)>>)>> :
                 pr \in {Proto("amneziawg", <<>>), Broken("amneziawg")}}

Pairs == {<<ProfileOf("p1", n1, "both", <<>>, 0, <<B>>),
            ProfileOf("p2", n2, "amneziawg", <<>>, 0, <<A>>)>> :
            n1 \in {"home", "p2"}, n2 \in {"home", "work"}} \cup {<<>>}

Bundles == Cascades \cup Edges \cup Pairs

Plain(profiles) ==
    [tag |-> TRUE, v |-> 1, enc |-> "none", kdf |-> None,
     body |-> [form |-> "plain", profiles |-> profiles]]

One == <<ProfileOf("p1", "home", "amneziawg", <<>>, 0, <<A>>)>>
Bodies == {[form |-> "cipher", profiles |-> One, key |-> "pw", aad |-> <<1, "password", "k1">>],
           [form |-> "sealed", profiles |-> One, key |-> "dk", signer |-> "ctl"],
           [form |-> "plain", profiles |-> One], [form |-> "junk", profiles |-> <<>>]}

\* Any header over any body.
Envelopes ==
    {[tag |-> tag, v |-> v, enc |-> enc, kdf |-> kdf, body |-> body] :
        tag \in BOOLEAN, v \in {1, 2}, enc \in {"none", "password", "account", "zip"},
        kdf \in {None, "k1", "k2"}, body \in Bodies}

MCStored == {Plain(b) : b \in Bundles} \cup Envelopes
MCSynced == {Plain(One), Plain(<<>>)}
MCSecrets == [password : {Empty, "pw", "no"}, deviceKey : {Empty, "dk"},
              signer : {Empty, "ctl", "other"}]
=============================================================================
