----------------------------- MODULE MCVanLpBus -----------------------------
(* Identifiers of two states; frames of one or three groups and EOD,       *)
(* scanned for up to six groups; two configurations, one with a duplicate  *)
(* reply slot.                                                             *)
EXTENDS VanLpBus

MCIdentifiers == {<<0, 1>>, <<1, 1>>, <<1, 0>>}

Frame(id, kind, data) == [id |-> id, kind |-> kind, data |-> data]

MCSubmissions ==
  {Frame(<<0, 1>>, "query", <<1>>), Frame(<<1, 1>>, "acked", <<0, 1, 1>>)}

MCConfigurations ==
  {[acks |-> {<<1, 1>>, <<1, 0>>},
    replies |-> <<Frame(<<0, 1>>, "reply", <<1>>), Frame(<<0, 1>>, "reply", <<0>>)>>,
    queryAck |-> FALSE],
   [acks |-> {<<0, 1>>, <<1, 1>>},
    replies |-> <<Frame(<<1, 1>>, "reply", <<1>>)>>,
    queryAck |-> TRUE]}
=============================================================================
