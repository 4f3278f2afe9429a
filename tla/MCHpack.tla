------------------------------ MODULE MCHpack ------------------------------
(* Hpack on a small instance: a static entry that matches one name, and a   *)
(* table that holds two entries or so.                                      *)
EXTENDS Hpack

MCLength == [s \in Names \cup Values |-> IF s = "long" THEN 1 ELSE 0]

Field(x, v, s) == [name |-> x, value |-> v, sensitive |-> s]

MCStatic == addEntry(NewTable(0), Field(":method", "get", FALSE))

MCSent ==
  {Field(":method", "get", FALSE), Field(":method", "long", FALSE),
   Field("etag", "get", FALSE), Field("etag", "long", FALSE),
   Field("etag", "get", TRUE)}
=============================================================================
