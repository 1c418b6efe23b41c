---------------------------- MODULE MCMongoWorker ----------------------------
(* Model-checking instance of MongoWorker: one id with a callback and the *)
(* fire-and-forget id 0, three queries (enough for a query to be queued   *)
(* behind one in flight and one waiting in _result at the same time).     *)
EXTENDS MongoWorker

MCQids == {0, 1}
MCMaxQueries == 3
====
