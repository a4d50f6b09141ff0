---------------------------- MODULE MCApiGateway ----------------------------
EXTENDS ApiGateway, TLC
Interchangeable == Permutations(Call) \cup Permutations(User)

\* Any user's process can be started again while the one before it is known.
Listeners == [uid : User, port : Port, id : {1, 2}]
=============================================================================
