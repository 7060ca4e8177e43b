------------------------------ MODULE MCSearch ------------------------------
EXTENDS Search

MCRoomNames == <<<<1>>, <<2, 1>>>>

MCPlayerNames == {<<3>>}
=============================================================================
