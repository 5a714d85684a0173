---------------------------- MODULE MCDownloader ----------------------------
(* Downloader on a small instance: three rows, two taken a cycle; the file *)
(* of the first is dead, the size of the second is known, the last is the  *)
(* echo of a send and may go with its message.                             *)
EXTENDS Downloader

DeadRows == {1}
EchoRows == {3}
LostRows == {3}
SizedRows == {2}
=============================================================================
