---------------------------- MODULE MCDownloader ----------------------------
(* Small instances of Downloader for TLC; the cfg files give the numbers.  *)
EXTENDS Downloader
=============================================================================
