-------------------------- MODULE MCNetworkRequest --------------------------
EXTENDS NetworkRequest

\* The chain of DownloadManager, and that of WebServicesClient.
BitsThenWinHttp == <<"bits", "winhttp">>
WinHttpOnly == <<"winhttp">>
=============================================================================
