--------------------------- MODULE MCInstallerHome ---------------------------
\* Updates that are stopped or fail at any point; see installer.cfg.
EXTENDS InstallerHome
==============================================================================
