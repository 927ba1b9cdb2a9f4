----------------------------- MODULE SecretRender -----------------------------
(***************************************************************************)
(* The multi-format renderer of pkg/output/renderer.go and the options     *)
(* SecretWriter.Write (pkg/output/writer.go) hands it.  A key pair is      *)
(* always encoded to PEM first (that cannot fail for the EC and RSA keys   *)
(* Generate returns); the format then decides the Secret's file names or   *)
(* the error.  The bytes of the files are left out: only which files a     *)
(* format yields, and whether it fails, reach the rest of the system.      *)
(***************************************************************************)

(* The format constants of renderer.go. *)
FormatSplitPEM == "split-pem"
FormatSinglePEM == "single-pem"
FormatJKS == "jks"

(* What Render returns: a bundle of files, or an error and no bundle. *)
Bundle(files) == [ok |-> TRUE, files |-> files]
RenderError == [ok |-> FALSE, files |-> {}]

(* renderJKS: an empty password is refused before anything is built; the   *)
(* alias defaults, the self-signed wrapper certificate and the keystore    *)
(* are built, and the store is serialised into one file.                   *)
renderJKS(opts) ==
    IF opts.password = "" THEN RenderError ELSE Bundle({"keystore.jks"})

(* Mutant: the split-pem case misspelt, so the default format falls to     *)
(* "unsupported output format".                                            *)
Render_NoSplitPEM(opts) ==
    CASE opts.format = FormatSinglePEM -> Bundle({"keypair.pem"})
      [] opts.format = FormatJKS       -> renderJKS(opts)
      [] OTHER                         -> RenderError

(* defaultRenderer.Render: the bundle of split-pem (private key, public   *)
(* key under two names) and single-pem (both concatenated), jks through    *)
(* renderJKS, and "unsupported output format" for anything else.           *)
Render(opts) ==
    CASE opts.format = FormatSplitPEM  -> Bundle({"tls.key", "tls.crt", "public.pem"})
      [] opts.format = FormatSinglePEM -> Bundle({"keypair.pem"})
      [] opts.format = FormatJKS       -> renderJKS(opts)
      [] OTHER                         -> RenderError

(* The RenderOptions SecretWriter.Write builds: the profile's format, and *)
(* neither password nor alias (the CRD has no field for them yet).         *)
WriterRenderOptions(format) == [format |-> format, password |-> ""]

(* SecretWriter.Write gets past its render step for this format. *)
WriterRenders(format) == Render(WriterRenderOptions(format)).ok
=============================================================================
